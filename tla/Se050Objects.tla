---------------------------- MODULE Se050Objects ----------------------------
(***************************************************************************)
(* The service of Se050Service over the commands of Se050Crypto and        *)
(* Se050Store, and the properties of the objects it keeps.                 *)
(***************************************************************************)
EXTENDS Se050Crypto

CONSTANTS
    Commands,       \* the commands the hosts send
    OverChannel,    \* those of them they send over a channel
    InPlain,        \* those they send without
    PlatformKeys,   \* the Platform SCP03 key sets a PUT KEY may install
    Persistent,     \* the store was opened with a file (with_persistence)
    SaveOutcomes,   \* what a write of the file may do
    Crashes         \* the process may die inside a command

ASSUME PersistenceAssumption ==
    /\ Persistent \in BOOLEAN /\ Crashes \in BOOLEAN
    /\ SaveOutcomes \subseteq {"saved", "refused", "torn"} /\ SaveOutcomes # {}

\* A counter is written with at most eight bytes, read as an unsigned integer.
ASSUME CounterAssumption == \A c \in Commands : c.cmd = "WriteCounter" => c.value \subseteq Nat

VARIABLES
    store,   \* the ObjectStore in memory
    disk,    \* its file: nothing when there is none or it does not parse
    alive    \* no thread died holding the lock of the store

INSTANCE Se050Service

-----------------------------------------------------------------------------
(***************************************************************************)
(* Properties.                                                             *)
(***************************************************************************)
ObjectTypes == {"Binary", "Counter", "ECKeyPair", "ECPublicKey", "RSAKeyPair", "AESKey", "HMACKey"}

StoreType(s) ==
    /\ \A id \in DOMAIN s.objects : id # NoId /\ s.objects[id].type \in ObjectTypes
    /\ \A id \in DOMAIN s.metadata : s.metadata[id].origin \in {EXTERNAL, INTERNAL}
    /\ \A curve \in DOMAIN s.ec_curves :
          curve \in 1..WEIERSTRASS_CURVE_COUNT /\ s.ec_curves[curve] \subseteq CURVE_PARAMS_COMPLETE
    /\ s.scp_required \in BOOLEAN
    /\ s.platform_scp \subseteq PlatformKeys

\* Type invariant: the store in memory and the one in the file are well formed, and only the
\* volatile crypto objects are missing from the file.
OTypeOK ==
    /\ StoreType(store)
    /\ \A d \in disk : StoreType(d) /\ d = Document(d)
    /\ alive \in BOOLEAN

After(c) == dispatch(store, c, TRUE).store

\* A running digest, cipher or MAC always belongs to a crypto object that still exists and
\* was created for that kind of work, with the algorithm it was created with: deleting,
\* re-creating and re-initialising crypto objects in any order never leaves an orphan.
ContextsMatchCryptoObjects ==
    \A crypto \in DOMAIN store.crypto_objects :
      LET ctx == store.crypto_objects[crypto]
      IN  /\ crypto \in DOMAIN store.crypto_object_types
          /\ store.crypto_object_types[crypto] =
                CASE ctx.kind = "Digest" -> <<DIGEST, ctx.algo>>
                  [] ctx.kind = "Cipher" -> <<CIPHER, ctx.mode>>
                  [] ctx.kind = "Mac" -> <<SIGNATURE, ctx.algo>>

\* No policy is left behind by a deleted object, where the next object of that identifier
\* would inherit it: set_creation_metadata keeps an entry that exists.
NoOrphanMetadata == DOMAIN store.metadata \subseteq DOMAIN store.objects

\* "Repeated RSA component writes and ordinary overwrites cannot replace the policy": while
\* an object exists its policy and origin stay what they were, even as its type changes.
MetadataIsImmutable ==
    \A c \in Commands : \A id \in DOMAIN store.objects \cap DOMAIN After(c).objects :
      /\ id \in DOMAIN store.metadata <=> id \in DOMAIN After(c).metadata
      /\ id \in DOMAIN store.metadata => store.metadata[id] = After(c).metadata[id]

Denies(id, permission) == exists(store, id) /\ ~policy_allows(store, id, permission)

Replaced(id, c) == exists(After(c), id) /\ After(c).objects[id] # store.objects[id]

\* An object that denies WRITE keeps its value, whichever write command names it, unless it
\* is an RSA key whose import is not finished or the target of an ECDH derivation; and an
\* object that denies DELETE is only removed by DeleteAll.
PolicyIsEnforced ==
    \A c \in Commands : \A id \in DOMAIN store.objects :
      /\ Denies(id, "WRITE") /\ Replaced(id, c) =>
            \/ c.cmd = "ECDH" /\ c.target = id
            \/ c.cmd = "WriteRSA" /\ Has(store, id, "RSAKeyPair") /\ store.objects[id].der = {}
      /\ Denies(id, "DELETE") /\ ~exists(After(c), id) => c.cmd = "DeleteAll"

ReadCounter(s, id) == s.objects[id].value % Byte^s.objects[id].size

\* An increment adds one to the value that a reader sees and wraps at the size of the
\* counter, even when a longer value was stored before.
CountersCount ==
    \A c \in Commands :
      c.cmd = "WriteCounter" /\ Has(store, c.id, "Counter") /\ c.size = {} /\ c.value = {}
        /\ dispatch(store, c, TRUE).sw = NO_ERROR
      => ReadCounter(After(c), c.id) = (ReadCounter(store, c.id) + 1) % Byte^store.objects[c.id].size

\* A version 7 applet never takes parameters away from a curve that stays: only deleting it
\* does, so a key operation that worked keeps working (3.1.1 resets the curve on a second
\* CreateECCurve).
CurvesKeepParameters ==
    \A c \in Commands :
      is_v7 => \A curve \in DOMAIN store.ec_curves \cap DOMAIN After(c).ec_curves :
                 store.ec_curves[curve] \subseteq After(c).ec_curves[curve] \/ c.cmd = "DeleteAll"

\* As long as writing works, the file is never behind the store: whatever a command changed
\* that should survive the process is in the file when the command answers.
FileIsCurrent ==
    Persistent /\ SaveOutcomes = {"saved"} => Document(store) = load(disk)

\* The requirement to use Platform SCP03 is only lifted by SetPlatformSCPRequest over an
\* authenticated channel: not by a factory reset, not by a restart ("Persisted, matching the
\* boot-persistent flag on real silicon").
ScpRequiredSticks ==
    [][store.scp_required /\ ~store'.scp_required =>
         \E c \in Commands : c.cmd = "SetPlatformSCP" /\ Command(c, TRUE)]_ovars

\* "Immutable metadata attached when a secure object is created": every object that a write
\* created has its metadata, also after the process died (only a lenient ECDH makes objects
\* without).
ObjectsHaveMetadata == StrictEcdh => DOMAIN store.objects \subseteq DOMAIN store.metadata

=============================================================================
