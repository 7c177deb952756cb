---------------------------- MODULE Se050Service ----------------------------
(***************************************************************************)
(* What an SE050 promises the hosts that share it: every command is one    *)
(* atomic step on the object store, a card that requires Platform SCP03    *)
(* executes a command only when it came over an authenticated channel, and *)
(* the store survives the process when it has a file.                      *)
(*                                                                         *)
(* The channel is abstracted to the Boolean `active` of a command: whether *)
(* it came over a session that t1.rs holds to be authenticated.  What a    *)
(* command does is the parameter `dispatch`, so that Se050Objects states   *)
(* the properties of this service and Se050Card implements it over the     *)
(* same commands.                                                          *)
(***************************************************************************)
CONSTANTS
    dispatch(_, _, _),  \* what a command does to a store
    NewStore,           \* the store without a file
    Empty,              \* the map without entries
    NoId,               \* no identifier in the command
    NO_ERROR, Panic,    \* the answers the service tells apart
    Commands,           \* the commands the hosts send
    OverChannel,        \* those of them they send over a channel
    InPlain,            \* those they send without
    PlatformKeys,       \* the Platform SCP03 key sets a PUT KEY may install
    Persistent,         \* the store was opened with a file (with_persistence)
    SaveOutcomes,       \* what a write of the file may do
    Crashes             \* the process may die inside a command

VARIABLES
    store,   \* the ObjectStore in memory
    disk,    \* its file: nothing when there is none or it does not parse
    alive    \* no thread died holding the lock of the store

ovars == <<store, disk, alive>>

(***************************************************************************)
(* The file.  Crypto objects are not written.  A write that fails is       *)
(* ignored, and a file that does not parse is read as no file at all.      *)
(***************************************************************************)
Document(s) == [s EXCEPT !.crypto_objects = Empty, !.crypto_object_types = Empty]

persist(d, s) ==
    IF ~Persistent THEN {d}
    ELSE {IF outcome = "saved" THEN {Document(s)} ELSE IF outcome = "torn" THEN {} ELSE d :
            outcome \in SaveOutcomes}

load(d) == IF d = {} THEN NewStore ELSE CHOOSE s \in d : TRUE

Saves_but_curves(c) ==
    \/ c.cmd \in {"WriteBinary", "WriteCounter", "WriteEC", "WriteRSA", "WriteAES", "WriteHMAC",
                  "DeleteObject", "DeleteAll", "SetPlatformSCP"}
    \/ c.cmd = "ECDH" /\ c.target # NoId

\* The commands that end in a save when they succeed.
Saves(c) ==
    \/ c.cmd \in {"WriteBinary", "WriteCounter", "WriteEC", "WriteRSA", "WriteAES", "WriteHMAC",
                  "DeleteObject", "DeleteAll", "CreateCurve", "SetCurveParam", "DeleteCurve",
                  "SetPlatformSCP"}
    \/ c.cmd = "ECDH" /\ c.target # NoId

\* A creation saves the store twice: after the object was inserted, and after its metadata
\* was recorded.
Creates(s, t) == DOMAIN t.metadata \ DOMAIN s.metadata # {}
Inserted(s, t) == [t EXCEPT !.metadata = s.metadata]

SavedBy(d, c, s, reply) ==
    IF reply.sw # NO_ERROR \/ ~Saves(c) THEN {d}
    ELSE IF Creates(s, reply.store)
    THEN UNION {persist(e, reply.store) : e \in persist(d, Inserted(s, reply.store))}
    ELSE persist(d, reply.store)

-----------------------------------------------------------------------------
OInit ==
    /\ store = NewStore
    /\ disk = {}
    /\ alive = TRUE

\* The platform may require the channel: a plain command is then refused and changes nothing.
Admitted(active) == alive /\ (store.scp_required => active)

Command(c, active) ==
    LET reply == dispatch(store, c, active)
    IN  /\ Admitted(active)
        /\ store' = reply.store
        /\ disk' \in SavedBy(disk, c, store, reply)
        /\ alive' = (reply.sw # Panic)

\* PUT KEY, over an authenticated channel of the security domain.
PutKey(key) ==
    /\ alive
    /\ store' = [store EXCEPT !.platform_scp = {key}]
    /\ disk' \in persist(disk, store')
    /\ UNCHANGED alive

\* The process ends and is started again.
Restart ==
    /\ store' = load(disk)
    /\ alive' = TRUE
    /\ UNCHANGED disk

\* The process dies between the two saves of a creation, and is started again.
Crash(c, active) ==
    LET reply == dispatch(store, c, active)
    IN  /\ Crashes /\ Persistent
        /\ Admitted(active)
        /\ reply.sw = NO_ERROR /\ Creates(store, reply.store)
        /\ disk' \in persist(disk, Inserted(store, reply.store))
        /\ store' = load(disk')
        /\ alive' = TRUE

ONext ==
    \/ \E c \in Commands, active \in BOOLEAN :
         /\ c \in (IF active THEN OverChannel ELSE InPlain)
         /\ Command(c, active) \/ Crash(c, active)
    \/ \E key \in PlatformKeys : PutKey(key)
    \/ Restart

OSpec == OInit /\ [][ONext]_ovars
=============================================================================
