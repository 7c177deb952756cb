----------------------------- MODULE Se050Store -----------------------------
(***************************************************************************)
(* The object store of the SE050 simulator and the commands that write,    *)
(* read and delete its objects (object_store, policy.rs and the handlers   *)
(* object_mgmt, ec, rsa, aes, curve and management), as pure operators: a  *)
(* handler takes the store and one parsed command and returns the store    *)
(* that it leaves, the status word and the data of its answer.             *)
(*                                                                         *)
(* Data.  An optional value is a set with at most one element.  An object  *)
(* identifier, or NoId where the TLV is missing or has the wrong length,   *)
(* is a model value.  File content is a sequence.  Secret material is its  *)
(* length in bytes and an opaque value; the value of a shared secret names *)
(* the two keys it was derived from.  A policy TLV is the sequence of its  *)
(* entries, each the set of its permissions or, when the entry does not    *)
(* parse, {"malformed"}.  What the random generator returns is the field   *)
(* rnd of the command.                                                     *)
(***************************************************************************)
EXTENDS Integers, Sequences, FiniteSets

CONSTANTS
    NoId,         \* no (well-formed) identifier in the command
    Applet,       \* the simulated applet generation, SE050_SIM_APPLET
    StrictEcdh,   \* SE050_SIM_STRICT_ECDH
    Byte          \* the number of values of a byte of a counter

Applets == {"V3_1_1", "V7_2_0", "V7_2_0E", "V7_2_22F"}

ASSUME AppletAssumption == Applet \in Applets /\ StrictEcdh \in BOOLEAN
ASSUME ByteAssumption == Byte \in Nat \ {0, 1}

\* It follows that more bytes hold more values; the provers know nothing of exponentiation.
ASSUME WidthAssumption == \A n \in 1..8 : Byte^n \in Nat \ {0} /\ Byte^n <= Byte^8

(***************************************************************************)
(* The applet generations (applet.rs).                                     *)
(***************************************************************************)
is_v7 == Applet # "V3_1_1"
supports_25519 == Applet # "V7_2_22F"
supports_rsa == Applet # "V7_2_0E"
supports_rsa_public_import == Applet # "V7_2_22F"
rsa_min_key_bits == IF Applet = "V7_2_22F" THEN 2048 ELSE 1024
get_random_max ==
    CASE Applet = "V3_1_1" -> 880
      [] Applet \in {"V7_2_0", "V7_2_0E"} -> 1018
      [] Applet = "V7_2_22F" -> 1003

(***************************************************************************)
(* The store.                                                              *)
(***************************************************************************)
Empty == [x \in {} |-> 0]
Insert(f, x, v) == [y \in DOMAIN f \cup {x} |-> IF y = x THEN v ELSE f[y]]
Remove(f, x) == [y \in DOMAIN f \ {x} |-> f[y]]

Get(option) == CHOOSE x \in option : TRUE

\* The five parameters of a curve object.
CURVE_PARAMS_COMPLETE == {"A", "B", "G", "N", "PRIME"}
default_curves == [curve \in 1..5 |-> CURVE_PARAMS_COMPLETE]

NewStore ==
    [objects |-> Empty, metadata |-> Empty, ec_curves |-> default_curves,
     crypto_objects |-> Empty, crypto_object_types |-> Empty,
     scp_required |-> FALSE, platform_scp |-> {}]

insert(s, id, object) == [s EXCEPT !.objects = Insert(@, id, object)]
exists(s, id) == id \in DOMAIN s.objects
Has(s, id, type) == exists(s, id) /\ s.objects[id].type = type

remove_object_only(s, id) == [s EXCEPT !.objects = Remove(@, id)]

remove(s, id) ==
    IF exists(s, id)
    THEN [s EXCEPT !.objects = Remove(@, id), !.metadata = Remove(@, id)]
    ELSE s

set_creation_metadata(s, id, policy, origin) ==
    IF id \in DOMAIN s.metadata THEN s
    ELSE [s EXCEPT !.metadata = Insert(@, id, [policy |-> policy, origin |-> origin])]

clear_scp_too(s) == [NewStore EXCEPT !.platform_scp = s.platform_scp]

clear(s) ==
    [s EXCEPT !.objects = Empty, !.metadata = Empty, !.ec_curves = default_curves,
              !.crypto_objects = Empty, !.crypto_object_types = Empty]

curve_ready(s, curve) ==
    curve \in DOMAIN s.ec_curves /\ s.ec_curves[curve] = CURVE_PARAMS_COMPLETE

(***************************************************************************)
(* Policies (policy.rs).                                                   *)
(***************************************************************************)
Permissions == {"READ", "WRITE", "DELETE"}

\* The union of the AR headers of a policy, or nothing when it does not parse.
ar_header_union(raw) ==
    IF raw = <<>> \/ \E i \in DOMAIN raw : "malformed" \in raw[i] THEN {}
    ELSE {UNION {raw[i] : i \in DOMAIN raw}}

InvalidPolicy(tlv) == \E raw \in tlv : raw # <<>> /\ ar_header_union(raw) = {}
creation_policy(tlv) == tlv \ {<<>>}

policy_allows(s, id, permission) ==
    id \in DOMAIN s.metadata =>
      \A raw \in s.metadata[id].policy :
        \E header \in ar_header_union(raw) : permission \in header

(***************************************************************************)
(* Answers.                                                                *)
(***************************************************************************)
NO_ERROR == "9000"
WRONG_DATA == "6A80"
CONDITIONS_NOT_SATISFIED == "6985"
COMMAND_NOT_ALLOWED == "6986"
WRONG_P1P2 == "6A86"
INS_NOT_SUPPORTED == "6D00"
Panic == "panic"             \* the handler does not return: its thread dies

Reply(s, sw, out) == [store |-> s, sw |-> sw, out |-> out]
error(s, sw) == Reply(s, sw, <<>>)
success(s) == Reply(s, NO_ERROR, <<>>)
success_with(s, out) == Reply(s, NO_ERROR, out)

(***************************************************************************)
(* What every write of an object checks first, and how it ends: the        *)
(* metadata is recorded when the object did not exist, after it was        *)
(* inserted.                                                               *)
(***************************************************************************)
MayWrite(s, id) == exists(s, id) => policy_allows(s, id, "WRITE")

HeaderOk(c) == c.id # NoId /\ ~InvalidPolicy(c.policy)

Written_records_again(s, c, object, origin) ==
    success(set_creation_metadata(insert(s, c.id, object), c.id, creation_policy(c.policy), origin))

Written(s, c, object, origin) ==
    LET t == insert(s, c.id, object)
    IN  success(IF exists(s, c.id) THEN t
                ELSE set_creation_metadata(t, c.id, creation_policy(c.policy), origin))

EXTERNAL == 1
INTERNAL == 2

(***************************************************************************)
(* Files and counters (object_mgmt.rs).                                    *)
(***************************************************************************)
Overwrite(file, offset, data) ==
    [i \in DOMAIN file |->
        IF i \in offset + 1 .. offset + Len(data) THEN data[i - offset] ELSE file[i]]

handle_write_binary(s, c) ==
    LET size == IF exists(s, c.id) THEN Len(s.objects[c.id].data)
                ELSE IF c.size = {} THEN Len(c.data) ELSE Get(c.size)
        file == IF exists(s, c.id) THEN s.objects[c.id].data ELSE [i \in 1..size |-> 0]
    IN  IF ~HeaderOk(c) THEN error(s, WRONG_DATA)
        ELSE IF ~MayWrite(s, c.id) THEN error(s, CONDITIONS_NOT_SATISFIED)
        ELSE IF exists(s, c.id) /\ ~Has(s, c.id, "Binary") THEN error(s, CONDITIONS_NOT_SATISFIED)
        ELSE IF c.offset + Len(c.data) > size THEN error(s, WRONG_DATA)
        ELSE Written(s, c, [type |-> "Binary", data |-> Overwrite(file, c.offset, c.data)], EXTERNAL)

handle_write_userid(s, c) == error(s, CONDITIONS_NOT_SATISFIED)

Counter(value, size) == [type |-> "Counter", value |-> value % Byte^8, size |-> size]

Incremented_off_by_one(o) == (o.value + 1) % (Byte^o.size - 1)

Incremented(o) == (o.value + 1) % Byte^o.size

handle_write_counter(s, c) ==
    IF ~HeaderOk(c) THEN error(s, WRONG_DATA)
    ELSE IF exists(s, c.id) /\ ~Has(s, c.id, "Counter") THEN error(s, CONDITIONS_NOT_SATISFIED)
    ELSE IF ~MayWrite(s, c.id) THEN error(s, CONDITIONS_NOT_SATISFIED)
    ELSE IF exists(s, c.id)
    THEN LET o == s.objects[c.id]
         IN  IF c.value # {} THEN success(insert(s, c.id, Counter(Get(c.value), o.size)))
             ELSE IF c.size = {}
             THEN success(insert(s, c.id, Counter(Incremented(o), o.size)))
             ELSE error(s, CONDITIONS_NOT_SATISFIED)
    ELSE IF c.size = {} THEN error(s, CONDITIONS_NOT_SATISFIED)
    ELSE IF Get(c.size) \notin 1..8 THEN error(s, WRONG_DATA)
    ELSE Written(s, c, Counter(IF c.value = {} THEN 0 ELSE Get(c.value), Get(c.size)), EXTERNAL)

(***************************************************************************)
(* Elliptic-curve keys (ec.rs, types.rs).                                  *)
(***************************************************************************)
Ed25519 == 64
Curve25519 == 65
Weierstrass == 1..5
ECCurves == Weierstrass \cup {Ed25519, Curve25519}

scalar_len(curve) ==
    CASE curve = 1 -> 24
      [] curve = 2 -> 28
      [] curve = 3 -> 32
      [] curve = 4 -> 48
      [] curve = 5 -> 66
      [] curve \in {Ed25519, Curve25519} -> 32

\* A scalar of the right length that the curve accepts: zero is no Weierstrass key.
ValidScalar(curve, key) ==
    key.len = scalar_len(curve) /\ (curve \in Weierstrass => key.v # <<0>>)

ECKeyPair(curve, key) ==
    [type |-> "ECKeyPair", curve |-> curve, private_key |-> key,
     public_key |-> IF ValidScalar(curve, key) THEN {key.v} ELSE {}]

\* The curve of the command, unless it is unknown, unsupported or not set up.
CurveRefused(s, curve) ==
    \/ curve \in {Ed25519, Curve25519} /\ ~supports_25519
    \/ curve \in Weierstrass /\ ~curve_ready(s, curve)

handle_write_ec_key(s, c) ==
    IF ~HeaderOk(c) THEN error(s, WRONG_DATA)
    ELSE IF ~MayWrite(s, c.id) THEN error(s, CONDITIONS_NOT_SATISFIED)
    ELSE IF c.curve \notin ECCurves THEN error(s, WRONG_DATA)
    ELSE IF CurveRefused(s, c.curve) THEN error(s, CONDITIONS_NOT_SATISFIED)
    ELSE IF c.part = "PAIR" /\ c.key = {}
    THEN Written(s, c, ECKeyPair(c.curve, [len |-> scalar_len(c.curve), v |-> c.rnd]), INTERNAL)
    ELSE IF c.key # {} THEN Written(s, c, ECKeyPair(c.curve, Get(c.key)), EXTERNAL)
    ELSE IF c.part = "PUBLIC"
    THEN Written(s, c, [type |-> "ECPublicKey", curve |-> c.curve, public_key |-> c.peer], EXTERNAL)
    ELSE error(s, WRONG_DATA)

(***************************************************************************)
(* RSA keys (rsa.rs).  The components of a key carry the name of the key;  *)
(* a modulus, a private exponent and primes make a key when they belong    *)
(* together, and every public exponent fits every key.                     *)
(***************************************************************************)
RsaNames == {"p", "q", "dp", "dq", "qinv", "e", "d", "n"}
RsaPublic == {"n", "e"}

try_materialize(staged) ==
    IF /\ {"n", "e", "d"} \subseteq DOMAIN staged
       /\ staged["d"] = staged["n"]
       /\ {"p", "q"} \subseteq DOMAIN staged => {staged["p"], staged["q"]} = {staged["n"]}
    THEN {staged["n"]} ELSE {}

CreationInProgress(s, c) ==
    /\ c.comps # Empty
    /\ Has(s, c.id, "RSAKeyPair")
    /\ s.objects[c.id].der = {}
    /\ ~ ((IF c.part = "PUBLIC" THEN RsaPublic ELSE RsaPublic \cup {"d"})
            \subseteq DOMAIN s.objects[c.id].staged)

RSAKeyPair(bits, der, staged) ==
    [type |-> "RSAKeyPair", bits |-> bits, der |-> der, staged |-> staged]

\* A public key to import, on the part that has none.
PublicImport(c) ==
    c.part = "PUBLIC" \/ DOMAIN c.comps = RsaPublic

GenerateRsa(s, c) ==
    IF c.size = {} \/ Get(c.size) \notin {1024, 2048, 3072, 4096} THEN error(s, WRONG_DATA)
    ELSE IF Get(c.size) < rsa_min_key_bits THEN error(s, CONDITIONS_NOT_SATISFIED)
    ELSE Written(s, c, RSAKeyPair(Get(c.size), {c.rnd}, Empty), INTERNAL)

Merged(bits, staged) ==
    LET der == try_materialize(staged)
    IN  RSAKeyPair(bits, der, IF der = {} THEN staged ELSE Empty)

ImportRsa_without_metadata(s, c) ==
    success(insert(s, c.id, Merged(0, c.comps)))

ImportRsa(s, c) ==
    LET old == IF exists(s, c.id) THEN s.objects[c.id] ELSE RSAKeyPair(0, {}, Empty)
        staged == [x \in DOMAIN old.staged \cup DOMAIN c.comps |->
                     IF x \in DOMAIN c.comps THEN c.comps[x] ELSE old.staged[x]]
        bits == IF c.size = {} THEN old.bits ELSE Get(c.size)
    IN  IF exists(s, c.id) /\ ~Has(s, c.id, "RSAKeyPair") THEN error(s, CONDITIONS_NOT_SATISFIED)
        ELSE Written(s, c, Merged(bits, staged), EXTERNAL)

handle_write_rsa_key(s, c) ==
    IF ~supports_rsa
    THEN error(s, IF c.comps # Empty THEN WRONG_DATA ELSE CONDITIONS_NOT_SATISFIED)
    ELSE IF ~supports_rsa_public_import /\ PublicImport(c) THEN error(s, WRONG_DATA)
    ELSE IF ~HeaderOk(c) THEN error(s, WRONG_DATA)
    ELSE IF ~CreationInProgress(s, c) /\ ~MayWrite(s, c.id)
    THEN error(s, CONDITIONS_NOT_SATISFIED)
    ELSE IF c.comps = Empty THEN GenerateRsa(s, c) ELSE ImportRsa(s, c)

(***************************************************************************)
(* Symmetric keys (aes.rs).                                                *)
(***************************************************************************)
\* The length of a generated key: Tag 3 holds it in bits or bytes, 16 bytes otherwise.
GeneratedLen(key) ==
    IF \E k \in key : k.len = 2
    THEN CASE Get(key).v = <<128>> -> 16
           [] Get(key).v = <<192>> -> 24
           [] Get(key).v = <<256>> -> 32
           [] OTHER -> Get(key).v[1]
    ELSE 16

handle_write_aes_key(s, c) ==
    LET generated == c.generate \/ \E k \in c.key : k.len <= 2
        key == IF generated THEN [len |-> GeneratedLen(c.key), v |-> c.rnd] ELSE Get(c.key)
    IN  IF ~HeaderOk(c) THEN error(s, WRONG_DATA)
        ELSE IF ~MayWrite(s, c.id) THEN error(s, CONDITIONS_NOT_SATISFIED)
        ELSE IF ~generated /\ c.key = {} THEN error(s, WRONG_DATA)
        ELSE IF key.len \notin {16, 24, 32} THEN error(s, WRONG_DATA)
        ELSE Written(s, c, [type |-> "AESKey", key |-> key],
                     IF generated THEN INTERNAL ELSE EXTERNAL)

HMACKey(key, policy) == [type |-> "HMACKey", key |-> key, policy |-> policy]

handle_write_hmac_key(s, c) ==
    IF ~HeaderOk(c) \/ <<>> \in c.policy THEN error(s, WRONG_DATA)
    ELSE IF ~MayWrite(s, c.id) THEN error(s, CONDITIONS_NOT_SATISFIED)
    ELSE IF c.key = {} \/ \E k \in c.key : k.len = 0 THEN error(s, WRONG_DATA)
    ELSE Written(s, c, HMACKey(Get(c.key), UNION {ar_header_union(raw) : raw \in c.policy}), EXTERNAL)

(***************************************************************************)
(* Reading and deleting (object_mgmt.rs, dispatch.rs).                     *)
(***************************************************************************)
ReadFile(s, c) ==
    LET file == s.objects[c.id].data
        end == IF c.size = {} THEN Len(file) ELSE c.offset + Get(c.size)
    IN  IF c.offset >= Len(file) \/ end > Len(file) THEN error(s, CONDITIONS_NOT_SATISFIED)
        ELSE success_with(s, SubSeq(file, c.offset + 1, end))

handle_read_object(s, c) ==
    LET o == s.objects[c.id]
    IN  IF c.id = NoId THEN error(s, WRONG_DATA)
        ELSE IF ~policy_allows(s, c.id, "READ") THEN error(s, COMMAND_NOT_ALLOWED)
        ELSE IF ~exists(s, c.id) THEN error(s, CONDITIONS_NOT_SATISFIED)
        ELSE CASE o.type = "Binary" -> ReadFile(s, c)
               [] o.type \in {"ECKeyPair", "ECPublicKey"} -> success_with(s, <<o.public_key>>)
               [] o.type = "RSAKeyPair" -> success_with(s, <<o.der>>)
               [] o.type = "Counter" -> success_with(s, <<o.value % Byte^o.size>>)
               [] o.type \in {"AESKey", "HMACKey"} -> error(s, COMMAND_NOT_ALLOWED)

\* A read of one public component of an RSA key (a Tag 4 in the command).
ReadRsaComponent(s, c) ==
    IF c.id # NoId /\ ~policy_allows(s, c.id, "READ") THEN error(s, COMMAND_NOT_ALLOWED)
    ELSE IF ~Has(s, c.id, "RSAKeyPair") \/ s.objects[c.id].der = {}
    THEN error(s, CONDITIONS_NOT_SATISFIED)
    ELSE IF c.component \notin {0, 1} THEN error(s, WRONG_DATA)
    ELSE success_with(s, <<s.objects[c.id].der>>)

data_size(o) ==
    CASE o.type \in {"ECKeyPair", "ECPublicKey"} -> scalar_len(o.curve)
      [] o.type = "RSAKeyPair" -> o.bits \div 8
      [] o.type \in {"AESKey", "HMACKey"} -> o.key.len
      [] o.type = "Binary" -> Len(o.data)
      [] o.type = "Counter" -> o.size

\* ReadSize, ReadType and ReadIDList need no permission; neither do the attributes, which
\* only a version 7 applet answers, nor the curve of a key.
ReadInfo(s, c) ==
    IF c.cmd = "ReadAttributes" /\ ~is_v7 THEN error(s, CONDITIONS_NOT_SATISFIED)
    ELSE IF c.cmd = "ReadIdList" THEN success_with(s, <<DOMAIN s.objects>>)
    ELSE IF c.id = NoId
    THEN error(s, IF c.cmd = "ReadCurveId" THEN CONDITIONS_NOT_SATISFIED ELSE WRONG_DATA)
    ELSE IF ~exists(s, c.id) THEN error(s, CONDITIONS_NOT_SATISFIED)
    ELSE LET o == s.objects[c.id]
         IN CASE c.cmd = "ReadSize" -> success_with(s, <<data_size(o)>>)
              [] c.cmd = "ReadType" -> success_with(s, <<o.type>>)
              [] c.cmd = "ReadAttributes" ->
                    success_with(s, IF c.id \in DOMAIN s.metadata THEN <<s.metadata[c.id]>> ELSE <<>>)
              [] c.cmd = "ReadCurveId" ->
                    IF o.type \in {"ECKeyPair", "ECPublicKey"} THEN success_with(s, <<o.curve>>)
                    ELSE error(s, CONDITIONS_NOT_SATISFIED)

handle_check_exists(s, c) ==
    IF c.id = NoId THEN error(s, WRONG_DATA) ELSE success_with(s, <<exists(s, c.id)>>)

handle_delete_unchecked(s, c) ==
    IF ~exists(s, c.id) THEN error(s, CONDITIONS_NOT_SATISFIED) ELSE success(remove(s, c.id))

handle_delete(s, c) ==
    IF c.id = NoId THEN error(s, WRONG_DATA)
    ELSE IF ~policy_allows(s, c.id, "DELETE") \/ ~exists(s, c.id)
    THEN error(s, CONDITIONS_NOT_SATISFIED)
    ELSE success(remove(s, c.id))

(***************************************************************************)
(* Curve objects (curve.rs) and the management commands (management.rs).   *)
(***************************************************************************)
WEIERSTRASS_CURVE_COUNT == 17

CreateCurve_resets(s, c) ==
    IF c.curve \notin 1..WEIERSTRASS_CURVE_COUNT THEN error(s, WRONG_DATA)
    ELSE success([s EXCEPT !.ec_curves = Insert(@, c.curve, {})])

CreateCurve(s, c) ==
    IF c.curve \notin 1..WEIERSTRASS_CURVE_COUNT THEN error(s, WRONG_DATA)
    ELSE IF c.curve \in DOMAIN s.ec_curves /\ is_v7 THEN error(s, CONDITIONS_NOT_SATISFIED)
    ELSE success([s EXCEPT !.ec_curves = Insert(@, c.curve, {})])

SetCurveParam(s, c) ==
    IF c.param \notin CURVE_PARAMS_COMPLETE THEN error(s, WRONG_DATA)
    ELSE IF c.curve \notin DOMAIN s.ec_curves THEN error(s, CONDITIONS_NOT_SATISFIED)
    ELSE success([s EXCEPT !.ec_curves[c.curve] = @ \cup {c.param}])

DeleteCurve(s, c) ==
    IF c.curve \notin DOMAIN s.ec_curves THEN error(s, CONDITIONS_NOT_SATISFIED)
    ELSE success([s EXCEPT !.ec_curves = Remove(@, c.curve)])

ListCurves(s, c) == success_with(s, <<DOMAIN s.ec_curves \cap 1..WEIERSTRASS_CURVE_COUNT>>)

GetRandom(s, c) ==
    IF c.size = {} THEN error(s, WRONG_DATA)
    ELSE IF Get(c.size) \notin 1..get_random_max THEN error(s, CONDITIONS_NOT_SATISFIED)
    ELSE success_with(s, <<c.rnd>>)

GetFreeMemory(s, c) ==
    IF c.component \in 1..3 THEN success_with(s, <<c.component>>) ELSE error(s, WRONG_DATA)

handle_delete_all(s, c) == success(clear(s))

\* SetPlatformSCPRequest: only over an authenticated channel.
handle_set_platform_scp(s, c, scp_active) ==
    IF ~scp_active THEN error(s, CONDITIONS_NOT_SATISFIED)
    ELSE IF c.component \notin {1, 2} THEN error(s, WRONG_DATA)
    ELSE success([s EXCEPT !.scp_required = (c.component = 1)])

=============================================================================
