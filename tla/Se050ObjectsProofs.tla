------------------------- MODULE Se050ObjectsProofs -------------------------
(***************************************************************************)
(* Proofs about the object store of the SE050 and about its multi-step     *)
(* ciphers, for every set of commands, every applet generation and every   *)
(* size of a byte and a block.                                             *)
(***************************************************************************)
EXTENDS Se050Streams, SequenceTheorems, TLAPS, WellFoundedInduction

Fields == {"objects", "metadata", "ec_curves", "crypto_objects", "crypto_object_types",
           "scp_required", "platform_scp"}

IsStore(s) == s = [f \in Fields |-> s[f]]

\* A well-formed store in which no metadata outlives its object.
Good(s) == IsStore(s) /\ StoreType(s) /\ DOMAIN s.metadata \subseteq DOMAIN s.objects

\* The metadata of the objects that stay is the same.
KeepsMetadata(s, t) ==
    \A id \in DOMAIN s.objects \cap DOMAIN t.objects :
      /\ id \in DOMAIN s.metadata <=> id \in DOMAIN t.metadata
      /\ id \in DOMAIN s.metadata => s.metadata[id] = t.metadata[id]

\* What a command does to a good store: a creation removes no object, so that the store
\* between its two saves is good as well.
StepOk(s, t) ==
    /\ Good(t)
    /\ KeepsMetadata(s, t)
    /\ Creates(s, t) => DOMAIN s.objects \subseteq DOMAIN t.objects

\* Nothing that the file holds was changed.
Volatile(s, t) == IsStore(t) /\ Document(t) = Document(s)

-----------------------------------------------------------------------------
(***************************************************************************)
(* The handlers that leave the store alone.                                *)
(***************************************************************************)

\* Signing, verifying and the one-shot operations (ec.rs, rsa.rs, aes.rs, digest.rs, mac.rs)
\* return the store that they were given.
LEMMA OneShotsKeepStore ==
    ASSUME NEW s, NEW c
    PROVE  /\ handle_sign(s, c).store = s
           /\ handle_verify(s, c).store = s
           /\ RsaCipher(s, c).store = s
           /\ handle_cipher_oneshot(s, c).store = s
           /\ handle_digest_oneshot(s, c).store = s
           /\ handle_mac_oneshot(s, c).store = s
<1> USE DEF error, success_with, Reply
<1>1. handle_sign(s, c).store = s
  BY DEF handle_sign, handle_rsa_sign
<1>2. handle_verify(s, c).store = s
  BY DEF handle_verify, handle_rsa_verify
<1>3. RsaCipher(s, c).store = s
  BY DEF RsaCipher
<1>4. handle_cipher_oneshot(s, c).store = s
  BY DEF handle_cipher_oneshot
<1>5. handle_digest_oneshot(s, c).store = s
  BY DEF handle_digest_oneshot
<1>6. handle_mac_oneshot(s, c).store = s
  BY DEF handle_mac_oneshot, MacAnswer
<1> QED BY <1>1, <1>2, <1>3, <1>4, <1>5, <1>6

\* Reading objects, their attributes and the lists (object_mgmt.rs, curve.rs, management.rs)
\* returns the store that it was given.
LEMMA ReadsKeepStore ==
    ASSUME NEW s, StoreType(s), NEW c
    PROVE  /\ handle_write_userid(s, c).store = s
           /\ handle_read_object(s, c).store = s
           /\ ReadRsaComponent(s, c).store = s
           /\ c.cmd \in {"ReadSize", "ReadType", "ReadIdList", "ReadAttributes", "ReadCurveId"} =>
                 ReadInfo(s, c).store = s
           /\ ListCryptoObjects(s, c).store = s
           /\ ListCurves(s, c).store = s
           /\ GetRandom(s, c).store = s
           /\ GetFreeMemory(s, c).store = s
           /\ handle_check_exists(s, c).store = s
<1> USE DEF error, success_with, Reply
<1>1. handle_read_object(s, c).store = s
  BY DEF handle_read_object, ReadFile, StoreType, ObjectTypes, exists
<1>2. ReadRsaComponent(s, c).store = s
  BY DEF ReadRsaComponent
<1>3. ASSUME c.cmd \in {"ReadSize", "ReadType", "ReadIdList", "ReadAttributes", "ReadCurveId"}
      PROVE  ReadInfo(s, c).store = s
  BY <1>3 DEF ReadInfo
<1>4. /\ handle_write_userid(s, c).store = s
      /\ ListCryptoObjects(s, c).store = s
      /\ ListCurves(s, c).store = s
      /\ GetRandom(s, c).store = s
      /\ GetFreeMemory(s, c).store = s
      /\ handle_check_exists(s, c).store = s
  BY DEF handle_write_userid, ListCryptoObjects, ListCurves, GetRandom, GetFreeMemory,
         handle_check_exists
<1> QED BY <1>1, <1>2, <1>3, <1>4

-----------------------------------------------------------------------------
(***************************************************************************)
(* The handlers that only touch the running crypto objects.                *)
(***************************************************************************)
\* The two maps of crypto objects are not in the file.
LEMMA CryptoFieldsAreVolatile ==
    ASSUME NEW s, IsStore(s)
    PROVE  /\ Volatile(s, s)
           /\ \A v : Volatile(s, [s EXCEPT !.crypto_objects = v])
           /\ \A v : Volatile(s, [s EXCEPT !.crypto_object_types = v])
           /\ \A v, w : Volatile(s, [s EXCEPT !.crypto_object_types = v, !.crypto_objects = w])
BY DEF IsStore, Fields, Volatile, Document

\* The Init, Update and Final commands and the crypto objects themselves (digest.rs, aes.rs,
\* mac.rs, crypto_obj.rs) change nothing that is saved, whether they succeed or fail.
LEMMA ContextsAreVolatile ==
    ASSUME NEW s, IsStore(s), NEW c
    PROVE  /\ Volatile(s, CreateCryptoObject(s, c).store)
           /\ Volatile(s, DeleteCryptoObject(s, c).store)
           /\ Volatile(s, handle_digest_init(s, c).store)
           /\ Volatile(s, handle_digest_update(s, c).store)
           /\ Volatile(s, handle_digest_final(s, c).store)
           /\ Volatile(s, handle_cipher_init(s, c).store)
           /\ Volatile(s, handle_cipher_update(s, c).store)
           /\ Volatile(s, handle_cipher_final(s, c).store)
           /\ Volatile(s, handle_mac_init(s, c).store)
           /\ Volatile(s, handle_mac_update(s, c).store)
           /\ Volatile(s, handle_mac_final(s, c).store)
<1>0. /\ Volatile(s, s)
      /\ \A v : Volatile(s, [s EXCEPT !.crypto_objects = v])
      /\ \A v : Volatile(s, [s EXCEPT !.crypto_object_types = v])
      /\ \A v, w : Volatile(s, [s EXCEPT !.crypto_object_types = v, !.crypto_objects = w])
  BY CryptoFieldsAreVolatile
<1> USE DEF error, success, success_with, Reply
<1>1. \A x, ctx : Volatile(s, Start(s, x, ctx).store) /\ Volatile(s, Take(s, x))
  BY <1>0 DEF Start, Take
<1>2. Volatile(s, CreateCryptoObject(s, c).store)
  BY <1>0 DEF CreateCryptoObject
<1>3. Volatile(s, DeleteCryptoObject(s, c).store)
  BY <1>0 DEF DeleteCryptoObject
<1>4. Volatile(s, handle_digest_init(s, c).store)
  BY <1>0, <1>1 DEF handle_digest_init
<1>5. Volatile(s, handle_digest_update(s, c).store)
  BY <1>0 DEF handle_digest_update
<1>6. Volatile(s, handle_digest_final(s, c).store)
  BY <1>0, <1>1 DEF handle_digest_final
<1>7. Volatile(s, handle_cipher_init(s, c).store)
  BY <1>0, <1>1 DEF handle_cipher_init
<1>8. Volatile(s, handle_cipher_update(s, c).store)
  BY <1>0 DEF handle_cipher_update
<1>9. Volatile(s, handle_cipher_final(s, c).store)
  BY <1>0, <1>1 DEF handle_cipher_final
<1>10. Volatile(s, handle_mac_init(s, c).store)
  BY <1>0, <1>1 DEF handle_mac_init
<1>11. Volatile(s, handle_mac_update(s, c).store)
  BY <1>0 DEF handle_mac_update
<1>12. Volatile(s, handle_mac_final(s, c).store)
  BY <1>0, <1>1 DEF handle_mac_final, MacAnswer
<1> QED
  BY <1>2, <1>3, <1>4, <1>5, <1>6, <1>7, <1>8, <1>9, <1>10, <1>11, <1>12

\* A step that changes only volatile fields is a good step.
LEMMA VolatileIsOk ==
    ASSUME NEW s, Good(s), NEW t, Volatile(s, t)
    PROVE  StepOk(s, t) /\ t.scp_required = s.scp_required
<1>1. \A u : IsStore(u) =>
         /\ Document(u).objects = u.objects
         /\ Document(u).metadata = u.metadata
         /\ Document(u).ec_curves = u.ec_curves
         /\ Document(u).scp_required = u.scp_required
         /\ Document(u).platform_scp = u.platform_scp
  BY DEF IsStore, Fields, Document
<1>2. /\ t.objects = s.objects /\ t.metadata = s.metadata /\ t.ec_curves = s.ec_curves
      /\ t.scp_required = s.scp_required /\ t.platform_scp = s.platform_scp
  BY <1>1 DEF Volatile, Good
<1> QED
  BY <1>2 DEF StepOk, Good, StoreType, Volatile, KeepsMetadata, Creates

-----------------------------------------------------------------------------
(***************************************************************************)
(* The handlers that write objects.                                        *)
(***************************************************************************)
\* The answer of a command that may change what is saved: a failing one changes nothing.
ReplyOk(s, r) ==
    /\ StepOk(s, r.store)
    /\ r.store.scp_required = s.scp_required
    /\ r.sw # NO_ERROR => r.store = s

\* A refused command leaves a good store.
LEMMA RefusalIsOk ==
    ASSUME NEW s, Good(s)
    PROVE  \A sw : ReplyOk(s, error(s, sw))
<1>1. StepOk(s, s)
  BY DEF Good, StepOk, KeepsMetadata, Creates
<1> QED
  BY <1>1 DEF ReplyOk, error, Reply

\* insert of object_store/mod.rs: putting an object of a known type keeps the store good.
LEMMA InsertIsOk ==
    ASSUME NEW s, Good(s), NEW id, id # NoId, NEW o, o.type \in ObjectTypes
    PROVE  ReplyOk(s, success(insert(s, id, o)))
<1> DEFINE t == insert(s, id, o)
<1>1. /\ IsStore(t) /\ t.objects = Insert(s.objects, id, o) /\ t.metadata = s.metadata
      /\ t.ec_curves = s.ec_curves /\ t.scp_required = s.scp_required
      /\ t.platform_scp = s.platform_scp
  BY DEF insert, Good, IsStore, Fields
<1>2. /\ DOMAIN t.objects = DOMAIN s.objects \cup {id}
      /\ t.objects[id] = o
      /\ \A x \in DOMAIN s.objects : x # id => t.objects[x] = s.objects[x]
  BY <1>1 DEF Insert
<1>3. StoreType(t)
  BY <1>1, <1>2 DEF Good, StoreType
<1>4. StepOk(s, t)
  BY <1>1, <1>2, <1>3 DEF StepOk, Good, KeepsMetadata, Creates
<1> QED
  BY <1>1, <1>4 DEF ReplyOk, success, Reply

\* The shared end of the write handlers: insert, and metadata if the object is new.
LEMMA WrittenIsOk ==
    ASSUME NEW s, Good(s), NEW c, c.id # NoId
    PROVE  \A o, origin : o.type \in ObjectTypes /\ origin \in {EXTERNAL, INTERNAL} =>
             ReplyOk(s, Written(s, c, o, origin))
<1> SUFFICES ASSUME NEW o, NEW origin, o.type \in ObjectTypes, origin \in {EXTERNAL, INTERNAL}
             PROVE  ReplyOk(s, Written(s, c, o, origin))
  OBVIOUS
<1> DEFINE t == insert(s, c.id, o)
           m == [policy |-> creation_policy(c.policy), origin |-> origin]
           u == [t EXCEPT !.metadata = Insert(@, c.id, m)]
<1>1. CASE exists(s, c.id)
  <2>1. Written(s, c, o, origin) = success(t)
    BY <1>1 DEF Written
  <2> QED
    BY <2>1, InsertIsOk
<1>2. CASE ~exists(s, c.id)
  <2>1. /\ IsStore(t) /\ t.objects = Insert(s.objects, c.id, o) /\ t.metadata = s.metadata
        /\ t.ec_curves = s.ec_curves /\ t.scp_required = s.scp_required
        /\ t.platform_scp = s.platform_scp
    BY DEF insert, Good, IsStore, Fields
  <2>2. c.id \notin DOMAIN s.metadata /\ Written(s, c, o, origin) = success(u)
    BY <1>2, <2>1 DEF Written, set_creation_metadata, Good, exists
  <2>3. /\ IsStore(u) /\ u.objects = t.objects /\ u.metadata = Insert(s.metadata, c.id, m)
        /\ u.ec_curves = s.ec_curves /\ u.scp_required = s.scp_required
        /\ u.platform_scp = s.platform_scp
    <3> HIDE DEF t, m
    <3> QED BY <2>1 DEF IsStore, Fields
  <2>4. /\ DOMAIN u.objects = DOMAIN s.objects \cup {c.id}
        /\ u.objects[c.id] = o
        /\ \A x \in DOMAIN s.objects : u.objects[x] = s.objects[x]
        /\ DOMAIN u.metadata = DOMAIN s.metadata \cup {c.id}
        /\ u.metadata[c.id] = m
        /\ \A x \in DOMAIN s.metadata : u.metadata[x] = s.metadata[x]
    <3> HIDE DEF t, m, u
    <3> QED BY <1>2, <2>1, <2>2, <2>3 DEF Insert, exists
  <2>5. m.origin \in {EXTERNAL, INTERNAL}
    OBVIOUS
  <2>6. StoreType(u)
    <3> HIDE DEF t, m, u
    <3> QED BY <2>3, <2>4, <2>5 DEF Good, StoreType
  <2>7. StepOk(s, u)
    <3> HIDE DEF t, m, u
    <3> QED BY <1>2, <2>3, <2>4, <2>6 DEF StepOk, Good, KeepsMetadata, Creates, exists
  <2> QED
    <3> HIDE DEF t, m, u
    <3> QED BY <2>2, <2>3, <2>7 DEF ReplyOk, success, Reply
<1> QED
  BY <1>1, <1>2

\* Whatever file, counter, elliptic-curve, RSA, AES or HMAC object is written, created or
\* replaced (object_mgmt.rs, ec.rs, rsa.rs, aes.rs), the store stays good.
LEMMA WritesAreOk ==
    ASSUME NEW s, Good(s), NEW c
    PROVE  /\ ReplyOk(s, handle_write_binary(s, c))
           /\ ReplyOk(s, handle_write_counter(s, c))
           /\ ReplyOk(s, handle_write_ec_key(s, c))
           /\ ReplyOk(s, handle_write_rsa_key(s, c))
           /\ ReplyOk(s, handle_write_aes_key(s, c))
           /\ ReplyOk(s, handle_write_hmac_key(s, c))
<1>1. \A sw : ReplyOk(s, error(s, sw))
  BY RefusalIsOk
<1>2. CASE ~HeaderOk(c)
  BY <1>1, <1>2 DEF handle_write_binary, handle_write_counter, handle_write_ec_key,
                    handle_write_rsa_key, handle_write_aes_key, handle_write_hmac_key
<1>3. CASE HeaderOk(c)
  <2>1. c.id # NoId
    BY <1>3 DEF HeaderOk
  <2>2. \A o, origin : o.type \in ObjectTypes /\ origin \in {EXTERNAL, INTERNAL} =>
          ReplyOk(s, Written(s, c, o, origin))
    BY <2>1, WrittenIsOk
  <2>3. ReplyOk(s, handle_write_binary(s, c))
    <3> DEFINE file == IF exists(s, c.id) THEN s.objects[c.id].data
                       ELSE [i \in 1 .. (IF exists(s, c.id) THEN Len(s.objects[c.id].data)
                                         ELSE IF c.size = {} THEN Len(c.data) ELSE Get(c.size)) |-> 0]
               o == [type |-> "Binary", data |-> Overwrite(file, c.offset, c.data)]
    <3>1. ReplyOk(s, Written(s, c, o, EXTERNAL))
      BY <2>2 DEF ObjectTypes
    <3> QED
      BY <1>1, <3>1 DEF handle_write_binary
  <2>4. ReplyOk(s, handle_write_counter(s, c))
    <3>1. \A value, size : Counter(value, size).type \in ObjectTypes
      BY DEF Counter, ObjectTypes
    <3>2. \A value, size : ReplyOk(s, success(insert(s, c.id, Counter(value, size))))
      BY <2>1, <3>1, InsertIsOk
    <3>3. \A value, size : ReplyOk(s, Written(s, c, Counter(value, size), EXTERNAL))
      BY <2>2, <3>1
    <3> QED
      BY <1>1, <3>2, <3>3 DEF handle_write_counter
  <2>5. ReplyOk(s, handle_write_ec_key(s, c))
    <3>1. /\ \A key : ECKeyPair(c.curve, key).type \in ObjectTypes
          /\ [type |-> "ECPublicKey", curve |-> c.curve, public_key |-> c.peer].type \in ObjectTypes
      BY DEF ECKeyPair, ObjectTypes
    <3>2. /\ \A key, origin : origin \in {EXTERNAL, INTERNAL} =>
                ReplyOk(s, Written(s, c, ECKeyPair(c.curve, key), origin))
          /\ ReplyOk(s, Written(s, c, [type |-> "ECPublicKey", curve |-> c.curve,
                                       public_key |-> c.peer], EXTERNAL))
      BY <2>2, <3>1
    <3> QED
      BY <1>1, <3>2 DEF handle_write_ec_key
  <2>6. ReplyOk(s, handle_write_rsa_key(s, c))
    <3>1. \A bits, der, staged : RSAKeyPair(bits, der, staged).type \in ObjectTypes
      BY DEF RSAKeyPair, ObjectTypes
    <3>2. \A bits, der, staged : ReplyOk(s, Written(s, c, RSAKeyPair(bits, der, staged), INTERNAL))
      BY <2>2, <3>1
    <3>3. \A bits, staged : ReplyOk(s, Written(s, c, Merged(bits, staged), EXTERNAL))
      BY <2>2, <3>1 DEF Merged
    <3>4. ReplyOk(s, GenerateRsa(s, c))
      BY <1>1, <3>2 DEF GenerateRsa
    <3>5. ReplyOk(s, ImportRsa(s, c))
      BY <1>1, <3>3 DEF ImportRsa
    <3> QED
      BY <1>1, <3>4, <3>5 DEF handle_write_rsa_key
  <2>7. ReplyOk(s, handle_write_aes_key(s, c))
    <3>1. \A key, origin : origin \in {EXTERNAL, INTERNAL} =>
            ReplyOk(s, Written(s, c, [type |-> "AESKey", key |-> key], origin))
      BY <2>2 DEF ObjectTypes
    <3> QED
      BY <1>1, <3>1 DEF handle_write_aes_key
  <2>8. ReplyOk(s, handle_write_hmac_key(s, c))
    <3>1. \A key, policy : ReplyOk(s, Written(s, c, HMACKey(key, policy), EXTERNAL))
      BY <2>2 DEF ObjectTypes, HMACKey
    <3> QED
      BY <1>1, <3>1 DEF handle_write_hmac_key
  <2> QED
    BY <2>3, <2>4, <2>5, <2>6, <2>7, <2>8
<1> QED
  BY <1>2, <1>3

\* So does a derivation into an object (ec.rs).
LEMMA EcdhIsOk ==
    ASSUME NEW s, Good(s), NEW c
    PROVE  /\ ReplyOk(s, handle_ecdh(s, c))
           /\ c.target = NoId => handle_ecdh(s, c).store = s
<1>1. \A sw : ReplyOk(s, error(s, sw)) /\ error(s, sw).store = s
  BY RefusalIsOk DEF error, Reply
<1>2. \A out : ReplyOk(s, success_with(s, out)) /\ success_with(s, out).store = s
  BY <1>1 DEF ReplyOk, error, success_with, Reply
<1>3. CASE c.target = NoId
  BY <1>1, <1>2, <1>3 DEF handle_ecdh
<1>4. CASE c.target # NoId
  <2>1. \A key, policy, data :
          /\ ReplyOk(s, success(insert(s, c.target, HMACKey(key, policy))))
          /\ ReplyOk(s, success(insert(s, c.target, [type |-> "Binary", data |-> data])))
    BY <1>4, InsertIsOk DEF HMACKey, ObjectTypes
  <2> QED
    BY <1>1, <1>2, <1>4, <2>1 DEF handle_ecdh
<1> QED
  BY <1>3, <1>4

-----------------------------------------------------------------------------
(***************************************************************************)
(* Deleting, curves and management.                                        *)
(***************************************************************************)
\* DeleteSecureObject takes the metadata along with the object (object_mgmt.rs).
LEMMA DeleteIsOk ==
    ASSUME NEW s, Good(s), NEW c
    PROVE  ReplyOk(s, handle_delete(s, c))
<1>1. \A sw : ReplyOk(s, error(s, sw))
  BY RefusalIsOk
<1>2. CASE exists(s, c.id)
  <2> DEFINE t == [s EXCEPT !.objects = Remove(@, c.id), !.metadata = Remove(@, c.id)]
  <2>1. /\ IsStore(t) /\ t.objects = Remove(s.objects, c.id)
        /\ t.metadata = Remove(s.metadata, c.id) /\ t.ec_curves = s.ec_curves
        /\ t.scp_required = s.scp_required /\ t.platform_scp = s.platform_scp
    BY DEF Good, IsStore, Fields
  <2>2. remove(s, c.id) = t
    BY <1>2 DEF remove
  <2> HIDE DEF t
  <2>3. StepOk(s, t)
    BY <2>1 DEF Remove, StepOk, Good, StoreType, KeepsMetadata, Creates
  <2>4. ReplyOk(s, success(t))
    BY <2>1, <2>3 DEF ReplyOk, success, Reply
  <2> QED
    BY <1>1, <2>2, <2>4 DEF handle_delete
<1>3. CASE ~exists(s, c.id)
  BY <1>1, <1>3 DEF handle_delete
<1> QED
  BY <1>2, <1>3

\* The curve commands change the parameters of curves and nothing else (curve.rs).
LEMMA CurvesAreOk ==
    ASSUME NEW s, Good(s), NEW c
    PROVE  /\ ReplyOk(s, CreateCurve(s, c))
           /\ ReplyOk(s, SetCurveParam(s, c))
           /\ ReplyOk(s, DeleteCurve(s, c))
<1> DEFINE CurvesOk(curves) ==
      \A curve \in DOMAIN curves :
        curve \in 1..WEIERSTRASS_CURVE_COUNT /\ curves[curve] \subseteq CURVE_PARAMS_COMPLETE
<1>1. \A sw : ReplyOk(s, error(s, sw))
  BY RefusalIsOk
<1>2. ASSUME NEW curves, CurvesOk(curves)
      PROVE  ReplyOk(s, success([s EXCEPT !.ec_curves = curves]))
  <2> DEFINE t == [s EXCEPT !.ec_curves = curves]
  <2>1. /\ IsStore(t) /\ t.objects = s.objects /\ t.metadata = s.metadata
        /\ t.ec_curves = curves /\ t.scp_required = s.scp_required
        /\ t.platform_scp = s.platform_scp
    BY DEF Good, IsStore, Fields
  <2> HIDE DEF t
  <2>2. StepOk(s, t)
    BY <1>2, <2>1 DEF StepOk, Good, StoreType, KeepsMetadata, Creates
  <2>3. ReplyOk(s, success(t))
    BY <2>1, <2>2 DEF ReplyOk, success, Reply
  <2> QED
    BY <2>3 DEF t
<1>3. CurvesOk(s.ec_curves)
  BY DEF Good, StoreType
<1>4. ReplyOk(s, CreateCurve(s, c))
  <2>1. CASE c.curve \in 1..WEIERSTRASS_CURVE_COUNT
    <3>1. CurvesOk(Insert(s.ec_curves, c.curve, {}))
      BY <1>3, <2>1 DEF Insert
    <3>2. ReplyOk(s, success([s EXCEPT !.ec_curves = Insert(@, c.curve, {})]))
      BY <1>2, <3>1
    <3> QED
      BY <1>1, <3>2 DEF CreateCurve
  <2> QED
    BY <1>1, <2>1 DEF CreateCurve
<1>5. ReplyOk(s, SetCurveParam(s, c))
  <2>1. CASE c.param \in CURVE_PARAMS_COMPLETE /\ c.curve \in DOMAIN s.ec_curves
    <3> DEFINE curves == [s.ec_curves EXCEPT ![c.curve] = @ \cup {c.param}]
    <3>1. CurvesOk(curves)
      BY <1>3, <2>1
    <3>2. ReplyOk(s, success([s EXCEPT !.ec_curves = curves]))
      <4> HIDE DEF curves
      <4> QED BY <1>2, <3>1
    <3>3. [s EXCEPT !.ec_curves = curves] = [s EXCEPT !.ec_curves[c.curve] = @ \cup {c.param}]
      OBVIOUS
    <3> QED
      BY <2>1, <3>2, <3>3 DEF SetCurveParam
  <2> QED
    BY <1>1, <2>1 DEF SetCurveParam
<1>6. ReplyOk(s, DeleteCurve(s, c))
  <2>1. CurvesOk(Remove(s.ec_curves, c.curve))
    BY <1>3 DEF Remove
  <2>2. ReplyOk(s, success([s EXCEPT !.ec_curves = Remove(@, c.curve)]))
    BY <1>2, <2>1
  <2> QED
    BY <1>1, <2>2 DEF DeleteCurve
<1> QED
  BY <1>4, <1>5, <1>6

\* The factory reset removes every object together with its metadata and keeps the SCP
\* requirement (management.rs, object_store/mod.rs).
LEMMA DeleteAllIsOk ==
    ASSUME NEW s, Good(s), NEW c
    PROVE  ReplyOk(s, handle_delete_all(s, c))
<1> DEFINE t == clear(s)
<1>1. /\ IsStore(t) /\ t.objects = Empty /\ t.metadata = Empty /\ t.ec_curves = default_curves
      /\ t.scp_required = s.scp_required /\ t.platform_scp = s.platform_scp
  BY DEF clear, Good, IsStore, Fields
<1>2. StepOk(s, t)
  <2> HIDE DEF t
  <2> QED BY <1>1 DEF StepOk, Good, StoreType, KeepsMetadata, Creates, Empty, default_curves,
                      WEIERSTRASS_CURVE_COUNT
<1> QED
  BY <1>1, <1>2 DEF handle_delete_all, ReplyOk, success, Reply

\* SetPlatformSCPRequest changes the requirement only over an authenticated channel.
LEMMA SetPlatformScpIsOk ==
    ASSUME NEW s, Good(s), NEW c, NEW active \in BOOLEAN
    PROVE  LET r == handle_set_platform_scp(s, c, active)
           IN  /\ StepOk(s, r.store)
               /\ r.sw # NO_ERROR => r.store = s
               /\ ~active => r.store = s
<1>1. \A sw : ReplyOk(s, error(s, sw)) /\ error(s, sw).store = s
  BY RefusalIsOk DEF error, Reply
<1> DEFINE t == [s EXCEPT !.scp_required = (c.component = 1)]
<1>2. /\ IsStore(t) /\ t.objects = s.objects /\ t.metadata = s.metadata
      /\ t.ec_curves = s.ec_curves /\ t.platform_scp = s.platform_scp
      /\ t.scp_required = (c.component = 1)
  BY DEF Good, IsStore, Fields
<1>3. t.scp_required \in BOOLEAN
  BY <1>2
<1>4. StepOk(s, t)
  <2> HIDE DEF t
  <2> QED BY <1>2, <1>3 DEF StepOk, Good, StoreType, KeepsMetadata, Creates
<1> QED
  BY <1>1, <1>4 DEF handle_set_platform_scp, success, ReplyOk, Reply

-----------------------------------------------------------------------------
(***************************************************************************)
(* The dispatcher.                                                         *)
(***************************************************************************)
\* What every command does to a good store.
CommandOk(s, c, active, r) ==
    /\ StepOk(s, r.store)
    /\ r.sw # NO_ERROR \/ ~Saves(c) => Volatile(s, r.store)
    /\ c.cmd # "SetPlatformSCP" \/ ~active => r.store.scp_required = s.scp_required

ReadNames == {"ReadSize", "ReadType", "ReadIdList", "ReadAttributes", "ReadCurveId"}
WriteNames == {"WriteBinary", "WriteCounter", "WriteEC", "WriteRSA", "WriteAES", "WriteHMAC"}
CurveNames == {"CreateCurve", "SetCurveParam", "DeleteCurve"}
ContextNames == {"CreateCryptoObject", "DeleteCryptoObject", "DigestInit", "DigestUpdate",
                 "DigestFinal", "CipherInit", "CipherUpdate", "CipherFinal", "MacInit",
                 "MacUpdate", "MacFinal"}

\* dispatch.rs: whatever the command, its effect on a good store is a good step, it is saved
\* or volatile, and only SetPlatformSCPRequest changes the SCP requirement.
LEMMA DispatchOk ==
    ASSUME NEW s, Good(s), NEW c, NEW active \in BOOLEAN
    PROVE  CommandOk(s, c, active, dispatch(s, c, active))
<1> DEFINE r == dispatch(s, c, active)
<1>1. IsStore(s) /\ StoreType(s)
  BY DEF Good
<1>2. Volatile(s, s)
  BY <1>1, CryptoFieldsAreVolatile
<1>3. ASSUME Volatile(s, r.store) PROVE CommandOk(s, c, active, r)
  <2> HIDE DEF r
  <2> QED BY <1>3, VolatileIsOk DEF CommandOk
<1>4. ASSUME ReplyOk(s, r), Saves(c) PROVE CommandOk(s, c, active, r)
  <2> HIDE DEF r
  <2> QED BY <1>2, <1>4 DEF ReplyOk, CommandOk
<1>5. CASE c.cmd \in WriteNames
  <2>1. ReplyOk(s, r)
    BY <1>5, WritesAreOk DEF dispatch, WriteNames
  <2>2. Saves(c)
    BY <1>5 DEF Saves, WriteNames
  <2> QED
    BY <1>4, <2>1, <2>2
<1>6. CASE c.cmd \in CurveNames
  <2>1. ReplyOk(s, r)
    BY <1>6, CurvesAreOk DEF dispatch, CurveNames
  <2>2. Saves(c)
    BY <1>6 DEF Saves, CurveNames
  <2> QED
    BY <1>4, <2>1, <2>2
<1>7. CASE c.cmd \in {"DeleteAll", "DeleteObject"}
  <2>1. ReplyOk(s, r)
    BY <1>7, DeleteIsOk, DeleteAllIsOk DEF dispatch
  <2>2. Saves(c)
    BY <1>7 DEF Saves
  <2> QED
    BY <1>4, <2>1, <2>2
<1>8. CASE c.cmd = "ECDH"
  <2>1. ReplyOk(s, r) /\ (c.target = NoId => r.store = s)
    BY <1>8, EcdhIsOk DEF dispatch
  <2>2. c.target # NoId => Saves(c)
    BY <1>8 DEF Saves
  <2> QED
    BY <1>2, <1>3, <1>4, <2>1, <2>2
<1>9. CASE c.cmd = "SetPlatformSCP"
  <2>1. r = handle_set_platform_scp(s, c, active)
    BY <1>9 DEF dispatch
  <2>2. Saves(c)
    BY <1>9 DEF Saves
  <2>3. CommandOk(s, c, active, handle_set_platform_scp(s, c, active))
    BY <1>2, <1>9, <2>2, SetPlatformScpIsOk DEF CommandOk
  <2> QED
    BY <2>1, <2>3
<1>10. CASE c.cmd \in ContextNames
  <2>1. Volatile(s, r.store)
    BY <1>1, <1>10, ContextsAreVolatile DEF dispatch, ContextNames
  <2> QED
    BY <1>3, <2>1
<1>11. CASE c.cmd \in {"Sign", "Verify", "RsaEncrypt", "RsaDecrypt", "CipherOneShot",
                       "DigestOneShot", "MacOneShot"}
  <2>1. r.store = s
    BY <1>11, OneShotsKeepStore DEF dispatch
  <2> QED
    BY <1>2, <1>3, <2>1
<1>12. CASE c.cmd \in ReadNames \cup {"WriteUserID", "ReadObject", "ReadRsaComponent",
                         "ListCryptoObjects", "ListCurves", "GetRandom", "GetFreeMemory",
                         "CheckExists"}
  <2>1. r.store = s
    BY <1>1, <1>12, ReadsKeepStore DEF dispatch, ReadNames
  <2> QED
    BY <1>2, <1>3, <2>1
<1>13. CASE c.cmd \notin WriteNames \cup CurveNames \cup ContextNames \cup ReadNames
              \cup {"DeleteAll", "DeleteObject", "ECDH", "SetPlatformSCP", "Sign", "Verify",
                    "RsaEncrypt", "RsaDecrypt", "CipherOneShot", "DigestOneShot", "MacOneShot",
                    "WriteUserID", "ReadObject", "ReadRsaComponent", "ListCryptoObjects",
                    "ListCurves", "GetRandom", "GetFreeMemory", "CheckExists"}
  <2>1. r.store = s
    BY <1>13 DEF dispatch, error, success_with, Reply, WriteNames, CurveNames, ContextNames,
                 ReadNames
  <2> QED
    BY <1>2, <1>3, <2>1
<1> QED
  BY <1>5, <1>6, <1>7, <1>8, <1>9, <1>10, <1>11, <1>12, <1>13

-----------------------------------------------------------------------------
(***************************************************************************)
(* The specification.                                                      *)
(***************************************************************************)
\* The inductive invariant: the store in memory is good, and so is the one in the file, from
\* which a restart or a crash takes the next one.
IInv ==
    /\ Good(store)
    /\ \A d \in disk : Good(d) /\ d = Document(d)
    /\ alive \in BOOLEAN

\* ObjectStore::new gives a good store, which is its own document.
LEMMA NewStoreIsGood == Good(NewStore) /\ Document(NewStore) = NewStore
<1>1. /\ IsStore(NewStore)
      /\ NewStore.crypto_objects = Empty /\ NewStore.crypto_object_types = Empty
  BY DEF IsStore, Fields, NewStore
<1>3. Document(NewStore) = NewStore
  BY <1>1 DEF IsStore, Fields, Document
<1>2. StoreType(NewStore) /\ DOMAIN NewStore.metadata \subseteq DOMAIN NewStore.objects
  BY DEF NewStore, StoreType, Empty, default_curves, WEIERSTRASS_CURVE_COUNT
<1> QED
  BY <1>1, <1>2, <1>3 DEF Good

\* The document of a good store, as it is written to the file, is good.
LEMMA DocumentIsGood ==
    ASSUME NEW s, Good(s)
    PROVE  Good(Document(s)) /\ Document(Document(s)) = Document(s)
<1>1. Volatile(s, Document(s)) /\ Document(Document(s)) = Document(s)
  BY DEF Good, Volatile, IsStore, Fields, Document
<1> QED
  BY <1>1, VolatileIsOk DEF StepOk

\* What a save leaves in the file.
LEMMA PersistIsOk ==
    ASSUME NEW s, Good(s), NEW d, NEW e \in persist(d, s),
           \A x \in d : Good(x) /\ x = Document(x)
    PROVE  \A x \in e : Good(x) /\ x = Document(x)
<1>1. e = d \/ e = {} \/ e = {Document(s)}
  BY DEF persist
<1> QED
  BY <1>1, DocumentIsGood

\* The store between the two saves of a creation.
LEMMA InsertedIsGood ==
    ASSUME NEW s, Good(s), NEW t, StepOk(s, t), Creates(s, t)
    PROVE  Good(Inserted(s, t))
<1> DEFINE u == Inserted(s, t)
<1>1. /\ IsStore(u) /\ u.objects = t.objects /\ u.metadata = s.metadata
      /\ u.ec_curves = t.ec_curves /\ u.scp_required = t.scp_required
      /\ u.platform_scp = t.platform_scp
  BY DEF Inserted, StepOk, Good, IsStore, Fields
<1> HIDE DEF u
<1>2. Good(u)
  BY <1>1 DEF StepOk, Good, StoreType
<1> QED
  BY <1>2 DEF u

\* load gives a good store, with or without a file.
LEMMA LoadIsGood ==
    ASSUME NEW d, \A x \in d : Good(x) /\ x = Document(x)
    PROVE  Good(load(d))
BY NewStoreIsGood DEF load, Get

\* The inductive invariant holds initially.
LEMMA InductiveInit == OInit => IInv
BY NewStoreIsGood DEF OInit, IInv

\* Every command, crash, key rotation and restart preserves the inductive invariant.
LEMMA InductiveStep == IInv /\ [ONext]_ovars => IInv'
<1> SUFFICES ASSUME IInv, [ONext]_ovars PROVE IInv'
  OBVIOUS
<1>0. Good(store) /\ \A d \in disk : Good(d) /\ d = Document(d)
  BY DEF IInv
<1>1. ASSUME NEW c \in Commands, NEW active \in BOOLEAN, Command(c, active)
      PROVE  IInv'
  <2> DEFINE r == dispatch(store, c, active)
  <2>1. StepOk(store, r.store)
    BY <1>0, DispatchOk DEF CommandOk
  <2>2. store' = r.store /\ disk' \in SavedBy(disk, c, store, r) /\ alive' \in BOOLEAN
    BY <1>1 DEF Command
  <2> HIDE DEF r
  <2>3. Good(r.store)
    BY <2>1 DEF StepOk
  <2>4. \A d \in disk' : Good(d) /\ d = Document(d)
    <3>1. CASE disk' = disk
      BY <1>0, <3>1
    <3>2. CASE disk' \in persist(disk, r.store)
      BY <1>0, <2>3, <3>2, PersistIsOk
    <3>3. ASSUME Creates(store, r.store), NEW e \in persist(disk, Inserted(store, r.store)),
                 disk' \in persist(e, r.store)
          PROVE  \A d \in disk' : Good(d) /\ d = Document(d)
      <4>1. \A d \in e : Good(d) /\ d = Document(d)
        BY <1>0, <2>1, <3>3, InsertedIsGood, PersistIsOk
      <4> QED
        BY <2>3, <3>3, <4>1, PersistIsOk
    <3> QED
      BY <2>2, <3>1, <3>2, <3>3 DEF SavedBy
  <2> QED
    BY <2>2, <2>3, <2>4 DEF IInv
<1>2. ASSUME NEW c \in Commands, NEW active \in BOOLEAN, Crash(c, active)
      PROVE  IInv'
  <2> DEFINE r == dispatch(store, c, active)
  <2>1. StepOk(store, r.store)
    BY <1>0, DispatchOk DEF CommandOk
  <2>2. /\ Creates(store, r.store) /\ disk' \in persist(disk, Inserted(store, r.store))
        /\ store' = load(disk') /\ alive' = TRUE
    BY <1>2 DEF Crash
  <2> HIDE DEF r
  <2>3. \A d \in disk' : Good(d) /\ d = Document(d)
    BY <1>0, <2>1, <2>2, InsertedIsGood, PersistIsOk
  <2> QED
    BY <2>2, <2>3, LoadIsGood DEF IInv
<1>3. ASSUME NEW key \in PlatformKeys, PutKey(key)
      PROVE  IInv'
  <2>1. /\ IsStore(store') /\ store'.objects = store.objects /\ store'.metadata = store.metadata
        /\ store'.ec_curves = store.ec_curves /\ store'.scp_required = store.scp_required
        /\ store'.platform_scp = {key}
    BY <1>0, <1>3 DEF PutKey, Good, IsStore, Fields
  <2>2. Good(store')
    BY <1>0, <2>1 DEF Good, StoreType
  <2>3. disk' \in persist(disk, store') /\ alive' = alive
    BY <1>3 DEF PutKey
  <2>4. \A d \in disk' : Good(d) /\ d = Document(d)
    BY <1>0, <2>2, <2>3, PersistIsOk
  <2> QED
    BY <2>2, <2>3, <2>4 DEF IInv
<1>4. CASE Restart
  BY <1>0, <1>4, LoadIsGood DEF Restart, IInv
<1>5. CASE UNCHANGED ovars
  BY <1>5 DEF ovars, IInv
<1> QED
  BY <1>1, <1>2, <1>3, <1>4, <1>5 DEF ONext

\* Type correctness: whatever commands, key rotations, restarts, crashes and failed or torn
\* writes happen, the store in memory and the one in the file are well formed.
THEOREM StoreTypeCorrect == OSpec => []OTypeOK
<1>1. IInv => OTypeOK
  BY DEF IInv, OTypeOK, Good
<1> QED
  BY <1>1, InductiveInit, InductiveStep, PTL DEF OSpec

\* No metadata is left behind by a deleted object (remove and clear of object_store/mod.rs) - also
\* after a crash between the two saves of a creation.
THEOREM NoOrphans == OSpec => []NoOrphanMetadata
<1>1. IInv => NoOrphanMetadata
  BY DEF IInv, Good, NoOrphanMetadata
<1> QED
  BY <1>1, InductiveInit, InductiveStep, PTL DEF OSpec

\* No command changes the metadata of an object that stays (set_creation_metadata of
\* object_store/mod.rs).
THEOREM MetadataSafe == OSpec => []MetadataIsImmutable
<1>1. IInv => MetadataIsImmutable
  <2> SUFFICES ASSUME IInv, NEW c \in Commands PROVE KeepsMetadata(store, After(c))
    BY DEF MetadataIsImmutable, KeepsMetadata
  <2> QED
    BY DispatchOk DEF IInv, CommandOk, StepOk, After
<1> QED
  BY <1>1, InductiveInit, InductiveStep, PTL DEF OSpec

-----------------------------------------------------------------------------
(***************************************************************************)
(* The file.                                                               *)
(***************************************************************************)
\* A save that works leaves the document of the store in the file.
LEMMA SavedIsCurrent ==
    ASSUME NEW s, Good(s), Persistent, SaveOutcomes = {"saved"}, NEW d, NEW e \in persist(d, s)
    PROVE  load(e) = Document(s)
<1>1. e = {Document(s)}
  BY DEF persist
<1> QED
  BY <1>1 DEF load, Get

\* A loaded store has no crypto objects.
LEMMA LoadedIsDocument ==
    ASSUME NEW d, \A x \in d : Good(x) /\ x = Document(x)
    PROVE  Document(load(d)) = load(d)
BY NewStoreIsGood DEF load, Get

\* While writing works the file is never behind the store: every handler that changes
\* something that is saved ends in a save, the others and the failing ones change at most
\* the running crypto objects.
THEOREM FileFollowsStore == OSpec => []FileIsCurrent
<1>1. OInit => FileIsCurrent
  BY NewStoreIsGood DEF OInit, FileIsCurrent, load
<1>2. IInv /\ FileIsCurrent /\ [ONext]_ovars => FileIsCurrent'
  <2> SUFFICES ASSUME IInv, FileIsCurrent, [ONext]_ovars, Persistent, SaveOutcomes = {"saved"}
               PROVE  Document(store') = load(disk')
    BY DEF FileIsCurrent
  <2>0. /\ Good(store)
        /\ \A d \in disk : Good(d) /\ d = Document(d)
        /\ Document(store) = load(disk)
    BY DEF IInv, FileIsCurrent
  <2>1. ASSUME NEW c \in Commands, NEW active \in BOOLEAN, Command(c, active)
        PROVE  Document(store') = load(disk')
    <3> DEFINE r == dispatch(store, c, active)
    <3>1. CommandOk(store, c, active, r)
      BY <2>0, DispatchOk
    <3>2. store' = r.store /\ disk' \in SavedBy(disk, c, store, r)
      BY <2>1 DEF Command
    <3> HIDE DEF r
    <3>3. CASE r.sw # NO_ERROR \/ ~Saves(c)
      BY <2>0, <3>1, <3>2, <3>3 DEF CommandOk, Volatile, SavedBy
    <3>4. CASE ~(r.sw # NO_ERROR \/ ~Saves(c))
      <4>1. Good(r.store)
        BY <3>1 DEF CommandOk, StepOk
      <4>2. \E e : disk' \in persist(e, r.store)
        BY <3>2, <3>4 DEF SavedBy
      <4> QED
        BY <3>2, <4>1, <4>2, SavedIsCurrent
    <3> QED
      BY <3>3, <3>4
  <2>2. ASSUME NEW c \in Commands, NEW active \in BOOLEAN, Crash(c, active)
        PROVE  Document(store') = load(disk')
    <3>1. \A d \in disk' : Good(d) /\ d = Document(d)
      BY InductiveStep, <2>2 DEF IInv, ONext
    <3> QED
      BY <2>2, <3>1, LoadedIsDocument DEF Crash
  <2>3. ASSUME NEW key \in PlatformKeys, PutKey(key)
        PROVE  Document(store') = load(disk')
    <3>1. Good(store')
      BY InductiveStep DEF IInv
    <3> QED
      BY <2>3, <3>1, SavedIsCurrent DEF PutKey
  <2>4. CASE Restart
    BY <2>0, <2>4, LoadedIsDocument DEF Restart
  <2>5. CASE UNCHANGED ovars
    BY <2>0, <2>5 DEF ovars
  <2> QED
    BY <2>1, <2>2, <2>3, <2>4, <2>5 DEF ONext
<1> QED
  BY <1>1, <1>2, InductiveInit, InductiveStep, PTL DEF OSpec

\* SetPlatformSCPRequest creates no object, so no crash falls between two saves of it.
LEMMA SetPlatformScpCreatesNothing ==
    ASSUME NEW s, Good(s), NEW c, NEW active \in BOOLEAN, c.cmd = "SetPlatformSCP"
    PROVE  ~Creates(s, dispatch(s, c, active).store)
<1>1. dispatch(s, c, active) = handle_set_platform_scp(s, c, active)
  BY DEF dispatch
<1>2. handle_set_platform_scp(s, c, active).store.metadata = s.metadata
  BY DEF handle_set_platform_scp, error, success, Reply, Good, IsStore, Fields
<1> QED
  BY <1>1, <1>2 DEF Creates

\* The requirement to use the channel is lifted by no other step than SetPlatformSCPRequest
\* over an authenticated channel, provided that the file can be written: then neither a
\* factory reset nor a restart nor a crash inside a creation loses it.
THEOREM ScpRequirementHolds ==
    ASSUME Persistent, SaveOutcomes = {"saved"}
    PROVE  OSpec => ScpRequiredSticks
<1>1. ASSUME IInv, FileIsCurrent, [ONext]_ovars
      PROVE  [store.scp_required /\ ~store'.scp_required =>
                \E c \in Commands : c.cmd = "SetPlatformSCP" /\ Command(c, TRUE)]_ovars
  <2>0. /\ Good(store) /\ Document(store) = load(disk)
        /\ \A d \in disk : Good(d) /\ d = Document(d)
    BY <1>1 DEF IInv, FileIsCurrent
  <2>1. \A s : Good(s) => Document(s).scp_required = s.scp_required
    BY DEF Good, IsStore, Fields, Document
  <2>2. ASSUME NEW c \in Commands, NEW active \in BOOLEAN, Command(c, active),
               store.scp_required, ~store'.scp_required
        PROVE  c.cmd = "SetPlatformSCP" /\ Command(c, TRUE)
    <3>1. CommandOk(store, c, active, dispatch(store, c, active))
      BY <2>0, DispatchOk
    <3>2. store' = dispatch(store, c, active).store
      BY <2>2 DEF Command
    <3>3. c.cmd = "SetPlatformSCP" /\ active
      BY <2>2, <3>1, <3>2 DEF CommandOk
    <3> QED
      BY <2>2, <3>3
  <2>3. ASSUME NEW c \in Commands, NEW active \in BOOLEAN, Crash(c, active)
        PROVE  store'.scp_required = store.scp_required
    <3> DEFINE r == dispatch(store, c, active)
               u == Inserted(store, r.store)
    <3>1. CommandOk(store, c, active, r)
      BY <2>0, DispatchOk
    <3>2. /\ Creates(store, r.store) /\ disk' \in persist(disk, u) /\ store' = load(disk')
      BY <2>3 DEF Crash
    <3>3. c.cmd # "SetPlatformSCP"
      BY <2>0, <3>2, SetPlatformScpCreatesNothing
    <3> HIDE DEF r
    <3>4. r.store.scp_required = store.scp_required /\ StepOk(store, r.store)
      BY <3>1, <3>3 DEF CommandOk
    <3>5. Good(u) /\ u.scp_required = r.store.scp_required
      BY <2>0, <3>2, <3>4, InsertedIsGood DEF Inserted, StepOk, Good, IsStore, Fields
    <3> HIDE DEF u
    <3>6. store' = Document(u)
      BY <3>2, <3>5, SavedIsCurrent
    <3> QED
      BY <2>1, <3>4, <3>5, <3>6
  <2>4. ASSUME NEW key \in PlatformKeys, PutKey(key)
        PROVE  store'.scp_required = store.scp_required
    BY <2>0, <2>4 DEF PutKey, Good, IsStore, Fields
  <2>5. CASE Restart
    BY <2>0, <2>1, <2>5 DEF Restart
  <2>6. CASE UNCHANGED ovars
    BY <2>6
  <2> QED
    BY <1>1, <2>2, <2>3, <2>4, <2>5, <2>6 DEF ONext
<1>2. OSpec => []IInv
  BY InductiveInit, InductiveStep, PTL DEF OSpec
<1> QED
  BY <1>1, <1>2, FileFollowsStore, PTL DEF OSpec, ScpRequiredSticks

-----------------------------------------------------------------------------
(***************************************************************************)
(* Policies.                                                               *)
(***************************************************************************)
\* No object is removed, and only the one named x may have another value.
OnlyWrites(s, t, x) ==
    \A id \in DOMAIN s.objects :
      id \in DOMAIN t.objects /\ (id # x => t.objects[id] = s.objects[id])

\* Storing an object changes that object only.
LEMMA InsertWritesOne ==
    ASSUME NEW s, Good(s), NEW x
    PROVE  /\ OnlyWrites(s, s, x)
           /\ \A o : OnlyWrites(s, insert(s, x, o), x)
<1>1. \A o : insert(s, x, o).objects = Insert(s.objects, x, o)
  BY DEF insert, Good, IsStore, Fields
<1> QED
  BY <1>1 DEF OnlyWrites, Insert

\* So does the shared end of the write handlers.
LEMMA WrittenWritesOne ==
    ASSUME NEW s, Good(s), NEW c
    PROVE  \A o, origin : OnlyWrites(s, Written(s, c, o, origin).store, c.id)
<1> SUFFICES ASSUME NEW o, NEW origin
             PROVE  OnlyWrites(s, Written(s, c, o, origin).store, c.id)
  OBVIOUS
<1> DEFINE t == insert(s, c.id, o)
           w == Written(s, c, o, origin).store
<1>1. OnlyWrites(s, t, c.id)
  BY InsertWritesOne
<1>2. IsStore(t)
  BY DEF insert, Good, IsStore, Fields
<1>3. set_creation_metadata(t, c.id, creation_policy(c.policy), origin).objects = t.objects
  <2> HIDE DEF t
  <2> QED BY <1>2 DEF set_creation_metadata, IsStore, Fields
<1>4. w.objects = t.objects
  BY <1>3 DEF Written, success, Reply
<1> QED
  BY <1>1, <1>4 DEF OnlyWrites

\* A write command of another type than RSA changes the object it names, and not when that
\* object denies WRITE.
LEMMA PlainWritesRespectPolicy ==
    ASSUME NEW s, Good(s), NEW c,
           NEW r \in { handle_write_binary(s, c), handle_write_counter(s, c),
                       handle_write_ec_key(s, c), handle_write_aes_key(s, c),
                       handle_write_hmac_key(s, c) }
    PROVE  /\ OnlyWrites(s, r.store, c.id)
           /\ ~MayWrite(s, c.id) => r.store = s
<1>1. \A o, origin : OnlyWrites(s, Written(s, c, o, origin).store, c.id)
  BY WrittenWritesOne
<1>2. /\ OnlyWrites(s, s, c.id)
      /\ \A o : OnlyWrites(s, insert(s, c.id, o), c.id)
  BY InsertWritesOne
<1>3. /\ \A sw : error(s, sw).store = s
      /\ \A t : success(t).store = t
  BY DEF error, success, Reply
<1>4. CASE r = handle_write_binary(s, c)
  BY <1>1, <1>2, <1>3, <1>4 DEF handle_write_binary
<1>5. CASE r = handle_write_counter(s, c)
  BY <1>1, <1>2, <1>3, <1>5 DEF handle_write_counter
<1>6. CASE r = handle_write_ec_key(s, c)
  BY <1>1, <1>2, <1>3, <1>6 DEF handle_write_ec_key
<1>7. CASE r = handle_write_aes_key(s, c)
  BY <1>1, <1>2, <1>3, <1>7 DEF handle_write_aes_key
<1>8. CASE r = handle_write_hmac_key(s, c)
  BY <1>1, <1>2, <1>3, <1>8 DEF handle_write_hmac_key
<1> QED
  BY <1>4, <1>5, <1>6, <1>7, <1>8

\* Writing an RSA key does the same, but an import that is in progress goes on.
LEMMA RsaWritesRespectPolicy ==
    ASSUME NEW s, Good(s), NEW c
    PROVE  LET t == handle_write_rsa_key(s, c).store
           IN  /\ OnlyWrites(s, t, c.id)
               /\ ~MayWrite(s, c.id) => t = s \/ CreationInProgress(s, c)
<1>1. \A o, origin : OnlyWrites(s, Written(s, c, o, origin).store, c.id)
  BY WrittenWritesOne
<1>2. OnlyWrites(s, s, c.id)
  BY InsertWritesOne
<1>3. \A sw : error(s, sw).store = s
  BY DEF error, Reply
<1>4. OnlyWrites(s, GenerateRsa(s, c).store, c.id)
  BY <1>1, <1>2, <1>3 DEF GenerateRsa
<1>5. OnlyWrites(s, ImportRsa(s, c).store, c.id)
  BY <1>1, <1>2, <1>3 DEF ImportRsa
<1> QED
  BY <1>2, <1>3, <1>4, <1>5 DEF handle_write_rsa_key

\* A derivation changes the object it is sent to; a delete removes the object it names, when
\* that object allows it, and changes no other.
LEMMA OthersRespectPolicy ==
    ASSUME NEW s, Good(s), NEW c
    PROVE  /\ OnlyWrites(s, handle_ecdh(s, c).store, c.target)
           /\ \A id \in DOMAIN s.objects :
                \/ /\ id \in DOMAIN handle_delete(s, c).store.objects
                   /\ handle_delete(s, c).store.objects[id] = s.objects[id]
                \/ /\ id \notin DOMAIN handle_delete(s, c).store.objects
                   /\ id = c.id /\ policy_allows(s, id, "DELETE")
<1>1. /\ \A sw : error(s, sw).store = s
      /\ \A out : success_with(s, out).store = s
      /\ \A t : success(t).store = t
  BY DEF error, success, success_with, Reply
<1>2. OnlyWrites(s, handle_ecdh(s, c).store, c.target)
  <2>1. /\ OnlyWrites(s, s, c.target)
        /\ \A o : OnlyWrites(s, insert(s, c.target, o), c.target)
    BY InsertWritesOne
  <2> QED
    BY <1>1, <2>1 DEF handle_ecdh
<1>3. exists(s, c.id) => remove(s, c.id).objects = Remove(s.objects, c.id)
  BY DEF remove, Good, IsStore, Fields
<1>4. CASE policy_allows(s, c.id, "DELETE") /\ exists(s, c.id) /\ c.id # NoId
  <2>1. handle_delete(s, c).store.objects = Remove(s.objects, c.id)
    BY <1>1, <1>3, <1>4 DEF handle_delete
  <2> QED
    BY <1>2, <1>4, <2>1 DEF Remove
<1>5. CASE ~(policy_allows(s, c.id, "DELETE") /\ exists(s, c.id) /\ c.id # NoId)
  <2>1. handle_delete(s, c).store = s
    BY <1>1, <1>5 DEF handle_delete
  <2> QED
    BY <1>2, <2>1
<1> QED
  BY <1>4, <1>5

\* Every other command but DeleteAll leaves the objects as they are.
LEMMA RestKeepsObjects ==
    ASSUME NEW s, Good(s), NEW c, NEW active \in BOOLEAN,
           c.cmd \notin WriteNames \cup {"ECDH", "DeleteObject", "DeleteAll"}
    PROVE  dispatch(s, c, active).store.objects = s.objects
<1>1. CASE c.cmd \in CurveNames
  <2>1. /\ CreateCurve(s, c).store.objects = s.objects
        /\ SetCurveParam(s, c).store.objects = s.objects
        /\ DeleteCurve(s, c).store.objects = s.objects
    BY DEF CreateCurve, SetCurveParam, DeleteCurve, error, success, Reply, Good, IsStore, Fields
  <2> QED
    BY <1>1, <2>1 DEF dispatch, CurveNames
<1>2. CASE c.cmd = "SetPlatformSCP"
  <2>1. handle_set_platform_scp(s, c, active).store.objects = s.objects
    BY DEF handle_set_platform_scp, error, success, Reply, Good, IsStore, Fields
  <2> QED
    BY <1>2, <2>1 DEF dispatch
<1>3. CASE c.cmd \notin CurveNames /\ c.cmd # "SetPlatformSCP"
  <2>1. ~Saves(c)
    BY <1>3 DEF Saves, WriteNames, CurveNames
  <2>2. Volatile(s, dispatch(s, c, active).store)
    BY <2>1, DispatchOk DEF CommandOk
  <2>3. \A u : IsStore(u) => Document(u).objects = u.objects
    BY DEF IsStore, Fields, Document
  <2> QED
    BY <2>2, <2>3 DEF Volatile, Good
<1> QED
  BY <1>1, <1>2, <1>3

\* Policies are enforced by every command: an object that denies WRITE keeps its value, but
\* for an RSA key whose import is not finished and the target of an ECDH derivation, and an
\* object that denies DELETE is only removed by the factory reset.
THEOREM PolicyHolds == OSpec => []PolicyIsEnforced
<1>1. ASSUME IInv PROVE PolicyIsEnforced
  <2> SUFFICES ASSUME NEW c \in Commands, NEW id \in DOMAIN store.objects
               PROVE  /\ Denies(id, "WRITE") /\ Replaced(id, c) =>
                           \/ c.cmd = "ECDH" /\ c.target = id
                           \/ c.cmd = "WriteRSA" /\ Has(store, id, "RSAKeyPair")
                                /\ store.objects[id].der = {}
                      /\ Denies(id, "DELETE") /\ ~exists(After(c), id) => c.cmd = "DeleteAll"
    BY DEF PolicyIsEnforced
  <2>1. Good(store)
    BY <1>1 DEF IInv
  <2> DEFINE r == dispatch(store, c, TRUE)
  <2>2. CASE c.cmd \in WriteNames
    <3>2. CASE c.cmd = "WriteRSA"
      <4>1. r = handle_write_rsa_key(store, c)
        BY <3>2 DEF dispatch
      <4> HIDE DEF r
      <4>2. /\ OnlyWrites(store, r.store, c.id)
            /\ ~MayWrite(store, c.id) => r.store = store \/ CreationInProgress(store, c)
        BY <2>1, <4>1, RsaWritesRespectPolicy
      <4>3. After(c) = r.store
        BY DEF After, r
      <4> QED
        BY <3>2, <4>2, <4>3 DEF OnlyWrites, Denies, Replaced, MayWrite, exists, Has,
                                CreationInProgress
    <3>3. CASE c.cmd # "WriteRSA"
      <4>1. /\ OnlyWrites(store, r.store, c.id)
            /\ ~MayWrite(store, c.id) => r.store = store
        <5>1. r \in { handle_write_binary(store, c), handle_write_counter(store, c),
                      handle_write_ec_key(store, c), handle_write_aes_key(store, c),
                      handle_write_hmac_key(store, c) }
          BY <2>2, <3>3 DEF dispatch, WriteNames
        <5> HIDE DEF r
        <5> QED
          BY <2>1, <5>1, PlainWritesRespectPolicy
      <4>2. After(c) = r.store
        BY DEF After
      <4> HIDE DEF r
      <4> QED
        BY <4>1, <4>2 DEF OnlyWrites, Denies, Replaced, MayWrite, exists
    <3> QED
      BY <3>2, <3>3
  <2>3. CASE c.cmd = "ECDH"
    <3>1. After(c) = handle_ecdh(store, c).store
      BY <2>3 DEF After, dispatch
    <3> QED
      BY <2>1, <2>3, <3>1, OthersRespectPolicy DEF OnlyWrites, Denies, Replaced, exists
  <2>4. CASE c.cmd = "DeleteObject"
    <3>1. After(c) = handle_delete(store, c).store
      BY <2>4 DEF After, dispatch
    <3> QED
      BY <2>1, <3>1, OthersRespectPolicy DEF Denies, Replaced, exists
  <2>5. CASE c.cmd = "DeleteAll"
    <3>1. After(c) = clear(store)
      BY <2>5 DEF After, dispatch, handle_delete_all, success, Reply
    <3>2. clear(store).objects = Empty
      BY <2>1 DEF clear, Good, IsStore, Fields
    <3> QED
      BY <2>5, <3>1, <3>2 DEF Replaced, exists, Empty
  <2>6. CASE c.cmd \notin WriteNames \cup {"ECDH", "DeleteObject", "DeleteAll"}
    <3>1. After(c).objects = store.objects
      BY <2>1, <2>6, RestKeepsObjects DEF After
    <3> QED
      BY <3>1 DEF Replaced, exists
  <2> QED
    BY <2>2, <2>3, <2>4, <2>5, <2>6
<1> QED
  BY <1>1, InductiveInit, InductiveStep, PTL DEF OSpec

-----------------------------------------------------------------------------
(***************************************************************************)
(* What the commands that write put into the store.                        *)
(***************************************************************************)
\* Object o is stored under x, with metadata when there was none of that name, and nothing else
\* changes.
Puts(s, t, x, o) ==
    /\ IsStore(t) /\ t.objects = Insert(s.objects, x, o)
    /\ DOMAIN s.metadata \subseteq DOMAIN t.metadata
    /\ x \in DOMAIN s.objects \/ x \in DOMAIN t.metadata
    /\ t.ec_curves = s.ec_curves
    /\ t.crypto_objects = s.crypto_objects /\ t.crypto_object_types = s.crypto_object_types

\* A counter of one to eight bytes; its value may be wider than its size.
IsCounter(o) == o.value \in Nat /\ o.size \in 1..8
CountersOk(s) ==
    \A id \in DOMAIN s.objects : s.objects[id].type = "Counter" => IsCounter(s.objects[id])

\* insert of object_store/mod.rs, on the fields.
LEMMA InsertFields ==
    ASSUME NEW s, IsStore(s), NEW x, NEW o
    PROVE  LET t == insert(s, x, o)
           IN  /\ IsStore(t) /\ t.objects = Insert(s.objects, x, o) /\ t.metadata = s.metadata
               /\ t.ec_curves = s.ec_curves /\ t.crypto_objects = s.crypto_objects
               /\ t.crypto_object_types = s.crypto_object_types
BY DEF insert, IsStore, Fields

\* The shared end of the write handlers.
LEMMA WrittenPuts ==
    ASSUME NEW s, Good(s), NEW c, NEW o, NEW origin
    PROVE  Puts(s, Written(s, c, o, origin).store, c.id, o)
<1> DEFINE t == insert(s, c.id, o)
           m == [policy |-> creation_policy(c.policy), origin |-> origin]
           u == [t EXCEPT !.metadata = Insert(@, c.id, m)]
<1>1. /\ IsStore(t) /\ t.objects = Insert(s.objects, c.id, o) /\ t.metadata = s.metadata
      /\ t.ec_curves = s.ec_curves /\ t.crypto_objects = s.crypto_objects
      /\ t.crypto_object_types = s.crypto_object_types
  BY InsertFields DEF Good
<1>2. CASE exists(s, c.id)
  <2>1. Written(s, c, o, origin).store = t
    BY <1>2 DEF Written, success, Reply
  <2> HIDE DEF t
  <2> QED
    BY <1>1, <1>2, <2>1 DEF Puts, exists
<1>3. CASE ~exists(s, c.id)
  <2>1. Written(s, c, o, origin).store = u
    BY <1>1, <1>3 DEF Written, success, Reply, set_creation_metadata, Good, exists
  <2> HIDE DEF t, m
  <2>2. /\ IsStore(u) /\ u.objects = t.objects /\ u.metadata = Insert(s.metadata, c.id, m)
        /\ u.ec_curves = t.ec_curves /\ u.crypto_objects = t.crypto_objects
        /\ u.crypto_object_types = t.crypto_object_types
    BY <1>1 DEF IsStore, Fields
  <2> HIDE DEF u
  <2>3. DOMAIN u.metadata = DOMAIN s.metadata \cup {c.id}
    BY <2>2 DEF Insert
  <2> QED
    BY <1>1, <2>1, <2>2, <2>3 DEF Puts
<1> QED
  BY <1>2, <1>3

\* So does a write into an object that exists.
LEMMA InsertPuts ==
    ASSUME NEW s, Good(s), NEW x \in DOMAIN s.objects, NEW o
    PROVE  Puts(s, insert(s, x, o), x, o)
<1>1. LET t == insert(s, x, o)
      IN  /\ IsStore(t) /\ t.objects = Insert(s.objects, x, o) /\ t.metadata = s.metadata
          /\ t.ec_curves = s.ec_curves /\ t.crypto_objects = s.crypto_objects
          /\ t.crypto_object_types = s.crypto_object_types
  BY InsertFields DEF Good
<1> QED
  BY <1>1 DEF Puts

\* A reply of a write command: refused, or one object is put, and a counter is put whole.
WritesOne(s, c, t) ==
    t = s \/ \E o : Puts(s, t, c.id, o) /\ (o.type = "Counter" => IsCounter(o))

\* A counter that is made of a value is one of its width.
LEMMA CounterIs ==
    ASSUME NEW value \in Nat, NEW size \in 1..8
    PROVE  IsCounter(Counter(value, size))
<1>1. Byte^8 \in Nat \ {0}
  BY WidthAssumption
<1>2. value % Byte^8 \in Nat
  BY <1>1
<1> QED
  BY <1>2 DEF IsCounter, Counter

\* Every write handler (object_mgmt.rs, ec.rs, rsa.rs, aes.rs).
LEMMA WritesPutOne ==
    ASSUME NEW s, Good(s), CountersOk(s), NEW c \in Commands, NEW active, c.cmd \in WriteNames
    PROVE  WritesOne(s, c, dispatch(s, c, active).store)
<1>1. \A sw : error(s, sw).store = s
  BY DEF error, Reply
<1>2. WritesOne(s, c, s)
  BY DEF WritesOne
<1>3. \A o, origin : o.type # "Counter" => WritesOne(s, c, Written(s, c, o, origin).store)
  BY WrittenPuts DEF WritesOne
<1>4. CASE c.cmd = "WriteBinary"
  <2> DEFINE file == IF exists(s, c.id) THEN s.objects[c.id].data
                     ELSE [i \in 1 .. (IF exists(s, c.id) THEN Len(s.objects[c.id].data)
                                       ELSE IF c.size = {} THEN Len(c.data) ELSE Get(c.size)) |-> 0]
             o == [type |-> "Binary", data |-> Overwrite(file, c.offset, c.data)]
  <2>1. o.type # "Counter"
    OBVIOUS
  <2>2. WritesOne(s, c, Written(s, c, o, EXTERNAL).store)
    BY <1>3, <2>1
  <2>3. \/ \E sw : handle_write_binary(s, c) = error(s, sw)
        \/ handle_write_binary(s, c) = Written(s, c, o, EXTERNAL)
    BY DEF handle_write_binary
  <2> HIDE DEF o
  <2>4. WritesOne(s, c, handle_write_binary(s, c).store)
    BY <1>1, <1>2, <2>2, <2>3
  <2> QED
    BY <1>4, <2>4 DEF dispatch
<1>5. CASE c.cmd = "WriteEC"
  <2>1. /\ \A key : ECKeyPair(c.curve, key).type # "Counter"
        /\ [type |-> "ECPublicKey", curve |-> c.curve, public_key |-> c.peer].type # "Counter"
    BY DEF ECKeyPair
  <2>2. /\ \A key, origin : WritesOne(s, c, Written(s, c, ECKeyPair(c.curve, key), origin).store)
        /\ WritesOne(s, c, Written(s, c, [type |-> "ECPublicKey", curve |-> c.curve,
                                          public_key |-> c.peer], EXTERNAL).store)
    BY <1>3, <2>1
  <2>3. WritesOne(s, c, handle_write_ec_key(s, c).store)
    BY <1>1, <1>2, <2>2 DEF handle_write_ec_key
  <2> QED
    BY <1>5, <2>3 DEF dispatch
<1>6. CASE c.cmd = "WriteRSA"
  <2>1. \A bits, der, staged : RSAKeyPair(bits, der, staged).type # "Counter"
    BY DEF RSAKeyPair
  <2>2. \A bits, staged : Merged(bits, staged).type # "Counter"
    BY <2>1 DEF Merged
  <2>3. WritesOne(s, c, GenerateRsa(s, c).store)
    BY <1>1, <1>2, <1>3, <2>1 DEF GenerateRsa
  <2>4. WritesOne(s, c, ImportRsa(s, c).store)
    BY <1>1, <1>2, <1>3, <2>2 DEF ImportRsa
  <2>5. WritesOne(s, c, handle_write_rsa_key(s, c).store)
    BY <1>1, <1>2, <2>3, <2>4 DEF handle_write_rsa_key
  <2> QED
    BY <1>6, <2>5 DEF dispatch
<1>7. CASE c.cmd = "WriteAES"
  <2>1. \A key : [type |-> "AESKey", key |-> key].type # "Counter"
    OBVIOUS
  <2>2. \A key, origin : WritesOne(s, c, Written(s, c, [type |-> "AESKey", key |-> key], origin).store)
    BY <1>3, <2>1
  <2>3. WritesOne(s, c, handle_write_aes_key(s, c).store)
    BY <1>1, <1>2, <2>2 DEF handle_write_aes_key
  <2> QED
    BY <1>7, <2>3 DEF dispatch
<1>8. CASE c.cmd = "WriteHMAC"
  <2>1. \A key, policy : HMACKey(key, policy).type # "Counter"
    BY DEF HMACKey
  <2>2. WritesOne(s, c, handle_write_hmac_key(s, c).store)
    BY <1>1, <1>2, <1>3, <2>1 DEF handle_write_hmac_key
  <2> QED
    BY <1>8, <2>2 DEF dispatch
<1>9. CASE c.cmd = "WriteCounter"
  <2>1. \A value \in Nat, size \in 1..8 :
          /\ WritesOne(s, c, Written(s, c, Counter(value, size), EXTERNAL).store)
          /\ exists(s, c.id) => WritesOne(s, c, insert(s, c.id, Counter(value, size)))
    BY CounterIs, WrittenPuts, InsertPuts DEF WritesOne, exists
  <2>2. c.value # {} => Get(c.value) \in Nat
    BY <1>9, CounterAssumption DEF Get
  <2>3. \A t : success(t).store = t
    BY DEF success, Reply
  <2>4. ASSUME Has(s, c.id, "Counter")
        PROVE  s.objects[c.id].size \in 1..8 /\ Incremented(s.objects[c.id]) \in Nat
    <3>1. IsCounter(s.objects[c.id])
      BY <2>4 DEF CountersOk, Has, exists
    <3>2. Byte^(s.objects[c.id].size) \in Nat \ {0}
      BY <3>1, WidthAssumption DEF IsCounter
    <3> QED
      BY <3>1, <3>2 DEF IsCounter, Incremented
  <2>5. WritesOne(s, c, handle_write_counter(s, c).store)
    <3>1. CASE exists(s, c.id)
      BY <1>1, <1>2, <2>1, <2>2, <2>3, <2>4, <3>1 DEF handle_write_counter
    <3>2. CASE ~exists(s, c.id)
      <4> DEFINE value == IF c.value = {} THEN 0 ELSE Get(c.value)
      <4>1. value \in Nat
        BY <2>2
      <4> HIDE DEF value
      <4>2. Get(c.size) \in 1..8 =>
              WritesOne(s, c, Written(s, c, Counter(value, Get(c.size)), EXTERNAL).store)
        BY <2>1, <4>1
      <4> QED
        BY <1>1, <1>2, <3>2, <4>2 DEF handle_write_counter, value
    <3> QED
      BY <3>1, <3>2
  <2> QED
    BY <1>9, <2>5 DEF dispatch
<1> QED
  BY <1>4, <1>5, <1>6, <1>7, <1>8, <1>9 DEF WriteNames

\* A derivation stores a file or an HMAC key; in strict mode its target exists (ec.rs).
LEMMA EcdhPutsOne ==
    ASSUME NEW s, Good(s), NEW c
    PROVE  LET t == handle_ecdh(s, c).store
           IN  t = s \/ \E o : /\ t = insert(s, c.target, o) /\ o.type # "Counter"
                               /\ StrictEcdh => exists(s, c.target)
<1>1. /\ \A sw : error(s, sw).store = s
      /\ \A out : success_with(s, out).store = s
      /\ \A t : success(t).store = t
  BY DEF error, success, success_with, Reply
<1>2. /\ \A key, policy : HMACKey(key, policy).type # "Counter"
      /\ \A data : [type |-> "Binary", data |-> data].type # "Counter"
  BY DEF HMACKey
<1> DEFINE secret == [len |-> scalar_len(s.objects[c.id].curve),
                      v |-> s.objects[c.id].private_key.v \o Get(c.peer)]
           hmac == Has(s, c.target, "HMACKey")
           o == IF hmac THEN HMACKey(secret, s.objects[c.target].policy)
                ELSE [type |-> "Binary", data |-> secret.v]
<1>3. o.type # "Counter"
  <2> HIDE DEF secret, hmac
  <2> QED BY <1>2
<1> DEFINE Keeps(r) == r.store = s
<1>4. (\A sw : Keeps(error(s, sw))) /\ (\A out : Keeps(success_with(s, out)))
  BY <1>1
<1> HIDE DEF Keeps
<1>5. \/ Keeps(handle_ecdh(s, c))
      \/ handle_ecdh(s, c) = success(insert(s, c.target, o)) /\ (StrictEcdh => hmac)
  <2>1. CASE c.target = NoId
    BY <2>1, EcdhIsOk DEF Keeps
  <2>2. CASE c.target # NoId /\ ~hmac /\ StrictEcdh
    BY <1>4, <2>2 DEF handle_ecdh
  <2>3. CASE c.target # NoId /\ (StrictEcdh => hmac)
    BY <1>4, <2>3 DEF handle_ecdh
  <2> QED
    BY <2>1, <2>2, <2>3
<1>6. hmac => exists(s, c.target)
  BY DEF Has
<1> HIDE DEF o, hmac
<1>7. \/ handle_ecdh(s, c).store = s
      \/ handle_ecdh(s, c).store = insert(s, c.target, o) /\ (StrictEcdh => exists(s, c.target))
  BY <1>1, <1>5, <1>6 DEF Keeps
<1> QED
  BY <1>3, <1>7

\* Deleting an object removes it and its metadata, and nothing else.
LEMMA DeleteRemoves ==
    ASSUME NEW s, Good(s), NEW c
    PROVE  LET t == handle_delete(s, c).store
           IN  \/ t = s
               \/ /\ t.objects = Remove(s.objects, c.id) /\ t.metadata = Remove(s.metadata, c.id)
                  /\ t.ec_curves = s.ec_curves /\ t.crypto_objects = s.crypto_objects
                  /\ t.crypto_object_types = s.crypto_object_types
<1> DEFINE t == [s EXCEPT !.objects = Remove(@, c.id), !.metadata = Remove(@, c.id)]
<1>1. /\ t.objects = Remove(s.objects, c.id) /\ t.metadata = Remove(s.metadata, c.id)
      /\ t.ec_curves = s.ec_curves /\ t.crypto_objects = s.crypto_objects
      /\ t.crypto_object_types = s.crypto_object_types
  BY DEF Good, IsStore, Fields
<1>2. handle_delete(s, c).store = s \/ handle_delete(s, c).store = t
  BY DEF handle_delete, remove, error, success, Reply
<1> HIDE DEF t
<1> QED
  BY <1>1, <1>2

\* The factory reset, on the fields.
LEMMA ClearFields ==
    ASSUME NEW s, Good(s)
    PROVE  /\ clear(s).objects = Empty /\ clear(s).metadata = Empty
           /\ clear(s).crypto_objects = Empty /\ clear(s).crypto_object_types = Empty
BY DEF clear, Good, IsStore, Fields

\* A property of objects and metadata that every put, removal and reset keeps is kept by every
\* command: the others leave both alone.
LEMMA RestKeepsBoth ==
    ASSUME NEW s, Good(s), NEW c, NEW active \in BOOLEAN,
           c.cmd \notin WriteNames \cup {"ECDH", "DeleteObject", "DeleteAll"}
    PROVE  LET t == dispatch(s, c, active).store
           IN  t.objects = s.objects /\ t.metadata = s.metadata
<1>1. dispatch(s, c, active).store.objects = s.objects
  BY RestKeepsObjects
<1>2. CASE c.cmd \in CurveNames
  <2>1. /\ CreateCurve(s, c).store.metadata = s.metadata
        /\ SetCurveParam(s, c).store.metadata = s.metadata
        /\ DeleteCurve(s, c).store.metadata = s.metadata
    BY DEF CreateCurve, SetCurveParam, DeleteCurve, error, success, Reply, Good, IsStore, Fields
  <2>2. dispatch(s, c, active).store.metadata = s.metadata
    BY <1>2, <2>1 DEF dispatch, CurveNames
  <2> QED
    BY <1>1, <2>2
<1>3. CASE c.cmd = "SetPlatformSCP"
  <2>1. handle_set_platform_scp(s, c, active).store.metadata = s.metadata
    BY DEF handle_set_platform_scp, error, success, Reply, Good, IsStore, Fields
  <2> QED
    BY <1>1, <1>3, <2>1 DEF dispatch
<1>4. CASE c.cmd \notin CurveNames /\ c.cmd # "SetPlatformSCP"
  <2>1. ~Saves(c)
    BY <1>4 DEF Saves, WriteNames, CurveNames
  <2>2. Volatile(s, dispatch(s, c, active).store)
    BY <2>1, DispatchOk DEF CommandOk
  <2>3. \A u : IsStore(u) => Document(u).metadata = u.metadata
    BY DEF IsStore, Fields, Document
  <2> QED
    BY <1>1, <2>2, <2>3 DEF Volatile, Good
<1> QED
  BY <1>2, <1>3, <1>4

-----------------------------------------------------------------------------
(***************************************************************************)
(* Counters.                                                               *)
(***************************************************************************)
\* Division with remainder.
LEMMA Remainder ==
    ASSUME NEW q \in Nat, NEW w \in Nat \ {0}, NEW r \in 0..(w - 1), NEW x, x = (q * w) + r
    PROVE  x % w = r
OBVIOUS

\* Every number is a multiple of w and a remainder.
LEMMA Divided ==
    ASSUME NEW x \in Nat, NEW w \in Nat \ {0}
    PROVE  \E q \in Nat, r \in 0..(w - 1) : x = (q * w) + r
<1>1. x % w \in 0..(w - 1) /\ x = ((x \div w) * w) + (x % w) /\ x \div w \in Nat
  OBVIOUS
<1> QED
  BY <1>1

\* The value that a reader sees of the successor of x is the successor of what he sees of x.
LEMMA SuccessorSeen ==
    ASSUME NEW x \in Nat, NEW w \in Nat \ {0}
    PROVE  ((x % w) + 1) % w = (x + 1) % w
<1>1. PICK q \in Nat, r \in 0..(w - 1) : x = (q * w) + r
  BY Divided
<1>2. x % w = r
  BY <1>1, Remainder
<1>3. CASE r + 1 < w
  <2> DEFINE y == x + 1
             z == r + 1
  <2>1. y = (q * w) + z /\ z \in 0..(w - 1)
    BY <1>1, <1>3
  <2> HIDE DEF y, z
  <2>2. y % w = z
    BY <1>1, <2>1, Remainder
  <2>3. (r + 1) % w = r + 1
    BY <1>3
  <2> QED
    BY <1>2, <2>2, <2>3 DEF y, z
<1>4. CASE r + 1 = w
  <2> DEFINE y == x + 1
             p == q + 1
  <2>1. y = (p * w) + 0 /\ p \in Nat /\ 0 \in 0..(w - 1)
    BY <1>1, <1>4
  <2> HIDE DEF y, p
  <2>2. y % w = 0
    BY <2>1, Remainder
  <2>3. (r + 1) % w = 0
    BY <1>4
  <2> QED
    BY <1>2, <2>2, <2>3 DEF y
<1> QED
  BY <1>3, <1>4

\* Every command keeps the counters within their type.
LEMMA DispatchKeepsCounters ==
    ASSUME NEW s, Good(s), CountersOk(s), NEW c \in Commands, NEW active \in BOOLEAN
    PROVE  CountersOk(dispatch(s, c, active).store)
<1> DEFINE t == dispatch(s, c, active).store
<1> SUFFICES CountersOk(t)
  OBVIOUS
<1>1. ASSUME NEW x, NEW o, t.objects = Insert(s.objects, x, o), o.type = "Counter" => IsCounter(o)
      PROVE  CountersOk(t)
  <2> HIDE DEF t
  <2> QED BY <1>1 DEF CountersOk, Insert
<1>2. CASE c.cmd \in WriteNames
  <2>1. WritesOne(s, c, t)
    BY <1>2, WritesPutOne
  <2> HIDE DEF t
  <2> QED
    BY <1>1, <2>1 DEF WritesOne, Puts
<1>3. CASE c.cmd = "ECDH"
  <2>1. t = handle_ecdh(s, c).store
    BY <1>3 DEF dispatch
  <2> HIDE DEF t
  <2>2. t = s \/ \E o : t = insert(s, c.target, o) /\ o.type # "Counter"
    BY <2>1, EcdhPutsOne
  <2>3. \A o : insert(s, c.target, o).objects = Insert(s.objects, c.target, o)
    BY InsertFields DEF Good
  <2> QED
    BY <1>1, <2>2, <2>3
<1>4. CASE c.cmd = "DeleteObject"
  <2>1. t = handle_delete(s, c).store
    BY <1>4 DEF dispatch
  <2> HIDE DEF t
  <2>2. t = s \/ t.objects = Remove(s.objects, c.id)
    BY <2>1, DeleteRemoves
  <2> QED
    BY <2>2 DEF CountersOk, Remove
<1>5. CASE c.cmd = "DeleteAll"
  <2>1. t = clear(s)
    BY <1>5 DEF dispatch, handle_delete_all, success, Reply
  <2> HIDE DEF t
  <2> QED
    BY <2>1, ClearFields DEF CountersOk, Empty
<1>6. CASE c.cmd \notin WriteNames \cup {"ECDH", "DeleteObject", "DeleteAll"}
  <2>1. t.objects = s.objects
    BY <1>6, RestKeepsObjects
  <2> HIDE DEF t
  <2> QED
    BY <2>1 DEF CountersOk
<1> QED
  BY <1>2, <1>3, <1>4, <1>5, <1>6

\* The counters of the file are those of a store.
CountersInv == CountersOk(store) /\ \A d \in disk : CountersOk(d)

\* A save writes the counters of the store.
LEMMA PersistKeepsCounters ==
    ASSUME NEW s, Good(s), CountersOk(s), NEW d, \A x \in d : CountersOk(x), NEW e \in persist(d, s)
    PROVE  \A x \in e : CountersOk(x)
<1>1. Document(s).objects = s.objects
  BY DEF Good, IsStore, Fields, Document
<1>2. CountersOk(Document(s))
  BY <1>1 DEF CountersOk
<1>3. e = d \/ e = {} \/ e = {Document(s)}
  BY DEF persist
<1> QED
  BY <1>2, <1>3

\* A file gives the counters it holds.
LEMMA LoadKeepsCounters ==
    ASSUME NEW d, \A x \in d : CountersOk(x)
    PROVE  CountersOk(load(d))
<1>1. CountersOk(NewStore)
  BY DEF CountersOk, NewStore, Empty
<1> QED
  BY <1>1 DEF load

\* Counters stay within their width, in the store and in the file.
LEMMA CountersStep == IInv /\ CountersInv /\ [ONext]_ovars => CountersInv'
<1> SUFFICES ASSUME IInv, CountersInv, [ONext]_ovars PROVE CountersInv'
  OBVIOUS
<1>0. Good(store) /\ CountersOk(store) /\ \A d \in disk : CountersOk(d)
  BY DEF IInv, CountersInv
<1>1. ASSUME NEW c \in Commands, NEW active \in BOOLEAN, Creates(store, dispatch(store, c, active).store),
             NEW e \in persist(disk, Inserted(store, dispatch(store, c, active).store))
      PROVE  \A x \in e : CountersOk(x)
  <2> DEFINE t == dispatch(store, c, active).store
             u == Inserted(store, t)
  <2>1. StepOk(store, t) /\ CountersOk(t)
    BY <1>0, DispatchOk, DispatchKeepsCounters DEF CommandOk
  <2> HIDE DEF t
  <2>2. Good(u) /\ u.objects = t.objects
    BY <1>0, <1>1, <2>1, InsertedIsGood DEF Inserted, StepOk, Good, IsStore, Fields, t
  <2> HIDE DEF u
  <2>3. CountersOk(u)
    BY <2>1, <2>2 DEF CountersOk
  <2>4. e \in persist(disk, u)
    BY <1>1 DEF u, t
  <2> QED
    BY <1>0, <2>2, <2>3, <2>4, PersistKeepsCounters
<1>2. ASSUME NEW c \in Commands, NEW active \in BOOLEAN, Command(c, active)
      PROVE  CountersInv'
  <2> DEFINE r == dispatch(store, c, active)
  <2>1. Good(r.store) /\ CountersOk(r.store)
    BY <1>0, DispatchOk, DispatchKeepsCounters DEF CommandOk, StepOk
  <2>2. store' = r.store /\ disk' \in SavedBy(disk, c, store, r)
    BY <1>2 DEF Command
  <2>3. ASSUME Creates(store, r.store), NEW e \in persist(disk, Inserted(store, r.store))
        PROVE  \A x \in e : CountersOk(x)
    BY <1>1, <2>3
  <2> HIDE DEF r
  <2>4. \A x \in disk' : CountersOk(x)
    <3>1. CASE disk' = disk
      BY <1>0, <3>1
    <3>2. CASE disk' \in persist(disk, r.store)
      BY <1>0, <2>1, <3>2, PersistKeepsCounters
    <3>3. ASSUME Creates(store, r.store), NEW e \in persist(disk, Inserted(store, r.store)),
                 disk' \in persist(e, r.store)
          PROVE  \A x \in disk' : CountersOk(x)
      BY <2>1, <2>3, <3>3, PersistKeepsCounters
    <3> QED
      BY <2>2, <3>1, <3>2, <3>3 DEF SavedBy
  <2> QED
    BY <2>1, <2>2, <2>4 DEF CountersInv
<1>3. ASSUME NEW c \in Commands, NEW active \in BOOLEAN, Crash(c, active)
      PROVE  CountersInv'
  <2>1. \A x \in disk' : CountersOk(x)
    BY <1>1, <1>3 DEF Crash
  <2> QED
    BY <1>3, <2>1, LoadKeepsCounters DEF Crash, CountersInv
<1>4. ASSUME NEW key \in PlatformKeys, PutKey(key)
      PROVE  CountersInv'
  <2>1. Good(store')
    BY InductiveStep DEF IInv
  <2>2. store'.objects = store.objects
    BY <1>0, <1>4 DEF PutKey, Good, IsStore, Fields
  <2>3. CountersOk(store')
    BY <1>0, <2>2 DEF CountersOk
  <2>4. disk' \in persist(disk, store')
    BY <1>4 DEF PutKey
  <2> QED
    BY <1>0, <2>1, <2>3, <2>4, PersistKeepsCounters DEF CountersInv
<1>5. CASE Restart
  BY <1>0, <1>5, LoadKeepsCounters DEF Restart, CountersInv
<1>6. CASE UNCHANGED ovars
  BY <1>6 DEF ovars, CountersInv
<1> QED
  BY <1>2, <1>3, <1>4, <1>5, <1>6 DEF ONext

\* An increment adds one to the value that a reader of the counter sees and wraps at its size,
\* whatever value of up to eight bytes was written into it before (handle_write_counter,
\* object_mgmt.rs), and however often the process died or lost its file in between.
THEOREM CountersStepByOne == OSpec => []CountersCount
<1>1. ASSUME IInv, CountersInv PROVE CountersCount
  <2> SUFFICES ASSUME NEW c \in Commands, c.cmd = "WriteCounter", Has(store, c.id, "Counter"),
                      c.size = {}, c.value = {}, dispatch(store, c, TRUE).sw = NO_ERROR
               PROVE  ReadCounter(After(c), c.id) =
                        (ReadCounter(store, c.id) + 1) % Byte^store.objects[c.id].size
    BY DEF CountersCount
  <2> DEFINE o == store.objects[c.id]
             w == Byte^o.size
             n == Counter(Incremented(o), o.size)
  <2>1. o.value \in Nat /\ o.size \in 1..8 /\ exists(store, c.id)
    BY <1>1 DEF CountersInv, CountersOk, IsCounter, Has, exists
  <2>2. w \in Nat \ {0} /\ w <= Byte^8 /\ Byte^8 \in Nat \ {0}
    BY <2>1, WidthAssumption
  <2>3. dispatch(store, c, TRUE) = handle_write_counter(store, c)
    BY DEF dispatch
  <2>4. handle_write_counter(store, c).sw = NO_ERROR =>
          handle_write_counter(store, c) = success(insert(store, c.id, n))
    BY <2>1 DEF handle_write_counter, error, Reply, NO_ERROR, WRONG_DATA, CONDITIONS_NOT_SATISFIED
  <2>5. After(c) = insert(store, c.id, n)
    <3>1. \A t : success(t).store = t
      BY DEF success, Reply
    <3> HIDE DEF n
    <3> QED BY <2>3, <2>4, <3>1 DEF After
  <2>6. After(c).objects[c.id] = n
    <3> HIDE DEF n
    <3>1. IsStore(store)
      BY <1>1 DEF IInv, Good
    <3>2. insert(store, c.id, n).objects = Insert(store.objects, c.id, n)
      BY <3>1, InsertFields
    <3> QED BY <2>5, <3>2 DEF Insert
  <2>7. n.value = ((o.value + 1) % w) % Byte^8 /\ n.size = o.size
    BY DEF Counter, Incremented
  <2>8. ReadCounter(After(c), c.id) = n.value % w
    BY <2>6, <2>7 DEF ReadCounter
  <2>9. ReadCounter(store, c.id) = o.value % w
    BY DEF ReadCounter
  <2> HIDE DEF o, w, n
  <2>10. (o.value + 1) % w \in 0..(w - 1)
    BY <2>1, <2>2
  <2>11. ((o.value + 1) % w) % Byte^8 = (o.value + 1) % w
    BY <2>2, <2>10
  <2>12. n.value % w = (o.value + 1) % w
    BY <2>2, <2>7, <2>10, <2>11
  <2> QED
    BY <2>1, <2>2, <2>8, <2>9, <2>12, SuccessorSeen DEF w, o
<1>2. OInit => CountersInv
  BY DEF OInit, CountersInv, CountersOk, NewStore, Empty
<1> QED
  BY <1>1, <1>2, CountersStep, InductiveInit, InductiveStep, PTL DEF OSpec

-----------------------------------------------------------------------------
(***************************************************************************)
(* Curves.                                                                 *)
(***************************************************************************)
\* Every command but those on curves and the factory reset leaves the curves as they are.
LEMMA RestKeepsCurves ==
    ASSUME NEW s, Good(s), CountersOk(s), NEW c \in Commands, NEW active \in BOOLEAN,
           c.cmd \notin CurveNames \cup {"DeleteAll"}
    PROVE  dispatch(s, c, active).store.ec_curves = s.ec_curves
<1> DEFINE t == dispatch(s, c, active).store
<1> SUFFICES t.ec_curves = s.ec_curves
  OBVIOUS
<1>1. CASE c.cmd \in WriteNames
  <2>1. WritesOne(s, c, t)
    BY <1>1, WritesPutOne
  <2> HIDE DEF t
  <2> QED
    BY <2>1 DEF WritesOne, Puts
<1>2. CASE c.cmd = "ECDH"
  <2>1. t = handle_ecdh(s, c).store
    BY <1>2 DEF dispatch
  <2> HIDE DEF t
  <2>2. t = s \/ \E o : t = insert(s, c.target, o)
    BY <2>1, EcdhPutsOne
  <2>3. \A o : insert(s, c.target, o).ec_curves = s.ec_curves
    BY InsertFields DEF Good
  <2> QED
    BY <2>2, <2>3
<1>3. CASE c.cmd = "DeleteObject"
  <2>1. t = handle_delete(s, c).store
    BY <1>3 DEF dispatch
  <2> HIDE DEF t
  <2> QED
    BY <2>1, DeleteRemoves
<1>4. CASE c.cmd = "SetPlatformSCP"
  <2>1. handle_set_platform_scp(s, c, active).store.ec_curves = s.ec_curves
    BY DEF handle_set_platform_scp, error, success, Reply, Good, IsStore, Fields
  <2> QED
    BY <1>4, <2>1 DEF dispatch
<1>5. CASE c.cmd \notin WriteNames \cup {"ECDH", "DeleteObject", "SetPlatformSCP"}
  <2>1. ~Saves(c)
    BY <1>5 DEF Saves, WriteNames, CurveNames
  <2>2. Volatile(s, t)
    BY <2>1, DispatchOk DEF CommandOk
  <2>3. \A u : IsStore(u) => Document(u).ec_curves = u.ec_curves
    BY DEF IsStore, Fields, Document
  <2> HIDE DEF t
  <2> QED
    BY <2>2, <2>3 DEF Volatile, Good
<1> QED
  BY <1>1, <1>2, <1>3, <1>4, <1>5

\* A version 7 applet takes parameters from no curve that stays (curve.rs), by no command but the
\* factory reset, in no state that any history leads to.
THEOREM CurvesKeep == OSpec => []CurvesKeepParameters
<1>1. ASSUME IInv, CountersInv PROVE CurvesKeepParameters
  <2> SUFFICES ASSUME NEW c \in Commands, is_v7, c.cmd # "DeleteAll",
                      NEW curve \in DOMAIN store.ec_curves \cap DOMAIN After(c).ec_curves
               PROVE  store.ec_curves[curve] \subseteq After(c).ec_curves[curve]
    BY DEF CurvesKeepParameters
  <2>1. Good(store) /\ CountersOk(store)
    BY <1>1 DEF IInv, CountersInv
  <2>2. \A sw : error(store, sw).store = store
    BY DEF error, Reply
  <2>3. \A v : success([store EXCEPT !.ec_curves = v]).store.ec_curves = v
    BY <2>1 DEF success, Reply, Good, IsStore, Fields
  <2>4. CASE c.cmd = "CreateCurve"
    <3>1. \/ After(c) = store
          \/ c.curve \notin DOMAIN store.ec_curves
             /\ After(c).ec_curves = Insert(store.ec_curves, c.curve, {})
      BY <2>2, <2>3, <2>4 DEF After, dispatch, CreateCurve
    <3> QED
      BY <3>1 DEF Insert
  <2>5. CASE c.cmd = "SetCurveParam"
    <3> DEFINE v == [store.ec_curves EXCEPT ![c.curve] = @ \cup {c.param}]
    <3>1. [store EXCEPT !.ec_curves[c.curve] = @ \cup {c.param}] = [store EXCEPT !.ec_curves = v]
      OBVIOUS
    <3>2. store.ec_curves[curve] \subseteq v[curve]
      OBVIOUS
    <3>3. After(c) = store \/ After(c).ec_curves = v
      <4> HIDE DEF v
      <4> QED BY <2>2, <2>3, <2>5, <3>1 DEF After, dispatch, SetCurveParam
    <3> QED
      BY <3>2, <3>3
  <2>6. CASE c.cmd = "DeleteCurve"
    <3>1. After(c) = store \/ After(c).ec_curves = Remove(store.ec_curves, c.curve)
      BY <2>2, <2>3, <2>6 DEF After, dispatch, DeleteCurve
    <3> QED
      BY <3>1 DEF Remove
  <2>7. CASE c.cmd \notin CurveNames
    BY <2>1, <2>7, RestKeepsCurves DEF After
  <2> QED
    BY <2>4, <2>5, <2>6, <2>7 DEF CurveNames
<1>2. OInit => CountersInv
  BY DEF OInit, CountersInv, CountersOk, NewStore, Empty
<1> QED
  BY <1>1, <1>2, CountersStep, InductiveInit, InductiveStep, PTL DEF OSpec

-----------------------------------------------------------------------------
(***************************************************************************)
(* Metadata of every object.                                               *)
(***************************************************************************)
Recorded(s) == StrictEcdh => DOMAIN s.objects \subseteq DOMAIN s.metadata
RecordedInv == Recorded(store) /\ \A d \in disk : Recorded(d)

\* Every command records what it creates.
LEMMA DispatchRecords ==
    ASSUME NEW s, Good(s), CountersOk(s), Recorded(s), NEW c \in Commands, NEW active \in BOOLEAN
    PROVE  Recorded(dispatch(s, c, active).store)
<1> DEFINE t == dispatch(s, c, active).store
<1> SUFFICES ASSUME StrictEcdh PROVE DOMAIN t.objects \subseteq DOMAIN t.metadata
  BY DEF Recorded
<1>0. DOMAIN s.objects \subseteq DOMAIN s.metadata
  BY DEF Recorded
<1>1. CASE c.cmd \in WriteNames
  <2>1. WritesOne(s, c, t)
    BY <1>1, WritesPutOne
  <2> HIDE DEF t
  <2>2. CASE t = s
    BY <1>0, <2>2
  <2>3. ASSUME NEW o, Puts(s, t, c.id, o) PROVE DOMAIN t.objects \subseteq DOMAIN t.metadata
    <3>1. DOMAIN t.objects = DOMAIN s.objects \cup {c.id}
      BY <2>3 DEF Puts, Insert
    <3> QED
      BY <1>0, <2>3, <3>1 DEF Puts
  <2> QED
    BY <2>1, <2>2, <2>3 DEF WritesOne
<1>2. CASE c.cmd = "ECDH"
  <2>1. t = handle_ecdh(s, c).store
    BY <1>2 DEF dispatch
  <2> HIDE DEF t
  <2>2. t = s \/ \E o : t = insert(s, c.target, o) /\ c.target \in DOMAIN s.objects
    BY <2>1, EcdhPutsOne DEF exists
  <2>3. \A o : /\ insert(s, c.target, o).objects = Insert(s.objects, c.target, o)
               /\ insert(s, c.target, o).metadata = s.metadata
    BY InsertFields DEF Good
  <2>4. CASE t = s
    BY <1>0, <2>4
  <2>5. ASSUME NEW o, t = insert(s, c.target, o), c.target \in DOMAIN s.objects
        PROVE  DOMAIN t.objects \subseteq DOMAIN t.metadata
    <3>1. DOMAIN t.objects = DOMAIN s.objects \cup {c.target} /\ t.metadata = s.metadata
      BY <2>3, <2>5 DEF Insert
    <3> QED
      BY <1>0, <2>5, <3>1
  <2> QED
    BY <2>2, <2>4, <2>5
<1>3. CASE c.cmd = "DeleteObject"
  <2>1. t = handle_delete(s, c).store
    BY <1>3 DEF dispatch
  <2> HIDE DEF t
  <2>2. \/ t = s
        \/ t.objects = Remove(s.objects, c.id) /\ t.metadata = Remove(s.metadata, c.id)
    BY <2>1, DeleteRemoves
  <2> QED
    BY <1>0, <2>2 DEF Remove
<1>4. CASE c.cmd = "DeleteAll"
  <2>1. t = clear(s)
    BY <1>4 DEF dispatch, handle_delete_all, success, Reply
  <2> HIDE DEF t
  <2> QED
    BY <2>1, ClearFields DEF Empty
<1>5. CASE c.cmd \notin WriteNames \cup {"ECDH", "DeleteObject", "DeleteAll"}
  <2>1. t.objects = s.objects /\ t.metadata = s.metadata
    BY <1>5, RestKeepsBoth
  <2> HIDE DEF t
  <2> QED
    BY <1>0, <2>1
<1> QED
  BY <1>1, <1>2, <1>3, <1>4, <1>5

\* Every object has the metadata it was created with, provided that the process does not die
\* inside a command and that no write of the file is refused: a creation saves the store before
\* it records the metadata, and the second save must not be the one that is lost.  A torn file is
\* harmless, since it is read as no file (write handlers, object_store/mod.rs).
THEOREM MetadataComplete ==
    ASSUME ~Crashes, "refused" \notin SaveOutcomes
    PROVE  OSpec => []ObjectsHaveMetadata
<1>1. OInit => RecordedInv
  BY DEF OInit, RecordedInv, Recorded, NewStore, Empty
<1>2. ASSUME NEW s, Good(s), Recorded(s), NEW d, NEW e \in persist(d, s)
      PROVE  (\A x \in e : Recorded(x)) \/ (~Persistent /\ e = d)
  <2>1. Document(s).objects = s.objects /\ Document(s).metadata = s.metadata
    BY <1>2 DEF Good, IsStore, Fields, Document
  <2>2. Recorded(Document(s))
    BY <1>2, <2>1 DEF Recorded
  <2>3. (~Persistent /\ e = d) \/ e = {} \/ e = {Document(s)}
    BY <1>2, PersistenceAssumption DEF persist
  <2> QED
    BY <2>2, <2>3
<1>3. ASSUME NEW d, \A x \in d : Recorded(x) PROVE Recorded(load(d))
  <2>1. Recorded(NewStore)
    BY DEF Recorded, NewStore, Empty
  <2> QED
    BY <1>3, <2>1 DEF load
<1>4. IInv /\ CountersInv /\ RecordedInv /\ [ONext]_ovars => RecordedInv'
  <2> SUFFICES ASSUME IInv, CountersInv, RecordedInv, [ONext]_ovars PROVE RecordedInv'
    OBVIOUS
  <2>0. /\ Good(store) /\ CountersOk(store) /\ Recorded(store)
        /\ \A d \in disk : Recorded(d)
    BY DEF IInv, CountersInv, RecordedInv
  <2>1. ASSUME NEW c \in Commands, NEW active \in BOOLEAN, Command(c, active)
        PROVE  RecordedInv'
    <3> DEFINE r == dispatch(store, c, active)
    <3>1. Good(r.store) /\ Recorded(r.store)
      BY <2>0, DispatchOk, DispatchRecords DEF CommandOk, StepOk
    <3>2. store' = r.store /\ disk' \in SavedBy(disk, c, store, r)
      BY <2>1 DEF Command
    <3> HIDE DEF r
    <3>3. \A x \in disk' : Recorded(x)
      <4>1. CASE disk' = disk
        BY <2>0, <4>1
      <4>2. CASE disk' \in persist(disk, r.store)
        BY <1>2, <2>0, <3>1, <4>2
      <4>3. ASSUME NEW e \in persist(disk, Inserted(store, r.store)), disk' \in persist(e, r.store)
            PROVE  \A x \in disk' : Recorded(x)
        <5>1. ~Persistent => e = disk
          BY <4>3 DEF persist
        <5> QED
          BY <1>2, <2>0, <3>1, <4>3, <5>1
      <4> QED
        BY <3>2, <4>1, <4>2, <4>3 DEF SavedBy
    <3> QED
      BY <3>1, <3>2, <3>3 DEF RecordedInv
  <2>2. ASSUME NEW c \in Commands, NEW active \in BOOLEAN, Crash(c, active)
        PROVE  RecordedInv'
    BY <2>2 DEF Crash
  <2>3. ASSUME NEW key \in PlatformKeys, PutKey(key)
        PROVE  RecordedInv'
    <3>1. Good(store')
      BY InductiveStep DEF IInv
    <3>2. store'.objects = store.objects /\ store'.metadata = store.metadata
      BY <2>0, <2>3 DEF PutKey, Good, IsStore, Fields
    <3>3. Recorded(store')
      BY <2>0, <3>2 DEF Recorded
    <3>4. disk' \in persist(disk, store')
      BY <2>3 DEF PutKey
    <3> QED
      BY <1>2, <2>0, <3>1, <3>3, <3>4 DEF RecordedInv
  <2>4. CASE Restart
    BY <1>3, <2>0, <2>4 DEF Restart, RecordedInv
  <2>5. CASE UNCHANGED ovars
    BY <2>5 DEF ovars, RecordedInv
  <2> QED
    BY <2>1, <2>2, <2>3, <2>4, <2>5 DEF ONext
<1>5. OInit => CountersInv
  BY DEF OInit, CountersInv, CountersOk, NewStore, Empty
<1>6. RecordedInv => ObjectsHaveMetadata
  BY DEF RecordedInv, Recorded, ObjectsHaveMetadata
<1> QED
  BY <1>1, <1>4, <1>5, <1>6, CountersStep, InductiveInit, InductiveStep, PTL DEF OSpec

-----------------------------------------------------------------------------
(***************************************************************************)
(* Running digests, ciphers and MACs.                                      *)
(***************************************************************************)
DigestFields == {"kind", "algo", "data"}
CipherFields == {"kind", "encrypting", "mode", "key_id", "chain", "pending"}
MacFields == {"kind", "algo", "validate", "key_id", "data"}

\* A context that belongs to a crypto object of that type.
Belongs(ctx, type) ==
    \/ /\ ctx.kind = "Digest" /\ type = <<DIGEST, ctx.algo>>
       /\ ctx = [f \in DigestFields |-> ctx[f]]
    \/ /\ ctx.kind = "Cipher" /\ type = <<CIPHER, ctx.mode>>
       /\ ctx = [f \in CipherFields |-> ctx[f]]
    \/ /\ ctx.kind = "Mac" /\ type = <<SIGNATURE, ctx.algo>>
       /\ ctx = [f \in MacFields |-> ctx[f]]

TypesOk(types) == \A x \in DOMAIN types : types[x] = <<types[x][1], types[x][2]>>
RunningOk(running, types) ==
    \A x \in DOMAIN running : x \in DOMAIN types /\ Belongs(running[x], types[x])
ContextsOk(s) ==
    TypesOk(s.crypto_object_types) /\ RunningOk(s.crypto_objects, s.crypto_object_types)

\* Where the two maps stay, so does what they say of each other.
LEMMA SameContexts ==
    ASSUME NEW s, ContextsOk(s), NEW t, t.crypto_objects = s.crypto_objects,
           t.crypto_object_types = s.crypto_object_types
    PROVE  ContextsOk(t)
BY DEF ContextsOk

\* A store whose running contexts are replaced.
LEMMA ContextFields ==
    ASSUME NEW s, IsStore(s), NEW v
    PROVE  LET t == [s EXCEPT !.crypto_objects = v]
           IN  t.crypto_objects = v /\ t.crypto_object_types = s.crypto_object_types
BY DEF IsStore, Fields

\* A context that belongs to its crypto object is started or goes on; any may be taken out.
LEMMA SetContext ==
    ASSUME NEW s, IsStore(s), ContextsOk(s), NEW x \in DOMAIN s.crypto_object_types, NEW ctx,
           Belongs(ctx, s.crypto_object_types[x])
    PROVE  /\ ContextsOk([s EXCEPT !.crypto_objects = Insert(@, x, ctx)])
           /\ ContextsOk([s EXCEPT !.crypto_objects[x] = ctx])
<1>1. ASSUME NEW v, RunningOk(v, s.crypto_object_types)
      PROVE  ContextsOk([s EXCEPT !.crypto_objects = v])
  BY <1>1, ContextFields DEF ContextsOk
<1>2. RunningOk(s.crypto_objects, s.crypto_object_types)
  BY DEF ContextsOk
<1>3. RunningOk(Insert(s.crypto_objects, x, ctx), s.crypto_object_types)
  BY <1>2 DEF RunningOk, Insert
<1> DEFINE v == [s.crypto_objects EXCEPT ![x] = ctx]
<1>4. /\ DOMAIN v = DOMAIN s.crypto_objects
      /\ \A y \in DOMAIN v : (v[y] = ctx /\ y = x) \/ v[y] = s.crypto_objects[y]
  OBVIOUS
<1>5. [s EXCEPT !.crypto_objects[x] = ctx] = [s EXCEPT !.crypto_objects = v]
  OBVIOUS
<1> HIDE DEF v
<1>6. RunningOk(v, s.crypto_object_types)
  BY <1>2, <1>4 DEF RunningOk
<1> QED
  BY <1>1, <1>3, <1>5, <1>6

\* Taking a context out of the table leaves the others where they belong.
LEMMA TakeContext ==
    ASSUME NEW s, IsStore(s), ContextsOk(s), NEW x
    PROVE  ContextsOk(Take(s, x))
<1>1. RunningOk(Remove(s.crypto_objects, x), s.crypto_object_types)
  BY DEF ContextsOk, RunningOk, Remove
<1> QED
  BY <1>1, ContextFields DEF ContextsOk, Take

\* The contexts that the Init commands start, and what the Update commands make of them.
LEMMA StartedBelongs ==
    ASSUME NEW types, TypesOk(types), NEW x \in DOMAIN types, NEW a, NEW b, NEW d, NEW e
    PROVE  /\ types[x][1] = DIGEST =>
                Belongs([kind |-> "Digest", algo |-> types[x][2], data |-> a], types[x])
           /\ types[x][1] = CIPHER =>
                Belongs([kind |-> "Cipher", encrypting |-> a, mode |-> types[x][2], key_id |-> b,
                         chain |-> d, pending |-> e], types[x])
           /\ types[x][1] = SIGNATURE =>
                Belongs([kind |-> "Mac", algo |-> types[x][2], validate |-> a, key_id |-> b,
                         data |-> d], types[x])
<1>1. types[x] = <<types[x][1], types[x][2]>>
  BY DEF TypesOk
<1> DEFINE digest == [kind |-> "Digest", algo |-> types[x][2], data |-> a]
           cipher == [kind |-> "Cipher", encrypting |-> a, mode |-> types[x][2], key_id |-> b,
                      chain |-> d, pending |-> e]
           mac == [kind |-> "Mac", algo |-> types[x][2], validate |-> a, key_id |-> b, data |-> d]
<1>2. /\ digest.kind = "Digest" /\ digest.algo = types[x][2]
      /\ digest = [f \in DigestFields |-> digest[f]]
  BY DEF DigestFields
<1>3. /\ cipher.kind = "Cipher" /\ cipher.mode = types[x][2]
      /\ cipher = [f \in CipherFields |-> cipher[f]]
  BY DEF CipherFields
<1>4. /\ mac.kind = "Mac" /\ mac.algo = types[x][2]
      /\ mac = [f \in MacFields |-> mac[f]]
  BY DEF MacFields
<1> HIDE DEF digest, cipher, mac
<1>5. /\ types[x][1] = DIGEST => Belongs(digest, types[x])
      /\ types[x][1] = CIPHER => Belongs(cipher, types[x])
      /\ types[x][1] = SIGNATURE => Belongs(mac, types[x])
  BY <1>1, <1>2, <1>3, <1>4 DEF Belongs
<1> QED
  BY <1>5 DEF digest, cipher, mac

\* A context that goes on with more data belongs to the same crypto object.
LEMMA ContinuedBelongs ==
    ASSUME NEW ctx, NEW type, Belongs(ctx, type), NEW data, NEW chain, NEW rest
    PROVE  /\ ctx.kind \in {"Digest", "Mac"} => Belongs([ctx EXCEPT !.data = data], type)
           /\ ctx.kind = "Cipher" => Belongs(Continued(ctx, chain, rest), type)
<1> DEFINE d == [ctx EXCEPT !.data = data]
           e == [ctx EXCEPT !.chain = chain, !.pending = rest]
<1>1. CASE ctx.kind = "Digest"
  <2>1. ctx = [f \in DigestFields |-> ctx[f]] /\ type = <<DIGEST, ctx.algo>>
    BY <1>1 DEF Belongs
  <2>2. d.kind = "Digest" /\ d.algo = ctx.algo /\ d = [f \in DigestFields |-> d[f]]
    BY <1>1, <2>1 DEF DigestFields
  <2> HIDE DEF d
  <2>3. Belongs(d, type)
    BY <2>1, <2>2 DEF Belongs
  <2> QED
    BY <1>1, <2>3 DEF d
<1>2. CASE ctx.kind = "Mac"
  <2>1. ctx = [f \in MacFields |-> ctx[f]] /\ type = <<SIGNATURE, ctx.algo>>
    BY <1>2 DEF Belongs
  <2>2. d.kind = "Mac" /\ d.algo = ctx.algo /\ d = [f \in MacFields |-> d[f]]
    BY <1>2, <2>1 DEF MacFields
  <2> HIDE DEF d
  <2>3. Belongs(d, type)
    BY <2>1, <2>2 DEF Belongs
  <2> QED
    BY <1>2, <2>3 DEF d
<1>3. CASE ctx.kind = "Cipher"
  <2>1. ctx = [f \in CipherFields |-> ctx[f]] /\ type = <<CIPHER, ctx.mode>>
    BY <1>3 DEF Belongs
  <2>2. e.kind = "Cipher" /\ e.mode = ctx.mode /\ e = [f \in CipherFields |-> e[f]]
    BY <1>3, <2>1 DEF CipherFields
  <2> HIDE DEF e
  <2>3. Belongs(e, type)
    BY <2>1, <2>2 DEF Belongs
  <2> QED
    BY <1>3, <2>3 DEF e, Continued
<1> QED
  BY <1>1, <1>2, <1>3 DEF Belongs

\* Crypto objects are created before their contexts and deleted with them (crypto_obj.rs).
LEMMA CryptoObjectsOk ==
    ASSUME NEW s, IsStore(s), ContextsOk(s), NEW c
    PROVE  /\ ContextsOk(CreateCryptoObject(s, c).store)
           /\ ContextsOk(DeleteCryptoObject(s, c).store)
<1> DEFINE types == Insert(s.crypto_object_types, c.crypto, <<c.context, c.algo>>)
           fewer == Remove(s.crypto_object_types, c.crypto)
           running == Remove(s.crypto_objects, c.crypto)
           t == [s EXCEPT !.crypto_object_types = types]
           u == [s EXCEPT !.crypto_object_types = fewer, !.crypto_objects = running]
<1>1. TypesOk(s.crypto_object_types) /\ RunningOk(s.crypto_objects, s.crypto_object_types)
  BY DEF ContextsOk
<1>2. c.crypto \notin DOMAIN s.crypto_object_types => TypesOk(types) /\ RunningOk(s.crypto_objects, types)
  BY <1>1 DEF TypesOk, RunningOk, Insert
<1>3. TypesOk(fewer) /\ RunningOk(running, fewer)
  BY <1>1 DEF TypesOk, RunningOk, Remove
<1> HIDE DEF types, fewer, running
<1>4. /\ t.crypto_object_types = types /\ t.crypto_objects = s.crypto_objects
      /\ u.crypto_object_types = fewer /\ u.crypto_objects = running
  BY DEF IsStore, Fields
<1>5. /\ CreateCryptoObject(s, c).store = s
         \/ (c.crypto \notin DOMAIN s.crypto_object_types /\ CreateCryptoObject(s, c).store = t)
      /\ DeleteCryptoObject(s, c).store = s \/ DeleteCryptoObject(s, c).store = u
  BY DEF CreateCryptoObject, DeleteCryptoObject, error, success, Reply, types, fewer, running
<1> HIDE DEF t, u
<1> QED
  BY <1>2, <1>3, <1>4, <1>5 DEF ContextsOk

\* Init starts a context of the type of the crypto object, Update continues one of the right kind
\* and Final takes it out (digest.rs, aes.rs, mac.rs).
LEMMA StreamsOk ==
    ASSUME NEW s, IsStore(s), ContextsOk(s), NEW c
    PROVE  /\ ContextsOk(handle_digest_init(s, c).store)
           /\ ContextsOk(handle_cipher_init(s, c).store)
           /\ ContextsOk(handle_mac_init(s, c).store)
           /\ ContextsOk(handle_digest_update(s, c).store)
           /\ ContextsOk(handle_cipher_update(s, c).store)
           /\ ContextsOk(handle_mac_update(s, c).store)
           /\ ContextsOk(handle_digest_final(s, c).store)
           /\ ContextsOk(handle_cipher_final(s, c).store)
           /\ ContextsOk(handle_mac_final(s, c).store)
<1>1. /\ \A t, sw : error(t, sw).store = t
      /\ \A t, out : success_with(t, out).store = t
      /\ \A t : success(t).store = t
  BY DEF error, success, success_with, Reply
<1>2. ASSUME NEW x \in DOMAIN s.crypto_object_types, NEW ctx, Belongs(ctx, s.crypto_object_types[x])
      PROVE  ContextsOk(Start(s, x, ctx).store)
  <2>1. ContextsOk([s EXCEPT !.crypto_objects = Insert(@, x, ctx)])
    BY <1>2, SetContext
  <2>2. Start(s, x, ctx).store = [s EXCEPT !.crypto_objects = Insert(@, x, ctx)]
    BY DEF Start, success, Reply
  <2> QED
    BY <2>1, <2>2
<1>3. TypesOk(s.crypto_object_types)
  BY DEF ContextsOk
<1>4. \A context, a, b, d, e : IsType(s, c.crypto, context) =>
        /\ context = DIGEST =>
             ContextsOk(Start(s, c.crypto, [kind |-> "Digest", algo |-> Subtype(s, c.crypto),
                                            data |-> a]).store)
        /\ context = CIPHER =>
             ContextsOk(Start(s, c.crypto,
                [kind |-> "Cipher", encrypting |-> a, mode |-> Subtype(s, c.crypto), key_id |-> b,
                 chain |-> d, pending |-> e]).store)
        /\ context = SIGNATURE =>
             ContextsOk(Start(s, c.crypto,
                [kind |-> "Mac", algo |-> Subtype(s, c.crypto), validate |-> a, key_id |-> b,
                 data |-> d]).store)
  BY <1>2, <1>3, StartedBelongs DEF IsType, Subtype
<1>5. ContextsOk(handle_digest_init(s, c).store)
  BY <1>1, <1>4 DEF handle_digest_init
<1>6. ContextsOk(handle_cipher_init(s, c).store)
  BY <1>1, <1>4 DEF handle_cipher_init
<1>7. ContextsOk(handle_mac_init(s, c).store)
  BY <1>1, <1>4 DEF handle_mac_init
<1> DEFINE ctx == s.crypto_objects[c.crypto]
<1>8. c.crypto \in DOMAIN s.crypto_objects =>
        c.crypto \in DOMAIN s.crypto_object_types /\ Belongs(ctx, s.crypto_object_types[c.crypto])
  BY DEF ContextsOk, RunningOk
<1>9. ASSUME Running(s, c.crypto, "Digest") \/ Running(s, c.crypto, "Mac")
      PROVE  ContextsOk([s EXCEPT !.crypto_objects[c.crypto].data = @ \o c.data])
  <2> DEFINE next == [ctx EXCEPT !.data = @ \o c.data]
  <2>1. [s EXCEPT !.crypto_objects[c.crypto].data = @ \o c.data]
          = [s EXCEPT !.crypto_objects[c.crypto] = next]
    OBVIOUS
  <2>2. Belongs(next, s.crypto_object_types[c.crypto]) /\ c.crypto \in DOMAIN s.crypto_object_types
    BY <1>8, <1>9, ContinuedBelongs DEF Running
  <2> HIDE DEF next
  <2>3. ContextsOk([s EXCEPT !.crypto_objects[c.crypto] = next])
    BY <2>2, SetContext
  <2> QED
    BY <2>1, <2>3
<1>10. ASSUME Running(s, c.crypto, "Cipher"), NEW chain, NEW rest
       PROVE  ContextsOk([s EXCEPT !.crypto_objects[c.crypto] = Continued(@, chain, rest)])
  <2>1. Belongs(Continued(ctx, chain, rest), s.crypto_object_types[c.crypto])
        /\ c.crypto \in DOMAIN s.crypto_object_types
    BY <1>8, <1>10, ContinuedBelongs DEF Running
  <2>2. [s EXCEPT !.crypto_objects[c.crypto] = Continued(@, chain, rest)]
          = [s EXCEPT !.crypto_objects[c.crypto] = Continued(ctx, chain, rest)]
    OBVIOUS
  <2>3. ContextsOk([s EXCEPT !.crypto_objects[c.crypto] = Continued(ctx, chain, rest)])
    BY <2>1, SetContext
  <2> QED
    BY <2>2, <2>3
<1>11. ContextsOk(handle_digest_update(s, c).store)
  BY <1>1, <1>9 DEF handle_digest_update
<1>12. ContextsOk(handle_mac_update(s, c).store)
  BY <1>1, <1>9 DEF handle_mac_update
<1> DEFINE Ok(r) == ContextsOk(r.store)
<1>13. ContextsOk(Take(s, c.crypto))
  BY TakeContext
<1>14. /\ \A sw : Ok(error(s, sw)) /\ Ok(error(Take(s, c.crypto), sw))
       /\ \A out : Ok(success_with(Take(s, c.crypto), out))
  BY <1>1, <1>13
<1>15. Running(s, c.crypto, "Cipher") => \A chain, rest, out :
         Ok(success_with([s EXCEPT !.crypto_objects[c.crypto] = Continued(@, chain, rest)], out))
  BY <1>1, <1>10
<1> HIDE DEF Ok
<1>16. Ok(handle_cipher_update(s, c))
  BY <1>14, <1>15 DEF handle_cipher_update
<1>17. Ok(handle_digest_final(s, c))
  BY <1>14 DEF handle_digest_final
<1>18. Ok(handle_cipher_final(s, c))
  BY <1>14 DEF handle_cipher_final
<1>19. Ok(handle_mac_final(s, c))
  BY <1>14 DEF handle_mac_final, MacAnswer
<1> QED
  BY <1>5, <1>6, <1>7, <1>11, <1>12, <1>16, <1>17, <1>18, <1>19 DEF Ok

\* The other commands leave the contexts alone, or clear them with their crypto objects.
LEMMA DispatchKeepsContexts ==
    ASSUME NEW s, Good(s), CountersOk(s), ContextsOk(s), NEW c \in Commands, NEW active \in BOOLEAN
    PROVE  ContextsOk(dispatch(s, c, active).store)
<1> DEFINE t == dispatch(s, c, active).store
<1> SUFFICES ContextsOk(t)
  OBVIOUS
<1>0. IsStore(s) /\ StoreType(s)
  BY DEF Good
<1>1. CASE c.cmd \in ContextNames
  BY <1>0, <1>1, StreamsOk, CryptoObjectsOk DEF dispatch, ContextNames
<1>2. CASE c.cmd \in WriteNames
  <2>1. WritesOne(s, c, t)
    BY <1>2, WritesPutOne
  <2> HIDE DEF t
  <2>2. t.crypto_objects = s.crypto_objects /\ t.crypto_object_types = s.crypto_object_types
    BY <2>1 DEF WritesOne, Puts
  <2> QED
    BY <2>2, SameContexts
<1>3. CASE c.cmd = "ECDH"
  <2>1. t = handle_ecdh(s, c).store
    BY <1>3 DEF dispatch
  <2> HIDE DEF t
  <2>2. t = s \/ \E o : t = insert(s, c.target, o)
    BY <2>1, EcdhPutsOne
  <2>3. \A o : /\ insert(s, c.target, o).crypto_objects = s.crypto_objects
               /\ insert(s, c.target, o).crypto_object_types = s.crypto_object_types
    BY <1>0, InsertFields
  <2>4. t.crypto_objects = s.crypto_objects /\ t.crypto_object_types = s.crypto_object_types
    BY <2>2, <2>3
  <2> QED
    BY <2>4, SameContexts
<1>4. CASE c.cmd = "DeleteObject"
  <2>1. t = handle_delete(s, c).store
    BY <1>4 DEF dispatch
  <2> HIDE DEF t
  <2>2. t.crypto_objects = s.crypto_objects /\ t.crypto_object_types = s.crypto_object_types
    BY <2>1, DeleteRemoves
  <2> QED
    BY <2>2, SameContexts
<1>5. CASE c.cmd = "DeleteAll"
  <2>1. t = clear(s)
    BY <1>5 DEF dispatch, handle_delete_all, success, Reply
  <2> HIDE DEF t
  <2>2. t.crypto_objects = Empty /\ t.crypto_object_types = Empty
    BY <2>1, ClearFields
  <2> QED
    BY <2>2 DEF ContextsOk, TypesOk, RunningOk, Empty
<1>6. CASE c.cmd \in CurveNames \cup {"SetPlatformSCP"}
  <2>1. /\ SetCurveParam(s, c).store.crypto_objects = s.crypto_objects
        /\ CreateCurve(s, c).store.crypto_objects = s.crypto_objects
        /\ DeleteCurve(s, c).store.crypto_objects = s.crypto_objects
        /\ handle_set_platform_scp(s, c, active).store.crypto_objects = s.crypto_objects
    BY <1>0 DEF CreateCurve, SetCurveParam, DeleteCurve, handle_set_platform_scp, error, success,
                Reply, IsStore, Fields
  <2>2. /\ SetCurveParam(s, c).store.crypto_object_types = s.crypto_object_types
        /\ CreateCurve(s, c).store.crypto_object_types = s.crypto_object_types
        /\ DeleteCurve(s, c).store.crypto_object_types = s.crypto_object_types
        /\ handle_set_platform_scp(s, c, active).store.crypto_object_types = s.crypto_object_types
    BY <1>0 DEF CreateCurve, SetCurveParam, DeleteCurve, handle_set_platform_scp, error, success,
                Reply, IsStore, Fields
  <2>3. \/ t = SetCurveParam(s, c).store \/ t = CreateCurve(s, c).store
        \/ t = DeleteCurve(s, c).store \/ t = handle_set_platform_scp(s, c, active).store
    <3>1. CASE c.cmd = "SetPlatformSCP"
      BY <3>1 DEF dispatch
    <3>2. CASE c.cmd = "CreateCurve"
      BY <3>2 DEF dispatch
    <3>3. CASE c.cmd = "SetCurveParam"
      BY <3>3 DEF dispatch
    <3>4. CASE c.cmd = "DeleteCurve"
      BY <3>4 DEF dispatch
    <3> QED
      BY <1>6, <3>1, <3>2, <3>3, <3>4 DEF CurveNames
  <2> HIDE DEF t
  <2>4. t.crypto_objects = s.crypto_objects /\ t.crypto_object_types = s.crypto_object_types
    BY <2>1, <2>2, <2>3
  <2> QED
    BY <2>4, SameContexts
<1>7. CASE c.cmd \in {"Sign", "Verify", "RsaEncrypt", "RsaDecrypt", "CipherOneShot",
                      "DigestOneShot", "MacOneShot"}
  <2>1. t = s
    BY <1>7, OneShotsKeepStore DEF dispatch
  <2> QED
    BY <2>1
<1>8. CASE c.cmd \in ReadNames \cup {"WriteUserID", "ReadObject", "ReadRsaComponent",
                        "ListCryptoObjects", "ListCurves", "GetRandom", "GetFreeMemory",
                        "CheckExists"}
  <2>1. t = s
    BY <1>0, <1>8, ReadsKeepStore DEF dispatch, ReadNames
  <2> QED
    BY <2>1
<1>9. CASE c.cmd \notin WriteNames \cup CurveNames \cup ContextNames \cup ReadNames
              \cup {"DeleteAll", "DeleteObject", "ECDH", "SetPlatformSCP", "Sign", "Verify",
                    "RsaEncrypt", "RsaDecrypt", "CipherOneShot", "DigestOneShot", "MacOneShot",
                    "WriteUserID", "ReadObject", "ReadRsaComponent", "ListCryptoObjects",
                    "ListCurves", "GetRandom", "GetFreeMemory", "CheckExists"}
  <2>1. t = s
    BY <1>9 DEF dispatch, error, success_with, Reply, WriteNames, CurveNames, ContextNames,
                ReadNames
  <2> QED
    BY <2>1
<1> QED
  BY <1>1, <1>2, <1>3, <1>4, <1>5, <1>6, <1>7, <1>8, <1>9

ContextsInv == ContextsOk(store)

\* A store that was just loaded has no contexts.
LEMMA LoadedContexts ==
    ASSUME NEW d, \A x \in d : Good(x) /\ x = Document(x)
    PROVE  ContextsOk(load(d))
<1>1. Document(load(d)) = load(d) /\ Good(load(d))
  BY LoadIsGood, LoadedIsDocument
<1>2. \A s : Good(s) => Document(s).crypto_objects = Empty /\ Document(s).crypto_object_types = Empty
  BY DEF Good, IsStore, Fields, Document
<1>3. load(d).crypto_objects = Empty /\ load(d).crypto_object_types = Empty
  BY <1>1, <1>2
<1> QED
  BY <1>3 DEF ContextsOk, TypesOk, RunningOk, Empty

\* Every command, crash, key rotation and restart keeps the contexts with their crypto objects.
LEMMA ContextsStep == IInv /\ CountersInv /\ ContextsInv /\ [ONext]_ovars => ContextsInv'
<1> SUFFICES ASSUME IInv, CountersInv, ContextsOk(store), [ONext]_ovars PROVE ContextsOk(store')
  BY DEF ContextsInv
<1>0. /\ Good(store) /\ CountersOk(store)
      /\ \A d \in disk : Good(d) /\ d = Document(d)
      /\ \A d \in disk' : Good(d) /\ d = Document(d)
  BY InductiveStep DEF IInv, CountersInv
<1>1. ASSUME NEW c \in Commands, NEW active \in BOOLEAN, Command(c, active)
      PROVE  ContextsOk(store')
  BY <1>0, <1>1, DispatchKeepsContexts DEF Command
<1>2. ASSUME NEW c \in Commands, NEW active \in BOOLEAN, Crash(c, active)
      PROVE  ContextsOk(store')
  BY LoadedContexts, <1>0, <1>2 DEF Crash
<1>3. ASSUME NEW key \in PlatformKeys, PutKey(key)
      PROVE  ContextsOk(store')
  <2>1. /\ store'.crypto_objects = store.crypto_objects
        /\ store'.crypto_object_types = store.crypto_object_types
    BY <1>0, <1>3 DEF PutKey, Good, IsStore, Fields
  <2> QED
    BY <2>1, SameContexts
<1>4. CASE Restart
  BY LoadedContexts, <1>0, <1>4 DEF Restart
<1>5. CASE UNCHANGED ovars
  BY <1>5 DEF ovars
<1> QED
  BY <1>1, <1>2, <1>3, <1>4, <1>5 DEF ONext

\* A running digest, cipher or MAC belongs to a crypto object that exists, of its kind and with its
\* algorithm, whatever crypto objects are created, initialised, fed, finished and deleted in
\* whatever order, and across restarts, which forget both (crypto_obj.rs, digest.rs, aes.rs, mac.rs).
THEOREM ContextsBelong == OSpec => []ContextsMatchCryptoObjects
<1>1. OInit => CountersInv /\ ContextsInv
  BY DEF OInit, CountersInv, ContextsInv, CountersOk, ContextsOk, TypesOk, RunningOk, NewStore, Empty
<1>4. ContextsInv => ContextsMatchCryptoObjects
  <2> SUFFICES ASSUME ContextsOk(store), NEW x \in DOMAIN store.crypto_objects
               PROVE  LET ctx == store.crypto_objects[x]
                      IN  /\ x \in DOMAIN store.crypto_object_types
                          /\ store.crypto_object_types[x] =
                               CASE ctx.kind = "Digest" -> <<DIGEST, ctx.algo>>
                                 [] ctx.kind = "Cipher" -> <<CIPHER, ctx.mode>>
                                 [] ctx.kind = "Mac" -> <<SIGNATURE, ctx.algo>>
    BY DEF ContextsMatchCryptoObjects, ContextsInv
  <2> DEFINE ctx == store.crypto_objects[x]
             type == store.crypto_object_types[x]
  <2>1. x \in DOMAIN store.crypto_object_types /\ Belongs(ctx, type)
    BY DEF ContextsOk, RunningOk
  <2> HIDE DEF ctx, type
  <2>2. type = CASE ctx.kind = "Digest" -> <<DIGEST, ctx.algo>>
                 [] ctx.kind = "Cipher" -> <<CIPHER, ctx.mode>>
                 [] ctx.kind = "Mac" -> <<SIGNATURE, ctx.algo>>
    BY <2>1 DEF Belongs
  <2> QED
    BY <2>1, <2>2 DEF ctx, type
<1> QED
  BY <1>1, <1>4, ContextsStep, CountersStep, InductiveInit, InductiveStep, PTL DEF OSpec

-----------------------------------------------------------------------------
(***************************************************************************)
(* Multi-step ciphers: what goes in comes out or is pending.               *)
(***************************************************************************)
IsSeq(s) == \E S : s \in Seq(S)

\* What went into a cipher is either in the blocks that came out or pending.
Accounted(fed, out, pending) ==
    /\ fed \in Seq(Nat) /\ IsSeq(out)
    /\ Len(pending) < Block
    /\ Len(fed) = Block * Len(out) + Len(pending)
    /\ pending = SubSeq(fed, Block * Len(out) + 1, Len(fed))

\* The length of a join is the sum of the lengths, whatever the items are.
LEMMA JoinSequences ==
    ASSUME NEW s, NEW t, IsSeq(s), IsSeq(t)
    PROVE  IsSeq(s \o t) /\ Len(s \o t) = Len(s) + Len(t) /\ Len(s) \in Nat /\ Len(t) \in Nat
<1>1. PICK S : s \in Seq(S)
  BY DEF IsSeq
<1>2. PICK T : t \in Seq(T)
  BY DEF IsSeq
<1>3. s \in Seq(S \cup T) /\ t \in Seq(S \cup T)
  BY <1>1, <1>2
<1>4. s \o t \in Seq(S \cup T) /\ Len(s \o t) = Len(s) + Len(t)
  BY <1>3, ConcatProperties
<1> QED
  BY <1>1, <1>2, <1>4, LenProperties DEF IsSeq

\* The part of n bytes that is cut into whole blocks, and their number.
LEMMA WholeBlocks ==
    ASSUME NEW n \in Nat
    PROVE  LET aligned == n - (n % Block)
               blocks == (aligned + Block - 1) \div Block
           IN  /\ aligned \in Nat /\ aligned <= n /\ n - aligned < Block
               /\ blocks \in Nat /\ Block * blocks = aligned
               /\ aligned % Block = 0
<1> DEFINE aligned == n - (n % Block)
           blocks == (aligned + Block - 1) \div Block
<1>0. Block \in Nat \ {0}
  BY BlockAssumption
<1>1. PICK q \in Nat, r \in 0..(Block - 1) : n = (q * Block) + r
  BY <1>0, Divided
<1>2. n % Block = r
  BY <1>0, <1>1, Remainder
<1>3. q * Block \in Nat
  BY <1>0
<1>4. aligned = q * Block
  BY <1>0, <1>1, <1>2, <1>3
<1>5. (q * Block) + (Block - 1) = q * Block + (Block - 1) /\ Block - 1 \in 0..(Block - 1)
  BY <1>0
<1>6. (q * Block + (Block - 1)) \div Block = q
  BY <1>0, <1>3
<1>7. aligned + Block - 1 = q * Block + (Block - 1)
  BY <1>0, <1>3, <1>4
<1>8. blocks = q
  BY <1>6, <1>7
<1>9. aligned % Block = 0
  <2>1. aligned = (q * Block) + 0 /\ 0 \in 0..(Block - 1)
    BY <1>0, <1>3, <1>4
  <2> HIDE DEF aligned
  <2> QED
    BY <1>0, <2>1, Remainder
<1>10. aligned \in Nat /\ aligned <= n /\ n - aligned < Block
  BY <1>0, <1>1, <1>3, <1>4
<1>11. Block * blocks = aligned
  BY <1>0, <1>4, <1>8
<1> QED
  BY <1>8, <1>9, <1>10, <1>11

\* The blocks that n bytes take.
BlocksIn(n) == (n + Block - 1) \div Block

\* What an update makes of whole blocks.
Processed(mode, key, chain, data, encrypting) ==
    apply_mode(mode, key, chain, data, encrypting, FALSE)

\* apply_mode gives one block of output for every block of input.
LEMMA ModeOutput ==
    ASSUME NEW mode, NEW key, NEW chain, NEW data \in Seq(Nat), NEW encrypting,
           NEW r, r = Processed(mode, key, chain, data, encrypting), r.sw = NO_ERROR
    PROVE  IsSeq(r.out) /\ Len(r.out) = BlocksIn(Len(data))
<1> DEFINE n == (Len(data) + Block - 1) \div Block
<1>1. n \in Nat
  BY BlockAssumption
<1>2. DOMAIN Blocks(data) = 1..n
  BY DEF Blocks
<1> HIDE DEF n
<1>3. ASSUME NEW f, f = [i \in DOMAIN Blocks(data) |-> f[i]]
      PROVE  IsSeq(f) /\ Len(f) = n
  <2>1. f \in [1..n -> {f[i] : i \in 1..n}]
    BY <1>2, <1>3
  <2>2. f \in Seq({f[i] : i \in 1..n})
    BY <1>1, <2>1, SeqDef
  <2>3. DOMAIN f = 1..n /\ Len(f) \in Nat /\ DOMAIN f = 1..Len(f)
    BY <2>1, <2>2, LenProperties
  <2> QED
    BY <1>1, <2>2, <2>3 DEF IsSeq
<1>4. /\ IsSeq(ecb_process(key.v, data, encrypting)) /\ Len(ecb_process(key.v, data, encrypting)) = n
      /\ IsSeq(cbc_process(key.v, chain, data, encrypting))
      /\ Len(cbc_process(key.v, chain, data, encrypting)) = n
      /\ IsSeq(ctr_process(key.v, chain, data)) /\ Len(ctr_process(key.v, chain, data)) = n
  <2>1. ecb_process(key.v, data, encrypting) =
          [i \in DOMAIN Blocks(data) |-> ecb_process(key.v, data, encrypting)[i]]
    BY DEF ecb_process
  <2>2. cbc_process(key.v, chain, data, encrypting) =
          [i \in DOMAIN Blocks(data) |-> cbc_process(key.v, chain, data, encrypting)[i]]
    BY DEF cbc_process
  <2>3. ctr_process(key.v, chain, data) =
          [i \in DOMAIN Blocks(data) |-> ctr_process(key.v, chain, data)[i]]
    BY DEF ctr_process
  <2> QED
    BY <1>3, <2>1, <2>2, <2>3
<1>5. \/ r.out = ecb_process(key.v, data, encrypting)
      \/ r.out = cbc_process(key.v, chain, data, encrypting)
      \/ r.out = ctr_process(key.v, chain, data)
  BY DEF Processed, apply_mode, Modes, NO_ERROR, CONDITIONS_NOT_SATISFIED, WRONG_DATA
<1> QED
  BY <1>4, <1>5 DEF n, BlocksIn

\* What is left of a string after its first a bytes, and two strings in a row.
LEMMA CutString ==
    ASSUME NEW s \in Seq(Nat), NEW a \in Nat, a <= Len(s)
    PROVE  /\ SubSeq(s, a + 1, Len(s)) \in Seq(Nat)
           /\ Len(SubSeq(s, a + 1, Len(s))) = Len(s) - a
           /\ \A i \in 1..(Len(s) - a) : SubSeq(s, a + 1, Len(s))[i] = s[a + i]
<1> DEFINE n == Len(s)
           t == SubSeq(s, a + 1, n)
<1>1. n \in Nat /\ \A i \in (a + 1)..n : s[i] \in Nat
  BY LenProperties
<1>2. a <= n
  OBVIOUS
<1> HIDE DEF n
<1>3. /\ t \in Seq(Nat)
      /\ Len(t) = (IF a + 1 <= n THEN n - (a + 1) + 1 ELSE 0)
      /\ \A i \in 1..(n - (a + 1) + 1) : t[i] = s[(a + 1) + i - 1]
  BY <1>1, SubSeqProperties
<1> HIDE DEF t
<1>4. n - (a + 1) + 1 = n - a /\ Len(t) = n - a
  BY <1>1, <1>2, <1>3
<1>5. \A i \in 1..(n - a) : t[i] = s[a + i]
  <2> TAKE i \in 1..(n - a)
  <2>1. (a + 1) + i - 1 = a + i
    BY <1>1
  <2> QED
    BY <1>3, <1>4, <2>1
<1> QED
  BY <1>3, <1>4, <1>5 DEF t, n

\* The first bytes of a string are a string of that length.
LEMMA FirstBytes ==
    ASSUME NEW s \in Seq(Nat), NEW a \in Nat, a <= Len(s)
    PROVE  SubSeq(s, 1, a) \in Seq(Nat) /\ Len(SubSeq(s, 1, a)) = a
<1> DEFINE t == SubSeq(s, 1, a)
<1>1. \A i \in 1..a : s[i] \in Nat
  BY LenProperties
<1>2. t \in Seq(Nat) /\ Len(t) = IF 1 <= a THEN a - 1 + 1 ELSE 0
  BY <1>1, SubSeqProperties
<1> HIDE DEF t
<1>3. Len(t) = a
  BY <1>2
<1> QED
  BY <1>2, <1>3 DEF t

\* Where the bytes of two strings are in their join.
LEMMA JoinStrings ==
    ASSUME NEW s \in Seq(Nat), NEW t \in Seq(Nat)
    PROVE  /\ s \o t \in Seq(Nat) /\ Len(s) \in Nat /\ Len(t) \in Nat
           /\ Len(s \o t) = Len(s) + Len(t)
           /\ \A i \in 1..Len(s) : (s \o t)[i] = s[i]
           /\ \A i \in 1..Len(t) : (s \o t)[Len(s) + i] = t[i]
<1> DEFINE u == s \o t
           n == Len(s)
           m == Len(t)
<1>1. n \in Nat /\ m \in Nat
  BY LenProperties
<1>2. /\ u \in Seq(Nat) /\ Len(u) = n + m
      /\ \A i \in 1..(n + m) : u[i] = IF i <= n THEN s[i] ELSE t[i - n]
  BY ConcatProperties
<1> HIDE DEF u, n, m
<1>3. \A i \in 1..n : i \in 1..(n + m) /\ i <= n
  BY <1>1
<1>4. \A i \in 1..m : n + i \in 1..(n + m) /\ ~(n + i <= n) /\ (n + i) - n = i
  BY <1>1
<1>5. \A i \in 1..n : u[i] = s[i]
  BY <1>2, <1>3
<1>6. \A i \in 1..m : u[n + i] = t[i]
  <2> TAKE i \in 1..m
  <2>1. n + i \in 1..(n + m) /\ ~(n + i <= n) /\ (n + i) - n = i
    BY <1>4
  <2> DEFINE j == n + i
  <2>2. j \in 1..(n + m) /\ ~(j <= n) /\ j - n = i
    BY <2>1
  <2> HIDE DEF j
  <2>3. u[j] = t[j - n]
    BY <1>2, <2>2
  <2> QED
    BY <2>2, <2>3 DEF j
<1> QED
  BY <1>1, <1>2, <1>5, <1>6 DEF u, n, m

\* The arithmetic of the lengths in an update: q bytes came out before, p are pending, d
\* arrive and a of them are whole blocks.
LEMMA Lengths ==
    ASSUME NEW q \in Nat, NEW p \in Nat, NEW d \in Nat, NEW f, f = q + p, NEW m, m = p + d,
           NEW a \in Nat, a <= m, NEW z, z = q + a
    PROVE  f + d = z + (m - a) /\ z \in Nat /\ z <= f + d /\ (f + d) - z = m - a
OBVIOUS

\* The whole blocks of what was pending and what arrives come out, and the rest is pending.
LEMMA UpdateAccounted ==
    ASSUME NEW fed, NEW out, NEW pending, Accounted(fed, out, pending),
           NEW data \in Seq(Nat), NEW blocks, IsSeq(blocks),
           NEW buffered, buffered = pending \o data,
           NEW aligned, aligned = Len(buffered) - (Len(buffered) % Block),
           Len(blocks) = (aligned + Block - 1) \div Block
    PROVE  Accounted(fed \o data, out \o blocks, SubSeq(buffered, aligned + 1, Len(buffered)))
<1> DEFINE q == Block * Len(out)
           f == Len(fed)
           p == Len(pending)
           d == Len(data)
           m == Len(buffered)
           all == fed \o data
           rest == SubSeq(buffered, aligned + 1, m)
<1>0. fed \in Seq(Nat) /\ f \in Nat /\ d \in Nat
  BY LenProperties DEF Accounted
<1>1. Block \in Nat /\ Len(out) \in Nat
  BY BlockAssumption, JoinSequences DEF Accounted
<1>2. q \in Nat
  BY <1>1
<1>3. f = q + p /\ p < Block /\ pending = SubSeq(fed, q + 1, f)
  BY DEF Accounted
<1>4. SubSeq(fed, q + 1, f) \in Seq(Nat)
  BY <1>0, <1>2, SubSeqProperties
<1>5. pending \in Seq(Nat) /\ p \in Nat
  BY <1>3, <1>4, LenProperties
<1>6. \A i \in 1..p : pending[i] = fed[q + i]
  <2> HIDE DEF q, p, f
  <2>1. q <= f /\ f - q = p
    BY <1>0, <1>2, <1>3, <1>5
  <2> QED
    BY <1>0, <1>2, <1>3, <2>1, CutString DEF f
<1>7. /\ buffered \in Seq(Nat) /\ m = p + d /\ m \in Nat
      /\ \A i \in 1..p : buffered[i] = pending[i]
      /\ \A i \in 1..d : buffered[p + i] = data[i]
  BY <1>5, JoinStrings, LenProperties
<1>8. /\ all \in Seq(Nat) /\ Len(all) = f + d
      /\ \A i \in 1..f : all[i] = fed[i]
      /\ \A i \in 1..d : all[f + i] = data[i]
  BY <1>0, JoinStrings
<1>9. /\ aligned \in Nat /\ aligned <= m /\ m - aligned < Block
      /\ Len(blocks) \in Nat /\ Block * Len(blocks) = aligned
  BY <1>7, WholeBlocks
<1>10. /\ rest \in Seq(Nat) /\ Len(rest) = m - aligned
       /\ \A i \in 1..(m - aligned) : rest[i] = buffered[aligned + i]
  BY <1>7, <1>9, CutString
<1>11. IsSeq(out \o blocks) /\ Len(out \o blocks) = Len(out) + Len(blocks)
  BY JoinSequences DEF Accounted
<1> DEFINE z == Block * Len(out \o blocks)
<1>12. z = q + aligned
  BY <1>1, <1>9, <1>11
<1> HIDE DEF q, f, p, d, m, all, rest, z
<1>a. /\ q \in Nat /\ f \in Nat /\ p \in Nat /\ d \in Nat /\ m \in Nat /\ aligned \in Nat
      /\ f = q + p /\ m = p + d /\ aligned <= m /\ z = q + aligned
  BY <1>0, <1>2, <1>3, <1>5, <1>7, <1>9, <1>12
<1>13. ASSUME NEW i \in 1..m PROVE all[q + i] = buffered[i]
  <2>1. CASE i <= p
    <3>1. i \in 1..p /\ q + i \in 1..f
      BY <1>a, <2>1
    <3> QED
      BY <1>6, <1>7, <1>8, <3>1
  <2>2. CASE i > p
    <3>1. i - p \in 1..d /\ p + (i - p) = i /\ f + (i - p) = q + i
      BY <1>a, <2>2
    <3>2. buffered[p + (i - p)] = data[i - p] /\ all[f + (i - p)] = data[i - p]
      BY <1>7, <1>8, <3>1
    <3> QED
      BY <3>1, <3>2
  <2>3. i <= p \/ i > p
    BY <1>a
  <2> QED
    BY <2>1, <2>2, <2>3
<1>14. Len(all) = z + Len(rest) /\ z \in Nat /\ z <= Len(all) /\ Len(all) - z = m - aligned
  <2>1. Len(all) = f + d /\ Len(rest) = m - aligned
    BY <1>8, <1>10
  <2>2. f + d = z + (m - aligned)
    BY <1>a, Lengths
  <2>3. z \in Nat
    BY <1>a
  <2>4. z <= f + d
    BY <1>a, Lengths
  <2>5. (f + d) - z = m - aligned
    BY <1>a, Lengths
  <2> QED
    BY <2>1, <2>2, <2>3, <2>4, <2>5
<1> DEFINE tail == SubSeq(all, z + 1, Len(all))
<1>15. /\ tail \in Seq(Nat) /\ Len(tail) = m - aligned
       /\ \A i \in 1..(m - aligned) : tail[i] = all[z + i]
  BY <1>8, <1>14, CutString
<1> HIDE DEF tail
<1>16. ASSUME NEW i \in 1..(m - aligned) PROVE tail[i] = rest[i]
  <2>1. aligned + i \in 1..m /\ z + i = q + (aligned + i)
    BY <1>a
  <2>2. tail[i] = all[q + (aligned + i)] /\ rest[i] = buffered[aligned + i]
    BY <1>10, <1>15, <2>1
  <2>3. all[q + (aligned + i)] = buffered[aligned + i]
    BY <1>13, <2>1
  <2> QED
    BY <2>2, <2>3
<1>17. tail = rest
  BY <1>10, <1>15, <1>16, SeqEqual
<1>18. Len(rest) < Block
  BY <1>9, <1>10
<1>19. Accounted(all, out \o blocks, rest)
  BY <1>8, <1>11, <1>14, <1>17, <1>18 DEF Accounted, tail, z
<1> QED
  BY <1>19 DEF all, rest, m

-----------------------------------------------------------------------------
\* g is f with ctx at x.
Sets(f, g, x, ctx) ==
    /\ DOMAIN g = DOMAIN f \cup {x}
    /\ g[x] = ctx
    /\ \A y \in DOMAIN f : y # x => g[y] = f[y]

Aligned(b) == Len(b) - (Len(b) % Block)

\* What an update does to the pending bytes of a cipher.
CipherStep(pending, data, blocks, rest) ==
    /\ IsSeq(blocks)
    /\ Len(blocks) = BlocksIn(Aligned(pending \o data))
    /\ rest = SubSeq(pending \o data, Aligned(pending \o data) + 1, Len(pending \o data))

\* What a command may do to the running contexts: drop some, start one or continue one.
Drops(s, c, r) ==
    /\ DOMAIN r.store.crypto_objects \subseteq DOMAIN s.crypto_objects
    /\ \A x \in DOMAIN r.store.crypto_objects : r.store.crypto_objects[x] = s.crypto_objects[x]
    /\ c.cmd \in Inits \cup Updates => r.sw # NO_ERROR

Starts(s, c, r) ==
    /\ c.cmd \in Inits /\ r.sw = NO_ERROR
    /\ \E ctx : /\ Sets(s.crypto_objects, r.store.crypto_objects, c.crypto, ctx)
                /\ ctx.kind = "Cipher" => ctx.pending = <<>>

Continues(s, c, r) ==
    /\ c.cmd \in Updates /\ r.sw = NO_ERROR /\ c.crypto \in DOMAIN s.crypto_objects
    /\ \E ctx :
         /\ Sets(s.crypto_objects, r.store.crypto_objects, c.crypto, ctx)
         /\ ctx.kind = "Cipher" =>
              /\ s.crypto_objects[c.crypto].kind = "Cipher"
              /\ CipherStep(s.crypto_objects[c.crypto].pending, c.data, r.out, ctx.pending)

PendingOk(s) ==
    \A x \in DOMAIN s.crypto_objects :
      s.crypto_objects[x].kind = "Cipher" => s.crypto_objects[x].pending \in Seq(Nat)

\* The status words of the refusals of a multi-step command are not the one of a success.
LEMMA ErrorsAreErrors ==
    /\ WRONG_DATA # NO_ERROR /\ CONDITIONS_NOT_SATISFIED # NO_ERROR
    /\ COMMAND_NOT_ALLOWED # NO_ERROR
BY DEF WRONG_DATA, CONDITIONS_NOT_SATISFIED, COMMAND_NOT_ALLOWED, NO_ERROR

\* An Init command that succeeds starts a context with nothing pending, and one that is refused
\* changes none (handle_digest_init, handle_cipher_init, handle_mac_init).
LEMMA InitsStart ==
    ASSUME NEW s, IsStore(s), NEW c
    PROVE  /\ c.cmd = "DigestInit" =>
                Drops(s, c, handle_digest_init(s, c)) \/ Starts(s, c, handle_digest_init(s, c))
           /\ c.cmd = "CipherInit" =>
                Drops(s, c, handle_cipher_init(s, c)) \/ Starts(s, c, handle_cipher_init(s, c))
           /\ c.cmd = "MacInit" =>
                Drops(s, c, handle_mac_init(s, c)) \/ Starts(s, c, handle_mac_init(s, c))
<1>1. ASSUME NEW sw, sw # NO_ERROR PROVE Drops(s, c, error(s, sw))
  BY <1>1 DEF Drops, error, Reply
<1>2. ASSUME NEW ctx, ctx.kind = "Cipher" => ctx.pending = <<>>, c.cmd \in Inits
      PROVE  Starts(s, c, Start(s, c.crypto, ctx))
  <2> DEFINE t == [s EXCEPT !.crypto_objects = Insert(@, c.crypto, ctx)]
             r == Start(s, c.crypto, ctx)
  <2>1. t.crypto_objects = Insert(s.crypto_objects, c.crypto, ctx)
    BY DEF IsStore, Fields
  <2>2. r.store = t /\ r.sw = NO_ERROR
    BY DEF Start, success, Reply
  <2> HIDE DEF t, r
  <2>3. Sets(s.crypto_objects, r.store.crypto_objects, c.crypto, ctx)
    BY <2>1, <2>2 DEF Sets, Insert
  <2>4. Starts(s, c, r)
    BY <1>2, <2>2, <2>3 DEF Starts
  <2> QED
    BY <2>4 DEF r
<1>3. c.cmd = "DigestInit" =>
        Drops(s, c, handle_digest_init(s, c)) \/ Starts(s, c, handle_digest_init(s, c))
  <2> DEFINE ctx == [kind |-> "Digest", algo |-> Subtype(s, c.crypto), data |-> <<>>]
  <2>1. ctx.kind = "Cipher" => ctx.pending = <<>>
    OBVIOUS
  <2>2. \/ \E sw \in {WRONG_DATA, CONDITIONS_NOT_SATISFIED} : handle_digest_init(s, c) = error(s, sw)
        \/ handle_digest_init(s, c) = Start(s, c.crypto, ctx)
    BY DEF handle_digest_init
  <2> HIDE DEF ctx
  <2> QED
    BY <1>1, <1>2, <2>1, <2>2, ErrorsAreErrors DEF Inits
<1>4. c.cmd = "CipherInit" =>
        Drops(s, c, handle_cipher_init(s, c)) \/ Starts(s, c, handle_cipher_init(s, c))
  <2> DEFINE ctx == [kind |-> "Cipher", encrypting |-> c.encrypting, mode |-> Subtype(s, c.crypto),
                     key_id |-> c.id, chain |-> Initial(c.iv), pending |-> <<>>]
  <2>1. ctx.kind = "Cipher" => ctx.pending = <<>>
    OBVIOUS
  <2>2. \/ \E sw \in {WRONG_DATA, CONDITIONS_NOT_SATISFIED} : handle_cipher_init(s, c) = error(s, sw)
        \/ handle_cipher_init(s, c) = Start(s, c.crypto, ctx)
    BY DEF handle_cipher_init
  <2> HIDE DEF ctx
  <2> QED
    BY <1>1, <1>2, <2>1, <2>2, ErrorsAreErrors DEF Inits
<1>5. c.cmd = "MacInit" =>
        Drops(s, c, handle_mac_init(s, c)) \/ Starts(s, c, handle_mac_init(s, c))
  <2> DEFINE ctx == [kind |-> "Mac", algo |-> Subtype(s, c.crypto), validate |-> c.validate,
                     key_id |-> c.id, data |-> <<>>]
  <2>1. ctx.kind = "Cipher" => ctx.pending = <<>>
    OBVIOUS
  <2>2. \/ \E sw \in {WRONG_DATA, CONDITIONS_NOT_SATISFIED} : handle_mac_init(s, c) = error(s, sw)
        \/ handle_mac_init(s, c) = Start(s, c.crypto, ctx)
    BY DEF handle_mac_init
  <2> HIDE DEF ctx
  <2> QED
    BY <1>1, <1>2, <2>1, <2>2, ErrorsAreErrors DEF Inits
<1> QED
  BY <1>3, <1>4, <1>5

\* Finishing, creating and deleting only drop contexts: the Final handlers take the context out
\* of the table before they can fail.
LEMMA FinalsDrop ==
    ASSUME NEW s, IsStore(s), NEW c, c.cmd \notin Inits \cup Updates
    PROVE  /\ Drops(s, c, handle_digest_final(s, c))
           /\ Drops(s, c, handle_cipher_final(s, c))
           /\ Drops(s, c, handle_mac_final(s, c))
           /\ Drops(s, c, CreateCryptoObject(s, c))
           /\ Drops(s, c, DeleteCryptoObject(s, c))
<1> DEFINE t == Take(s, c.crypto)
<1>1. t.crypto_objects = Remove(s.crypto_objects, c.crypto)
  BY DEF Take, IsStore, Fields
<1> HIDE DEF t
<1>2. \A u : (u = s \/ u = t) => /\ \A sw : Drops(s, c, error(u, sw))
                                /\ \A out : Drops(s, c, success_with(u, out))
  BY <1>1 DEF Drops, error, success_with, Reply, Remove
<1>3. Drops(s, c, handle_digest_final(s, c))
  BY <1>2 DEF handle_digest_final, t
<1>4. Drops(s, c, handle_cipher_final(s, c))
  BY <1>2 DEF handle_cipher_final, t
<1>5. Drops(s, c, handle_mac_final(s, c))
  BY <1>2 DEF handle_mac_final, MacAnswer, t
<1>6. Drops(s, c, CreateCryptoObject(s, c))
  <2> DEFINE u == [s EXCEPT !.crypto_object_types = Insert(@, c.crypto, <<c.context, c.algo>>)]
  <2>1. u.crypto_objects = s.crypto_objects
    BY DEF IsStore, Fields
  <2> HIDE DEF u
  <2>2. Drops(s, c, success(u))
    BY <2>1 DEF Drops, success, Reply
  <2> QED
    BY <1>2, <2>2 DEF CreateCryptoObject, u
<1>7. Drops(s, c, DeleteCryptoObject(s, c))
  <2> DEFINE u == [s EXCEPT !.crypto_object_types = Remove(@, c.crypto),
                            !.crypto_objects = Remove(@, c.crypto)]
  <2>1. u.crypto_objects = Remove(s.crypto_objects, c.crypto)
    BY DEF IsStore, Fields
  <2> HIDE DEF u
  <2>2. Drops(s, c, success(u))
    BY <2>1 DEF Drops, success, Reply, Remove
  <2> QED
    BY <1>2, <2>2 DEF DeleteCryptoObject, u
<1> QED
  BY <1>3, <1>4, <1>5, <1>6, <1>7

\* A running context of a kind and the one that an update makes of it.
LEMMA SetsContext ==
    ASSUME NEW s, IsStore(s), NEW x \in DOMAIN s.crypto_objects, NEW ctx
    PROVE  Sets(s.crypto_objects, [s EXCEPT !.crypto_objects[x] = ctx].crypto_objects, x, ctx)
<1> DEFINE v == [s.crypto_objects EXCEPT ![x] = ctx]
<1>1. Sets(s.crypto_objects, v, x, ctx)
  BY DEF Sets
<1>2. [s EXCEPT !.crypto_objects[x] = ctx] = [s EXCEPT !.crypto_objects = v]
  OBVIOUS
<1> HIDE DEF v
<1>3. [s EXCEPT !.crypto_objects = v].crypto_objects = v
  BY DEF IsStore, Fields
<1> QED
  BY <1>1, <1>2, <1>3

\* An update of a digest or a MAC gathers its data in the context, or is refused and leaves it.
LEMMA GathersContinue ==
    ASSUME NEW s, IsStore(s), ContextsOk(s), NEW c
    PROVE  /\ c.cmd = "DigestUpdate" => \/ Drops(s, c, handle_digest_update(s, c))
                                        \/ Continues(s, c, handle_digest_update(s, c))
           /\ c.cmd = "MacUpdate" => \/ Drops(s, c, handle_mac_update(s, c))
                                     \/ Continues(s, c, handle_mac_update(s, c))
<1> DEFINE x == c.crypto
           ctx == s.crypto_objects[x]
           next == [ctx EXCEPT !.data = @ \o c.data]
           t == [s EXCEPT !.crypto_objects[x] = next]
<1>1. ASSUME NEW sw, sw # NO_ERROR PROVE Drops(s, c, error(s, sw))
  BY <1>1 DEF Drops, error, Reply
<1>2. ASSUME Running(s, x, "Digest") \/ Running(s, x, "Mac"), c.cmd \in Updates
      PROVE  Continues(s, c, success(t))
  <2>1. x \in DOMAIN s.crypto_objects /\ ctx.kind # "Cipher"
    BY <1>2 DEF Running
  <2>2. next.kind # "Cipher"
    <3>1. Belongs(ctx, s.crypto_object_types[x])
      BY <2>1 DEF ContextsOk, RunningOk
    <3>2. \/ ctx = [f \in DigestFields |-> ctx[f]]
          \/ ctx = [f \in MacFields |-> ctx[f]]
      BY <2>1, <3>1 DEF Belongs
    <3>3. next.kind = ctx.kind
      BY <3>2 DEF DigestFields, MacFields
    <3> QED
      BY <2>1, <3>3
  <2> HIDE DEF next
  <2>3. Sets(s.crypto_objects, t.crypto_objects, x, next)
    BY <2>1, SetsContext
  <2>4. success(t).store = t /\ success(t).sw = NO_ERROR
    BY DEF success, Reply
  <2> HIDE DEF t
  <2> QED
    BY <1>2, <2>1, <2>2, <2>3, <2>4 DEF Continues
<1>3. [s EXCEPT !.crypto_objects[c.crypto].data = @ \o c.data] = t
  OBVIOUS
<1> HIDE DEF t
<1>4. \/ \E sw \in {WRONG_DATA, CONDITIONS_NOT_SATISFIED} : handle_digest_update(s, c) = error(s, sw)
      \/ Running(s, x, "Digest") /\ handle_digest_update(s, c) = success(t)
  BY <1>3 DEF handle_digest_update
<1>5. \/ \E sw \in {WRONG_DATA, CONDITIONS_NOT_SATISFIED} : handle_mac_update(s, c) = error(s, sw)
      \/ Running(s, x, "Mac") /\ handle_mac_update(s, c) = success(t)
  BY <1>3 DEF handle_mac_update
<1> QED
  BY <1>1, <1>2, <1>4, <1>5, ErrorsAreErrors DEF Updates

\* An update of a cipher processes the whole blocks of what was pending and what arrives and
\* keeps the rest (handle_cipher_update), or is refused.
LEMMA CipherContinues ==
    ASSUME NEW s, IsStore(s), ContextsOk(s), PendingOk(s), NEW c, c.data \in Seq(Nat),
           c.cmd = "CipherUpdate"
    PROVE  Drops(s, c, handle_cipher_update(s, c)) \/ Continues(s, c, handle_cipher_update(s, c))
<1> DEFINE x == c.crypto
           ctx == s.crypto_objects[x]
           buffered == ctx.pending \o c.data
           aligned == Aligned(buffered)
           input == SubSeq(buffered, 1, aligned)
           rest == SubSeq(buffered, aligned + 1, Len(buffered))
           r == apply_mode(ctx.mode, s.objects[ctx.key_id].key, ctx.chain, input,
                           ctx.encrypting, FALSE)
           next == Continued(ctx, r.chain, rest)
           t == [s EXCEPT !.crypto_objects[x] = next]
           reply == success_with(t, r.out)
<1>1. ASSUME NEW sw, sw # NO_ERROR PROVE Drops(s, c, error(s, sw))
  BY <1>1 DEF Drops, error, Reply
<1>2. [s EXCEPT !.crypto_objects[x] = Continued(@, r.chain, rest)] = t
  OBVIOUS
<1>3. \/ \E sw : sw # NO_ERROR /\ handle_cipher_update(s, c) = error(s, sw)
      \/ /\ Running(s, x, "Cipher") /\ r.sw = NO_ERROR
         /\ handle_cipher_update(s, c) = reply
  BY <1>2, ErrorsAreErrors DEF handle_cipher_update, Aligned
<1>4. ASSUME Running(s, x, "Cipher"), r.sw = NO_ERROR
      PROVE  Continues(s, c, reply)
  <2>1. x \in DOMAIN s.crypto_objects /\ ctx.kind = "Cipher" /\ ctx.pending \in Seq(Nat)
    BY <1>4 DEF Running, PendingOk
  <2>2. buffered \in Seq(Nat) /\ Len(buffered) \in Nat
    BY <2>1, ConcatProperties, LenProperties
  <2>3. aligned \in Nat /\ aligned <= Len(buffered)
    BY <2>2, WholeBlocks DEF Aligned
  <2>4. input \in Seq(Nat) /\ Len(input) = aligned
    BY <2>2, <2>3, FirstBytes
  <2>5. IsSeq(r.out) /\ Len(r.out) = BlocksIn(aligned)
    <3> HIDE DEF input, aligned
    <3>1. r = Processed(ctx.mode, s.objects[ctx.key_id].key, ctx.chain, input, ctx.encrypting)
      BY DEF Processed
    <3> HIDE DEF r
    <3>2. IsSeq(r.out) /\ Len(r.out) = BlocksIn(Len(input))
      <4>2. input \in Seq(Nat) /\ r.sw = NO_ERROR
        BY <1>4, <2>4
      <4> DEFINE mode == ctx.mode
                 key == s.objects[ctx.key_id].key
                 chain == ctx.chain
                 encrypting == ctx.encrypting
      <4>3. r = Processed(mode, key, chain, input, encrypting)
        BY <3>1
      <4> HIDE DEF mode, key, chain, encrypting
      <4> QED
        BY <4>2, <4>3, ModeOutput
    <3> QED
      BY <2>4, <3>2
  <2> HIDE DEF r
  <2>6. next.kind = "Cipher" /\ next.pending = rest
    <3>1. Belongs(ctx, s.crypto_object_types[x])
      BY <2>1 DEF ContextsOk, RunningOk
    <3>2. ctx = [f \in CipherFields |-> ctx[f]]
      BY <2>1, <3>1 DEF Belongs
    <3> HIDE DEF rest
    <3> QED
      BY <2>1, <3>2 DEF CipherFields, Continued
  <2>7. CipherStep(ctx.pending, c.data, r.out, rest)
    BY <2>5 DEF CipherStep
  <2> HIDE DEF next, rest
  <2>8. Sets(s.crypto_objects, t.crypto_objects, x, next)
    BY <2>1, SetsContext
  <2>9. reply.store = t /\ reply.sw = NO_ERROR /\ reply.out = r.out
    BY DEF success_with, Reply
  <2> HIDE DEF t, reply
  <2> QED
    BY <2>1, <2>6, <2>7, <2>8, <2>9 DEF Continues, Updates
<1> QED
  BY <1>1, <1>3, <1>4

\* What the dispatcher does to the running contexts.
LEMMA DispatchEffect ==
    ASSUME NEW s, Good(s), CountersOk(s), ContextsOk(s), PendingOk(s), NEW c \in Commands
    PROVE  LET r == dispatch(s, c, TRUE)
           IN  Drops(s, c, r) \/ Starts(s, c, r) \/ Continues(s, c, r)
<1> DEFINE r == dispatch(s, c, TRUE)
           t == r.store
<1> SUFFICES Drops(s, c, r) \/ Starts(s, c, r) \/ Continues(s, c, r)
  OBVIOUS
<1>0. IsStore(s) /\ StoreType(s)
  BY DEF Good
<1>1. CASE c.cmd \in Inits
  <2>1. /\ c.cmd = "DigestInit" => r = handle_digest_init(s, c)
        /\ c.cmd = "CipherInit" => r = handle_cipher_init(s, c)
        /\ c.cmd = "MacInit" => r = handle_mac_init(s, c)
    BY DEF dispatch
  <2> HIDE DEF r
  <2> QED
    BY <1>0, <1>1, <2>1, InitsStart DEF Inits
<1>2. CASE c.cmd \in Updates
  <2>1. /\ c.cmd = "DigestUpdate" => r = handle_digest_update(s, c)
        /\ c.cmd = "CipherUpdate" => r = handle_cipher_update(s, c)
        /\ c.cmd = "MacUpdate" => r = handle_mac_update(s, c)
    BY DEF dispatch
  <2> HIDE DEF r
  <2>2. c.data \in Seq(Nat)
    BY <1>2, DataAssumption
  <2> QED
    BY <1>0, <1>2, <2>1, <2>2, GathersContinue, CipherContinues DEF Updates
<1>3. CASE c.cmd \in Finals \cup {"CreateCryptoObject", "DeleteCryptoObject"}
  <2>1. /\ c.cmd = "DigestFinal" => r = handle_digest_final(s, c)
        /\ c.cmd = "CipherFinal" => r = handle_cipher_final(s, c)
        /\ c.cmd = "MacFinal" => r = handle_mac_final(s, c)
        /\ c.cmd = "CreateCryptoObject" => r = CreateCryptoObject(s, c)
        /\ c.cmd = "DeleteCryptoObject" => r = DeleteCryptoObject(s, c)
    BY DEF dispatch
  <2> HIDE DEF r
  <2>2. c.cmd \notin Inits \cup Updates
    BY <1>3 DEF Inits, Updates, Finals
  <2> QED
    BY <1>0, <1>3, <2>1, <2>2, FinalsDrop DEF Finals
<1>4. ASSUME c.cmd \notin ContextNames,
             t.crypto_objects = s.crypto_objects \/ t.crypto_objects = Empty
      PROVE  Drops(s, c, r)
  <2>1. c.cmd \notin Inits \cup Updates
    BY <1>4 DEF ContextNames, Inits, Updates
  <2> HIDE DEF r
  <2> QED
    BY <1>4, <2>1 DEF Drops, Empty
<1>5. CASE c.cmd \in WriteNames
  <2>0. c.cmd \notin ContextNames
    BY <1>5 DEF WriteNames, ContextNames
  <2>1. WritesOne(s, c, t)
    BY <1>5, WritesPutOne
  <2> HIDE DEF t
  <2>2. t.crypto_objects = s.crypto_objects
    BY <2>1 DEF WritesOne, Puts
  <2> QED
    BY <1>4, <2>0, <2>2
<1>6. CASE c.cmd = "ECDH"
  <2>1. t = handle_ecdh(s, c).store /\ c.cmd \notin ContextNames
    BY <1>6 DEF dispatch, ContextNames
  <2> HIDE DEF t
  <2>2. t = s \/ \E o : t = insert(s, c.target, o)
    BY <2>1, EcdhPutsOne
  <2>3. \A o : insert(s, c.target, o).crypto_objects = s.crypto_objects
    BY <1>0, InsertFields
  <2> QED
    BY <1>4, <2>1, <2>2, <2>3
<1>7. CASE c.cmd = "DeleteObject"
  <2>1. t = handle_delete(s, c).store /\ c.cmd \notin ContextNames
    BY <1>7 DEF dispatch, ContextNames
  <2> HIDE DEF t
  <2>2. t.crypto_objects = s.crypto_objects
    BY <2>1, DeleteRemoves
  <2> QED
    BY <1>4, <2>1, <2>2
<1>8. CASE c.cmd = "DeleteAll"
  <2>1. t = clear(s) /\ c.cmd \notin ContextNames
    BY <1>8 DEF dispatch, handle_delete_all, success, Reply, ContextNames
  <2> HIDE DEF t
  <2>2. t.crypto_objects = Empty
    BY <2>1, ClearFields
  <2> QED
    BY <1>4, <2>1, <2>2
<1>9. CASE c.cmd \in CurveNames \cup {"SetPlatformSCP"}
  <2>1. /\ SetCurveParam(s, c).store.crypto_objects = s.crypto_objects
        /\ CreateCurve(s, c).store.crypto_objects = s.crypto_objects
        /\ DeleteCurve(s, c).store.crypto_objects = s.crypto_objects
        /\ handle_set_platform_scp(s, c, TRUE).store.crypto_objects = s.crypto_objects
    BY <1>0 DEF CreateCurve, SetCurveParam, DeleteCurve, handle_set_platform_scp, error, success,
                Reply, IsStore, Fields
  <2>2. /\ c.cmd = "SetPlatformSCP" => t = handle_set_platform_scp(s, c, TRUE).store
        /\ c.cmd = "CreateCurve" => t = CreateCurve(s, c).store
        /\ c.cmd = "SetCurveParam" => t = SetCurveParam(s, c).store
        /\ c.cmd = "DeleteCurve" => t = DeleteCurve(s, c).store
    BY DEF dispatch
  <2>3. c.cmd \notin ContextNames
    BY <1>9 DEF CurveNames, ContextNames
  <2> HIDE DEF t
  <2>4. t.crypto_objects = s.crypto_objects
    BY <1>9, <2>1, <2>2 DEF CurveNames
  <2> QED
    BY <1>4, <2>3, <2>4
<1>10. CASE c.cmd \in {"Sign", "Verify", "RsaEncrypt", "RsaDecrypt", "CipherOneShot",
                       "DigestOneShot", "MacOneShot"}
  <2>1. t = s /\ c.cmd \notin ContextNames
    BY <1>10, OneShotsKeepStore DEF dispatch, ContextNames
  <2> QED
    BY <1>4, <2>1
<1>11. CASE c.cmd \in ReadNames \cup {"WriteUserID", "ReadObject", "ReadRsaComponent",
                        "ListCryptoObjects", "ListCurves", "GetRandom", "GetFreeMemory",
                        "CheckExists"}
  <2>1. t = s /\ c.cmd \notin ContextNames
    BY <1>0, <1>11, ReadsKeepStore DEF dispatch, ReadNames, ContextNames
  <2> QED
    BY <1>4, <2>1
<1>12. CASE c.cmd \notin WriteNames \cup CurveNames \cup ContextNames \cup ReadNames
              \cup {"DeleteAll", "DeleteObject", "ECDH", "SetPlatformSCP", "Sign", "Verify",
                    "RsaEncrypt", "RsaDecrypt", "CipherOneShot", "DigestOneShot", "MacOneShot",
                    "WriteUserID", "ReadObject", "ReadRsaComponent", "ListCryptoObjects",
                    "ListCurves", "GetRandom", "GetFreeMemory", "CheckExists"}
  <2>1. t = s
    BY <1>12 DEF dispatch, error, success_with, Reply, WriteNames, CurveNames, ContextNames,
                ReadNames
  <2> QED
    BY <1>4, <1>12, <2>1
<1>13. c.cmd \in ContextNames =>
         c.cmd \in Inits \cup Updates \cup Finals \cup {"CreateCryptoObject", "DeleteCryptoObject"}
  BY DEF ContextNames, Inits, Updates, Finals
<1> HIDE DEF r, t
<1> QED
  BY <1>1, <1>2, <1>3, <1>5, <1>6, <1>7, <1>8, <1>9, <1>10, <1>11, <1>12, <1>13

-----------------------------------------------------------------------------
EntryFields == {"key_id", "key", "rekeyed", "iv", "fed", "out"}
IsEntry(e) == e = [f \in EntryFields |-> e[f]]

\* The inductive invariant: there is an entry of the history for every running context, and it
\* accounts for what is pending.
AccountedFor(running, entries) ==
    /\ DOMAIN entries = DOMAIN running
    /\ \A x \in DOMAIN running :
         /\ IsEntry(entries[x])
         /\ running[x].kind = "Cipher" =>
              Accounted(entries[x].fed, entries[x].out, running[x].pending)

StreamsInv == AccountedFor(store.crypto_objects, log)

\* The entry of a new context, one whose key was watched, and one that was fed.
LEMMA EntriesAre ==
    ASSUME NEW e, IsEntry(e), NEW c, NEW r
    PROVE  /\ IsEntry(Started(c)) /\ Started(c).fed = <<>> /\ Started(c).out = <<>>
           /\ IsEntry(Rekeyed(e, r)) /\ Rekeyed(e, r).fed = e.fed /\ Rekeyed(e, r).out = e.out
           /\ IsEntry(Fed(e, c, r)) /\ Fed(e, c, r).fed = e.fed \o c.data
           /\ Fed(e, c, r).out = e.out \o r.out
<1>1. IsEntry(Started(c)) /\ Started(c).fed = <<>> /\ Started(c).out = <<>>
  BY DEF IsEntry, EntryFields, Started
<1>2. IsEntry(Rekeyed(e, r)) /\ Rekeyed(e, r).fed = e.fed /\ Rekeyed(e, r).out = e.out
  BY DEF IsEntry, EntryFields, Rekeyed
<1>3. /\ IsEntry(Fed(e, c, r)) /\ Fed(e, c, r).fed = e.fed \o c.data
      /\ Fed(e, c, r).out = e.out \o r.out
  BY DEF IsEntry, EntryFields, Fed
<1> QED
  BY <1>1, <1>2, <1>3

\* A context that was just started accounts for nothing.
LEMMA NothingFed == Accounted(<<>>, <<>>, <<>>)
<1>1. Block \in Nat /\ 0 < Block
  BY BlockAssumption
<1>2. <<>> \in Seq(Nat) /\ IsSeq(<<>>) /\ Len(<<>>) = 0
  BY EmptySeq DEF IsSeq
<1>3. Block * 0 = 0
  BY <1>1
<1>4. SubSeq(<<>>, 0 + 1, 0) = <<>>
  BY SubSeqEmpty
<1> QED
  BY <1>1, <1>2, <1>3, <1>4 DEF Accounted

\* What is pending is a string of bytes, being the end of what was fed.
LEMMA PendingIsString ==
    ASSUME NEW fed, NEW out, NEW pending, Accounted(fed, out, pending)
    PROVE  pending \in Seq(Nat)
<1> DEFINE q == Block * Len(out)
<1>1. q \in Nat
  BY BlockAssumption, JoinSequences DEF Accounted
<1>2. fed \in Seq(Nat) /\ Len(fed) \in Nat /\ pending = SubSeq(fed, q + 1, Len(fed))
  BY LenProperties DEF Accounted
<1> HIDE DEF q
<1> QED
  BY <1>1, <1>2, SubSeqProperties

\* A command and its record in the history keep the account.
LEMMA AccountKept ==
    ASSUME NEW c \in Commands, NEW r, r = dispatch(store, c, TRUE),
           Good(store), CountersOk(store), ContextsOk(store), StreamsInv
    PROVE  AccountedFor(r.store.crypto_objects, Logged(c, r))
<1> DEFINE old == store.crypto_objects
           new == r.store.crypto_objects
           running == [x \in DOMAIN log \cap DOMAIN new |-> Rekeyed(log[x], r)]
<1>0. /\ DOMAIN log = DOMAIN old
      /\ \A x \in DOMAIN old :
           /\ IsEntry(log[x])
           /\ old[x].kind = "Cipher" => Accounted(log[x].fed, log[x].out, old[x].pending)
  BY DEF StreamsInv, AccountedFor
<1>1. PendingOk(store)
  <2> SUFFICES ASSUME NEW x \in DOMAIN old, old[x].kind = "Cipher"
               PROVE  old[x].pending \in Seq(Nat)
    BY DEF PendingOk
  <2>1. Accounted(log[x].fed, log[x].out, old[x].pending)
    BY <1>0
  <2> QED
    BY <2>1, PendingIsString
<1>2. Drops(store, c, r) \/ Starts(store, c, r) \/ Continues(store, c, r)
  BY <1>1, DispatchEffect
<1>3. \A x \in DOMAIN running : /\ IsEntry(running[x]) /\ running[x].fed = log[x].fed
                               /\ running[x].out = log[x].out
  BY <1>0, EntriesAre
<1>4. DOMAIN running = DOMAIN old \cap DOMAIN new
  BY <1>0
<1>5. /\ r.sw # NO_ERROR => Logged(c, r) = running
      /\ r.sw = NO_ERROR /\ c.cmd \in Inits => Logged(c, r) = Insert(running, c.crypto, Started(c))
      /\ r.sw = NO_ERROR /\ c.cmd \in Updates =>
           Logged(c, r) = Insert(running, c.crypto, Fed(running[c.crypto], c, r))
      /\ c.cmd \notin Inits \cup Updates => Logged(c, r) = running
  BY DEF Logged, Inits, Updates
<1> HIDE DEF running, old, new
<1>6. CASE Drops(store, c, r)
  <2>1. Logged(c, r) = running
    BY <1>5, <1>6 DEF Drops
  <2>2. DOMAIN new \subseteq DOMAIN old /\ \A x \in DOMAIN new : new[x] = old[x]
    BY <1>6 DEF Drops, old, new
  <2>3. AccountedFor(new, running)
    BY <1>0, <1>3, <1>4, <2>2 DEF AccountedFor
  <2> QED
    BY <2>1, <2>3 DEF new
<1>7. CASE Starts(store, c, r)
  <2> DEFINE x == c.crypto
             entry == Started(c)
  <2>1. Logged(c, r) = Insert(running, x, entry)
    BY <1>5, <1>7 DEF Starts
  <2>2. PICK ctx : Sets(old, new, x, ctx) /\ (ctx.kind = "Cipher" => ctx.pending = <<>>)
    BY <1>7 DEF Starts, old, new
  <2>3. IsEntry(entry) /\ entry.fed = <<>> /\ entry.out = <<>>
    BY DEF IsEntry, EntryFields, Started
  <2> HIDE DEF entry
  <2>4. AccountedFor(new, Insert(running, x, entry))
    <3>1. DOMAIN Insert(running, x, entry) = DOMAIN new
      BY <1>4, <2>2 DEF Sets, Insert
    <3>2. ASSUME NEW y \in DOMAIN new
          PROVE  /\ IsEntry(Insert(running, x, entry)[y])
                 /\ new[y].kind = "Cipher" =>
                      Accounted(Insert(running, x, entry)[y].fed, Insert(running, x, entry)[y].out,
                                new[y].pending)
      <4>1. CASE y = x
        <5>1. Insert(running, x, entry)[y] = entry /\ new[y] = ctx
          BY <2>2, <4>1 DEF Sets, Insert
        <5> QED
          BY <2>2, <2>3, <5>1, NothingFed
      <4>2. CASE y # x
        <5>1. /\ y \in DOMAIN running /\ y \in DOMAIN old /\ new[y] = old[y]
              /\ Insert(running, x, entry)[y] = running[y]
          BY <1>4, <2>2, <4>2 DEF Sets, Insert
        <5> QED
          BY <1>0, <1>3, <5>1
      <4> QED
        BY <4>1, <4>2
    <3> QED
      BY <3>1, <3>2 DEF AccountedFor
  <2> QED
    BY <2>1, <2>4 DEF new
<1>8. CASE Continues(store, c, r)
  <2> DEFINE x == c.crypto
             entry == Fed(running[x], c, r)
  <2>1. Logged(c, r) = Insert(running, x, entry)
    BY <1>5, <1>8 DEF Continues
  <2>2. PICK ctx : /\ Sets(old, new, x, ctx)
                   /\ ctx.kind = "Cipher" =>
                        old[x].kind = "Cipher" /\ CipherStep(old[x].pending, c.data, r.out, ctx.pending)
    BY <1>8 DEF Continues, old, new
  <2>3. x \in DOMAIN old /\ x \in DOMAIN running
    BY <1>4, <1>8, <2>2 DEF Continues, Sets, old
  <2>4. IsEntry(entry) /\ entry.fed = log[x].fed \o c.data /\ entry.out = log[x].out \o r.out
    <3> DEFINE e == running[x]
    <3>1. IsEntry(e) /\ e.fed = log[x].fed /\ e.out = log[x].out
      BY <1>3, <2>3
    <3>2. entry = Fed(e, c, r)
      OBVIOUS
    <3> HIDE DEF e, entry
    <3>3. /\ IsEntry(Fed(e, c, r)) /\ Fed(e, c, r).fed = e.fed \o c.data
          /\ Fed(e, c, r).out = e.out \o r.out
      BY <3>1 DEF Fed, IsEntry, EntryFields
    <3> QED
      BY <3>1, <3>2, <3>3
  <2>5. c.data \in Seq(Nat)
    BY <1>8, DataAssumption DEF Continues
  <2> HIDE DEF entry
  <2>6. ctx.kind = "Cipher" => Accounted(entry.fed, entry.out, ctx.pending)
    <3> SUFFICES ASSUME ctx.kind = "Cipher" PROVE Accounted(entry.fed, entry.out, ctx.pending)
      OBVIOUS
    <3>1. Accounted(log[x].fed, log[x].out, old[x].pending)
      BY <1>0, <2>2, <2>3
    <3> DEFINE buffered == old[x].pending \o c.data
               aligned == Aligned(buffered)
    <3>2. /\ IsSeq(r.out) /\ Len(r.out) = (aligned + Block - 1) \div Block
          /\ ctx.pending = SubSeq(buffered, aligned + 1, Len(buffered))
      BY <2>2 DEF CipherStep, BlocksIn
    <3>3. buffered = old[x].pending \o c.data /\ aligned = Len(buffered) - (Len(buffered) % Block)
      BY DEF Aligned
    <3> HIDE DEF buffered, aligned
    <3>4. Accounted(log[x].fed \o c.data, log[x].out \o r.out,
                    SubSeq(buffered, aligned + 1, Len(buffered)))
      BY <2>5, <3>1, <3>2, <3>3, UpdateAccounted
    <3> QED
      BY <2>4, <3>2, <3>4
  <2>7. AccountedFor(new, Insert(running, x, entry))
    <3>1. DOMAIN Insert(running, x, entry) = DOMAIN new
      BY <1>4, <2>2 DEF Sets, Insert
    <3>2. ASSUME NEW y \in DOMAIN new
          PROVE  /\ IsEntry(Insert(running, x, entry)[y])
                 /\ new[y].kind = "Cipher" =>
                      Accounted(Insert(running, x, entry)[y].fed, Insert(running, x, entry)[y].out,
                                new[y].pending)
      <4>1. CASE y = x
        <5>1. Insert(running, x, entry)[y] = entry /\ new[y] = ctx
          BY <2>2, <4>1 DEF Sets, Insert
        <5> QED
          BY <2>4, <2>6, <5>1
      <4>2. CASE y # x
        <5>1. /\ y \in DOMAIN running /\ y \in DOMAIN old /\ new[y] = old[y]
              /\ Insert(running, x, entry)[y] = running[y]
          BY <1>4, <2>2, <4>2 DEF Sets, Insert
        <5> QED
          BY <1>0, <1>3, <5>1
      <4> QED
        BY <4>1, <4>2
    <3> QED
      BY <3>1, <3>2 DEF AccountedFor
  <2> QED
    BY <2>1, <2>7 DEF new
<1> QED
  BY <1>2, <1>6, <1>7, <1>8

\* Every step of the hosts is one of Se050Objects.
LEMMA StreamsDriveObjects == [SNext]_svars => [ONext]_ovars
BY DEF SNext, StreamCommand, StreamRestart, svars, ONext, ovars

\* A store that was just started has no running contexts.
LEMMA LoadedHasNoContexts ==
    ASSUME NEW d, \A x \in d : Good(x) /\ x = Document(x)
    PROVE  DOMAIN load(d).crypto_objects = {}
<1>1. Document(load(d)) = load(d) /\ Good(load(d))
  BY LoadIsGood, LoadedIsDocument
<1>2. \A s : Good(s) => Document(s).crypto_objects = Empty
  BY DEF Good, IsStore, Fields, Document
<1> QED
  BY <1>1, <1>2 DEF Empty

\* The account is inductive, with the invariants of the object store.
LEMMA StreamsStep ==
    IInv /\ CountersInv /\ ContextsInv /\ StreamsInv /\ [SNext]_svars => StreamsInv'
<1> SUFFICES ASSUME IInv, CountersInv, ContextsInv, StreamsInv, [SNext]_svars
             PROVE  AccountedFor(store'.crypto_objects, log')
  BY DEF StreamsInv
<1>0. Good(store) /\ CountersOk(store) /\ ContextsOk(store)
  BY DEF IInv, CountersInv, ContextsInv
<1>1. ASSUME NEW c \in Commands \cap OverChannel, StreamCommand(c)
      PROVE  AccountedFor(store'.crypto_objects, log')
  <2> DEFINE r == dispatch(store, c, TRUE)
  <2>1. store' = r.store /\ log' = Logged(c, r)
    BY <1>1 DEF StreamCommand, Command
  <2>2. r = dispatch(store, c, TRUE)
    OBVIOUS
  <2> HIDE DEF r
  <2> QED
    BY <1>0, <2>1, <2>2, AccountKept
<1>2. CASE StreamRestart
  <2>1. DOMAIN store'.crypto_objects = {} /\ DOMAIN log' = {}
    BY <1>2, LoadedHasNoContexts DEF StreamRestart, Restart, IInv, Empty
  <2> QED
    BY <2>1 DEF AccountedFor
<1>3. CASE UNCHANGED svars
  BY <1>3 DEF svars, StreamsInv
<1> QED
  BY <1>1, <1>2, <1>3 DEF SNext

\* However the input of a cipher is cut into updates, in whatever order the hosts interleave
\* their commands, start, finish and delete contexts or fail, no byte is lost or processed
\* twice: each is in the blocks that came out or pending, in order, and less than a block is
\* pending (aes.rs).
THEOREM CiphersLoseNothing == SSpec => []NothingLostInCipher
<1>1. SInit => OInit /\ StreamsInv
  BY DEF SInit, OInit, StreamsInv, AccountedFor, NewStore, Empty
<1>2. OInit => CountersInv /\ ContextsInv
  BY DEF OInit, CountersInv, ContextsInv, CountersOk, ContextsOk, TypesOk, RunningOk, NewStore, Empty
<1>3. StreamsInv => NothingLostInCipher
  BY DEF StreamsInv, AccountedFor, Accounted, NothingLostInCipher
<1> QED
  BY <1>1, <1>2, <1>3, StreamsDriveObjects, StreamsStep, ContextsStep, CountersStep,
     InductiveInit, InductiveStep, PTL DEF SSpec
-----------------------------------------------------------------------------
(***************************************************************************)
(* Cutting the input of a cipher changes nothing. What a mode computes is  *)
(* a recursive function of the blocks; it is unfolded by induction, with   *)
(* the set of the numbers of blocks for which the fact holds.              *)
(***************************************************************************)
\* Every set of numbers that holds 0 and with every number the next one holds them all.
LEMMA Induction ==
    ASSUME NEW S, 0 \in S, \A n \in Nat : n \in S => n + 1 \in S
    PROVE  Nat \subseteq S
<1> SUFFICES ASSUME ~(Nat \subseteq S) PROVE FALSE
  OBVIOUS
<1> DEFINE T == {n \in Nat : n \notin S}
           R == OpToRel(<, Nat)
<1>1. T \subseteq Nat /\ T # {}
  OBVIOUS
<1>2. IsWellFoundedOn(R, Nat)
  BY NatLessThanWellFounded
<1>3. \A m, n \in Nat : m < n => <<m, n>> \in R
  BY DEF OpToRel
<1> HIDE DEF T, R
<1>4. PICK n \in T : \A m \in T : ~ (<<m, n>> \in R)
  BY <1>1, <1>2, WFMin
<1>5. n \in Nat /\ n # 0
  BY <1>1 DEF T
<1>6. n - 1 \in Nat /\ n = (n - 1) + 1 /\ n - 1 < n
  BY <1>5
<1>7. n - 1 \notin T
  BY <1>3, <1>4, <1>5, <1>6
<1> QED
  BY <1>5, <1>6, <1>7 DEF T

\* A part of the first of two strings in a row, and one of the second.
LEMMA PartOfFirst ==
    ASSUME NEW a \in Seq(Nat), NEW b \in Seq(Nat), NEW u \in Nat, NEW v \in Nat, v <= Len(a)
    PROVE  SubSeq(a \o b, u + 1, v) = SubSeq(a, u + 1, v)
<1> DEFINE ab == a \o b
           n == Len(a)
<1>1. n \in Nat /\ v <= n /\ ab \in Seq(Nat) /\ \A i \in 1..n : ab[i] = a[i] /\ a[i] \in Nat
  BY JoinStrings, ElementOfSeq
<1> HIDE DEF ab, n
<1>2. \A i \in (u + 1)..v : i \in 1..n
  BY <1>1
<1>3. \A i \in (u + 1)..v : ab[i] \in Nat /\ a[i] \in Nat
  BY <1>1, <1>2
<1>4. u + 1 \in Int /\ v \in Int
  OBVIOUS
<1> DEFINE m == u + 1
           s == SubSeq(ab, m, v)
           t == SubSeq(a, m, v)
<1>5. m \in Int /\ \A i \in m..v : ab[i] \in Nat /\ a[i] \in Nat
  BY <1>3
<1>m. \A i \in 1..(v - m + 1) : m + i - 1 \in 1..n
  BY <1>1
<1> HIDE DEF m
<1>6. /\ s \in Seq(Nat) /\ Len(s) = (IF m <= v THEN v - m + 1 ELSE 0)
      /\ \A i \in 1..(v - m + 1) : s[i] = ab[m + i - 1]
  BY <1>4, <1>5, SubSeqProperties
<1>7. /\ t \in Seq(Nat) /\ Len(t) = (IF m <= v THEN v - m + 1 ELSE 0)
      /\ \A i \in 1..(v - m + 1) : t[i] = a[m + i - 1]
  BY <1>4, <1>5, SubSeqProperties
<1> HIDE DEF s, t
<1>8. \A i \in 1..Len(s) : i \in 1..(v - m + 1)
  BY <1>5, <1>6
<1>9. \A i \in 1..Len(s) : s[i] = t[i]
  BY <1>1, <1>m, <1>6, <1>7, <1>8
<1>10. s = t
  BY <1>6, <1>7, <1>9, SeqEqual
<1> QED
  BY <1>10 DEF s, t, m, ab

\* A part of two sequences in a row that lies in the second.
LEMMA PartOfSecond ==
    ASSUME NEW a \in Seq(Nat), NEW b \in Seq(Nat), NEW u \in Nat, NEW v \in Nat, v <= Len(b)
    PROVE  SubSeq(a \o b, Len(a) + u + 1, Len(a) + v) = SubSeq(b, u + 1, v)
<1> DEFINE ab == a \o b
           n == Len(a)
           l == Len(b)
           x == n + u + 1
           y == n + v
<1>1. /\ n \in Nat /\ l \in Nat /\ v <= l /\ ab \in Seq(Nat) /\ x = n + u + 1 /\ y = n + v
      /\ Len(ab) = n + l
      /\ \A i \in 1..l : ab[n + i] = b[i] /\ b[i] \in Nat
  BY JoinStrings, ElementOfSeq
<1> HIDE DEF ab, n, l, x, y
<1> DEFINE m == u + 1
           s == SubSeq(ab, x, y)
           t == SubSeq(b, m, v)
<1>2. /\ m \in Int /\ x \in Int /\ y \in Int /\ y - x = v - m /\ (x <= y <=> m <= v)
      /\ \A i \in m..v : i \in 1..l
  BY <1>1
<1>b. \A i \in 1..(v - m + 1) : m + i - 1 \in 1..l /\ x + i - 1 = n + (m + i - 1)
  <2> TAKE i \in 1..(v - m + 1)
  <2>a. v - m + 1 = v - u /\ v - u \in Int
    OBVIOUS
  <2>b. i \in Int /\ 1 <= i /\ i <= v - u
    BY <2>a
  <2>c. n \in Nat /\ x = n + u + 1
    BY <1>1
  <2>1. m + i - 1 = u + i /\ x + i - 1 = n + (u + i)
    BY <2>b, <2>c
  <2>2. u + i \in 1..l
    BY <1>1, <2>b
  <2> QED
    BY <2>1, <2>2
<1>a. ASSUME NEW i \in x..y PROVE ab[i] \in Nat
  <2>1. i - n \in 1..l /\ i = n + (i - n)
    BY <1>1
  <2>2. ab[n + (i - n)] = b[i - n] /\ b[i - n] \in Nat
    BY <1>1, <2>1
  <2> QED
    BY <2>1, <2>2
<1> HIDE DEF m
<1>3. /\ t \in Seq(Nat) /\ Len(t) = (IF m <= v THEN v - m + 1 ELSE 0)
      /\ \A i \in 1..(v - m + 1) : t[i] = b[m + i - 1]
  <2>1. \A i \in m..v : b[i] \in Nat
    BY <1>1, <1>2
  <2> QED
    BY <1>2, <2>1, SubSeqProperties
<1>4. /\ s \in Seq(Nat) /\ Len(s) = (IF x <= y THEN y - x + 1 ELSE 0)
      /\ \A i \in 1..(y - x + 1) : s[i] = ab[x + i - 1]
  BY <1>2, <1>a, SubSeqProperties
<1> HIDE DEF s, t
<1>5. Len(s) = Len(t) /\ \A i \in 1..Len(s) : i \in 1..(v - m + 1)
  <2>1. CASE m <= v
    <3>1. Len(s) = y - x + 1 /\ Len(t) = v - m + 1
      BY <1>2, <1>3, <1>4, <2>1
    <3> QED
      BY <1>2, <3>1
  <2>2. CASE ~(m <= v)
    <3>1. Len(s) = 0 /\ Len(t) = 0
      BY <1>2, <1>3, <1>4, <2>2
    <3> QED
      BY <3>1
  <2> QED
    BY <2>1, <2>2
<1>6. ASSUME NEW i \in 1..Len(s) PROVE s[i] = t[i]
  <2>1. s[i] = ab[x + i - 1] /\ t[i] = b[m + i - 1]
    <3>1. i \in 1..(v - m + 1) /\ i \in 1..(y - x + 1)
      BY <1>2, <1>5
    <3> QED
      BY <1>3, <1>4, <3>1
  <2>2. m + i - 1 \in 1..l /\ x + i - 1 = n + (m + i - 1)
    BY <1>b, <1>5
  <2> DEFINE j == m + i - 1
  <2>3. j \in 1..l /\ x + i - 1 = n + j
    BY <2>2
  <2> HIDE DEF j
  <2>4. ab[n + j] = b[j]
    BY <1>1, <2>3
  <2> QED
    BY <2>1, <2>3, <2>4 DEF j
<1>7. s = t
  BY <1>3, <1>4, <1>5, <1>6, SeqEqual
<1> QED
  BY <1>7 DEF s, t, m, ab, x, y, n

\* Whole blocks before n bytes add their number to the blocks.
LEMMA BlocksAdd ==
    ASSUME NEW n \in Nat, NEW l \in Nat
    PROVE  BlocksIn(Block * n + l) = n + BlocksIn(l) /\ BlocksIn(l) \in Nat /\ BlocksIn(Block * n) = n
<1>0. Block \in Nat \ {0}
  BY BlockAssumption
<1>d. ASSUME NEW q \in Nat, NEW r \in 0..(Block - 1) PROVE (q * Block + r) \div Block = q
  BY <1>0
<1>1. ASSUME NEW k \in Nat
      PROVE  BlocksIn(Block * n + k) = n + BlocksIn(k) /\ BlocksIn(k) \in Nat
  <2>0. k + Block - 1 \in Nat
    BY <1>0
  <2>1. PICK q \in Nat, r \in 0..(Block - 1) : k + Block - 1 = (q * Block) + r
    BY <1>0, <2>0, Divided
  <2>2. (k + Block - 1) \div Block = q
    BY <1>0, <1>d, <2>1
  <2>3. n + q \in Nat
    OBVIOUS
  <2>4. Block * n + k + Block - 1 = (n + q) * Block + r
    BY <1>0, <2>1
  <2>5. ((n + q) * Block + r) \div Block = n + q
    BY <1>d, <2>3
  <2> QED
    BY <2>2, <2>4, <2>5 DEF BlocksIn
<1>2. Block * n + 0 = Block * n /\ BlocksIn(0) = 0
  <2>1. 0 + Block - 1 = 0 * Block + (Block - 1) /\ Block - 1 \in 0..(Block - 1)
    BY <1>0
  <2> QED
    BY <1>0, <1>d, <2>1 DEF BlocksIn
<1>3. BlocksIn(Block * n + 0) = n + BlocksIn(0)
  BY <1>1
<1> QED
  BY <1>1, <1>2, <1>3

\* A string of n whole blocks.
Whole(a, n) == Len(a) = Block * n

\* The blocks of whole blocks followed by other bytes.
LEMMA BlocksJoin ==
    ASSUME NEW a \in Seq(Nat), NEW b \in Seq(Nat), NEW n \in Nat, Whole(a, n)
    PROVE  /\ BlocksIn(Len(b)) \in Nat
           /\ DOMAIN Blocks(a) = 1..n /\ DOMAIN Blocks(b) = 1..BlocksIn(Len(b))
           /\ DOMAIN Blocks(a \o b) = 1..(n + BlocksIn(Len(b)))
           /\ \A i \in 1..n : Blocks(a \o b)[i] = Blocks(a)[i]
           /\ \A j \in 1..BlocksIn(Len(b)) : Blocks(a \o b)[n + j] = Blocks(b)[j]
<1> DEFINE ab == a \o b
           l == Len(b)
           m == BlocksIn(l)
<1>0. Block \in Nat \ {0} /\ Len(a) = Block * n
  BY BlockAssumption DEF Whole
<1>1. ab \in Seq(Nat) /\ l \in Nat /\ Len(ab) = Block * n + l /\ Block * n \in Nat
  BY <1>0, JoinStrings
<1>2. m \in Nat /\ BlocksIn(Len(ab)) = n + m /\ BlocksIn(Len(a)) = n
  BY <1>0, <1>1, BlocksAdd
<1>3. ASSUME NEW d PROVE Blocks(d) = [i \in 1..BlocksIn(Len(d)) |->
         SubSeq(d, (i - 1) * Block + 1, IF i * Block < Len(d) THEN i * Block ELSE Len(d))]
  BY DEF Blocks, BlocksIn
<1>4. DOMAIN Blocks(a) = 1..n /\ DOMAIN Blocks(b) = 1..m /\ DOMAIN Blocks(ab) = 1..(n + m)
  BY <1>2, <1>3
<1>5. ASSUME NEW i \in 1..n PROVE Blocks(ab)[i] = Blocks(a)[i]
  <2> DEFINE u == (i - 1) * Block
             v == i * Block
             e == IF v < Len(ab) THEN v ELSE Len(ab)
             f == IF v < Len(a) THEN v ELSE Len(a)
  <2>1. u \in Nat /\ v \in Nat /\ v <= Block * n /\ Block * n <= Block * n + l
    BY <1>0, <1>1
  <2>2. i \in 1..(n + m)
    BY <1>2
  <2>3. Blocks(ab)[i] = SubSeq(ab, u + 1, e) /\ Blocks(a)[i] = SubSeq(a, u + 1, f)
    BY <1>2, <1>3, <2>2
  <2> HIDE DEF u, v, ab
  <2>4. e = v /\ f = v
    BY <1>0, <1>1, <2>1
  <2> HIDE DEF e, f
  <2>5. SubSeq(ab, u + 1, v) = SubSeq(a, u + 1, v)
    BY <1>0, <1>1, <2>1, PartOfFirst DEF ab
  <2> QED
    BY <2>3, <2>4, <2>5
<1>6. ASSUME NEW j \in 1..m PROVE Blocks(ab)[n + j] = Blocks(b)[j]
  <2> DEFINE u == (j - 1) * Block
             v == j * Block
             e == IF v < l THEN v ELSE l
             x == (n + j - 1) * Block + 1
             y == IF (n + j) * Block < Len(ab) THEN (n + j) * Block ELSE Len(ab)
  <2>1. u \in Nat /\ v \in Nat
    BY <1>0, <1>2
  <2>2. n + j \in 1..(n + m)
    BY <1>2
  <2>3. Blocks(ab)[n + j] = SubSeq(ab, x, y) /\ Blocks(b)[j] = SubSeq(b, u + 1, e)
    <3> DEFINE k == n + j
    <3>1. k \in 1..BlocksIn(Len(ab))
      BY <1>2, <2>2
    <3> HIDE DEF k
    <3> DEFINE x1 == (k - 1) * Block + 1
               y1 == IF k * Block < Len(ab) THEN k * Block ELSE Len(ab)
    <3>2. Blocks(ab)[k] = SubSeq(ab, x1, y1)
      BY <1>3, <3>1
    <3>a. x1 = x /\ y1 = y
      BY DEF k
    <3> HIDE DEF x1, y1, x, y
    <3>3. Blocks(b)[j] = SubSeq(b, u + 1, e)
      BY <1>3
    <3> QED
      BY <3>2, <3>3, <3>a DEF k
  <2>4. x = Block * n + u + 1 /\ (n + j) * Block = Block * n + v
    BY <1>0, <1>2
  <2>5. y = Block * n + e /\ e \in Nat /\ e <= l
    <3> HIDE DEF u, v, x
    <3> QED
      BY <1>1, <2>1, <2>4
  <2> HIDE DEF u, v, x, y, e, l
  <2>a. x = Len(a) + u + 1 /\ y = Len(a) + e
    BY <1>0, <2>4, <2>5
  <2>b. e \in Nat /\ e <= Len(b)
    BY <2>5 DEF l
  <2>c. SubSeq(a \o b, Len(a) + u + 1, Len(a) + e) = SubSeq(b, u + 1, e)
    BY <2>1, <2>b, PartOfSecond
  <2>6. SubSeq(a \o b, x, y) = SubSeq(b, u + 1, e)
    BY <2>a, <2>c
  <2> QED
    BY <2>3, <2>6
<1> QED
  BY <1>2, <1>4, <1>5, <1>6

\* A sequence of n items, whatever they are.
Items(f, n) == f = [i \in 1..n |-> f[i]]

\* A function on the first n numbers is a sequence of length n.
LEMMA FunctionIsSequence ==
    ASSUME NEW n \in Nat, NEW f, Items(f, n)
    PROVE  IsSeq(f) /\ Len(f) = n
<1>0. f = [i \in 1..n |-> f[i]]
  BY DEF Items
<1>1. f \in [1..n -> {f[i] : i \in 1..n}]
  BY <1>0
<1>2. f \in Seq({f[i] : i \in 1..n})
  BY <1>1, SeqDef
<1>3. DOMAIN f = 1..n /\ Len(f) \in Nat /\ DOMAIN f = 1..Len(f)
  BY <1>1, <1>2, LenProperties
<1> QED
  BY <1>2, <1>3 DEF IsSeq

\* Two sequences in a row, item by item.
InARow(h, f, n, g, m) ==
    /\ Items(f, n) /\ Items(g, m) /\ Items(h, n + m)
    /\ \A i \in 1..n : h[i] = f[i]
    /\ \A j \in 1..m : h[n + j] = g[j]

\* A sequence whose items are those of f and then those of g is their concatenation.
LEMMA JoinIs ==
    ASSUME NEW n \in Nat, NEW m \in Nat, NEW f, NEW g, NEW h, InARow(h, f, n, g, m)
    PROVE  h = f \o g
<1>0. /\ Items(f, n) /\ Items(g, m) /\ Items(h, n + m)
      /\ \A i \in 1..n : h[i] = f[i]
      /\ \A j \in 1..m : h[n + j] = g[j]
  BY DEF InARow
<1> DEFINE S == {f[i] : i \in 1..n} \cup {g[i] : i \in 1..m}
<1>1. f \in [1..n -> S] /\ g \in [1..m -> S]
  BY <1>0 DEF Items
<1>2. \A i \in 1..(n + m) : h[i] \in S
  <2> TAKE i \in 1..(n + m)
  <2>1. CASE i <= n
    <3>1. i \in 1..n
      BY <2>1
    <3> QED
      BY <1>0, <3>1
  <2>2. CASE ~(i <= n)
    <3>1. i - n \in 1..m /\ n + (i - n) = i
      BY <2>2
    <3>2. h[n + (i - n)] = g[i - n]
      BY <1>0, <3>1
    <3> QED
      BY <3>1, <3>2
  <2> QED
    BY <2>1, <2>2
<1> HIDE DEF S
<1>3. n + m \in Nat /\ h \in [1..(n + m) -> S]
  BY <1>0, <1>2 DEF Items
<1>4. f \in Seq(S) /\ g \in Seq(S) /\ h \in Seq(S)
  BY <1>1, <1>3, SeqDef
<1>5. Len(f) = n /\ Len(g) = m /\ Len(h) = n + m
  <2>1. \A s \in Seq(S), k \in Nat : s \in [1..k -> S] => Len(s) = k
    <3> TAKE s \in Seq(S), k \in Nat
    <3> DEFINE l == Len(s)
    <3>1. l \in Nat /\ DOMAIN s = 1..l
      BY LenProperties
    <3> HIDE DEF l
    <3>2. s \in [1..k -> S] => l = k
      BY <3>1
    <3> QED
      BY <3>2 DEF l
  <2> QED
    BY <1>1, <1>3, <1>4, <2>1
<1> DEFINE fg == f \o g
<1>6. /\ fg \in Seq(S) /\ Len(fg) = n + m
      /\ \A i \in 1..(n + m) : fg[i] = IF i <= n THEN f[i] ELSE g[i - n]
  <2>1. /\ fg \in Seq(S) /\ Len(fg) = Len(f) + Len(g)
        /\ \A i \in 1..(Len(f) + Len(g)) : fg[i] = IF i <= Len(f) THEN f[i] ELSE g[i - Len(f)]
    BY <1>4, ConcatProperties
  <2> HIDE DEF fg
  <2> QED
    BY <1>5, <2>1
<1> HIDE DEF fg
<1>7. ASSUME NEW i \in 1..(n + m) PROVE h[i] = fg[i]
  <2>1. CASE i <= n
    <3>1. i \in 1..n
      BY <2>1
    <3> QED
      BY <1>0, <1>6, <2>1, <3>1
  <2>2. CASE ~(i <= n)
    <3>1. i - n \in 1..m /\ n + (i - n) = i
      BY <2>2
    <3>2. h[n + (i - n)] = g[i - n]
      BY <1>0, <3>1
    <3> QED
      BY <1>6, <2>2, <3>1, <3>2
  <2> QED
    BY <2>1, <2>2
<1>8. h = fg
  BY <1>4, <1>5, <1>6, <1>7, SeqEqual
<1> QED
  BY <1>8 DEF fg

\* One step of the CBC chain, and the chain after each of n blocks.
CbcStep(k, b, before, encrypting) == IF encrypting THEN E(k, X(b, before)) ELSE b

IsCbcChain(g, n, k, chain, blocks, encrypting) ==
    g = [i \in 0..n |-> IF i = 0 THEN chain ELSE CbcStep(k, blocks[i], g[i - 1], encrypting)]

\* There is such a chain for every number of blocks.
LEMMA CbcChainExists ==
    ASSUME NEW n \in Nat, NEW k, NEW chain, NEW blocks, NEW encrypting
    PROVE  \E g : IsCbcChain(g, n, k, chain, blocks, encrypting)
<1> DEFINE Is(g, m) == IsCbcChain(g, m, k, chain, blocks, encrypting)
           S == {m \in Nat : \E g : Is(g, m)}
<1>1. 0 \in S
  <2> DEFINE g == [i \in 0..0 |-> chain]
  <2>1. \A i \in 0..0 : i = 0
    OBVIOUS
  <2>2. Is(g, 0)
    BY <2>1 DEF IsCbcChain
  <2> QED
    BY <2>2
<1>2. ASSUME NEW m \in Nat, m \in S PROVE m + 1 \in S
  <2>1. PICK g : Is(g, m)
    BY <1>2
  <2>2. /\ DOMAIN g = 0..m /\ g[0] = chain
        /\ \A i \in 1..m : g[i] = CbcStep(k, blocks[i], g[i - 1], encrypting)
    <3>1. g = [i \in 0..m |-> IF i = 0 THEN chain ELSE CbcStep(k, blocks[i], g[i - 1], encrypting)]
      BY <2>1 DEF IsCbcChain
    <3>2. 0 \in 0..m /\ \A i \in 1..m : i \in 0..m /\ i # 0
      OBVIOUS
    <3> QED
      BY <3>1, <3>2
  <2> DEFINE h == [i \in 0..(m + 1) |->
                     IF i = m + 1 THEN CbcStep(k, blocks[m + 1], g[m], encrypting) ELSE g[i]]
  <2>3. /\ DOMAIN h = 0..(m + 1) /\ h = [i \in 0..(m + 1) |-> h[i]]
        /\ h[m + 1] = CbcStep(k, blocks[m + 1], g[m], encrypting)
        /\ \A i \in 0..m : h[i] = g[i]
    OBVIOUS
  <2> HIDE DEF h
  <2>4. ASSUME NEW i \in 0..(m + 1)
        PROVE  h[i] = IF i = 0 THEN chain ELSE CbcStep(k, blocks[i], h[i - 1], encrypting)
    <3>1. CASE i = 0
      BY <2>2, <2>3, <3>1
    <3>2. CASE i = m + 1
      <4>1. i - 1 = m /\ m \in 0..m /\ i # 0
        BY <3>2
      <4> QED
        BY <2>3, <3>2, <4>1
    <3>3. CASE i \in 1..m
      <4>1. i \in 0..m /\ i - 1 \in 0..m /\ i # 0
        BY <3>3
      <4> QED
        BY <2>2, <2>3, <3>3, <4>1
    <3>4. i = 0 \/ i = m + 1 \/ i \in 1..m
      OBVIOUS
    <3> QED
      BY <3>1, <3>2, <3>3, <3>4
  <2>5. Is(h, m + 1)
    BY <2>3, <2>4 DEF IsCbcChain
  <2> QED
    BY <2>5
<1> HIDE DEF S
<1>3. Nat \subseteq S
  BY <1>1, <1>2, Induction
<1>4. n \in S
  BY <1>3
<1> QED
  BY <1>4 DEF S

\* What CbcChain holds.
CbcHolds(g, n, k, chain, blocks, encrypting) ==
    /\ DOMAIN g = 0..n /\ g[0] = chain
    /\ \A i \in 1..n : g[i] = CbcStep(k, blocks[i], g[i - 1], encrypting)

\* The chain of CBC starts from the chaining value and goes on by one block at a time.
LEMMA CbcChainIs ==
    ASSUME NEW k, NEW chain, NEW data, NEW encrypting, NEW n \in Nat, DOMAIN Blocks(data) = 1..n
    PROVE  CbcHolds(CbcChain(k, chain, data, encrypting), n, k, chain, Blocks(data), encrypting)
<1> DEFINE g == CbcChain(k, chain, data, encrypting)
<1> DEFINE bs == Blocks(data)
<1>1. Len(bs) = n
  <2>1. Items(bs, n)
    BY DEF Blocks, Items
  <2> HIDE DEF bs
  <2> QED
    BY <2>1, FunctionIsSequence
<1>2. g = CHOOSE h : h = [i \in 0..Len(bs) |->
            IF i = 0 THEN chain ELSE IF encrypting THEN E(k, X(bs[i], h[i - 1])) ELSE bs[i]]
  BY DEF CbcChain
<1> HIDE DEF g, bs
<1>3. g = CHOOSE h : IsCbcChain(h, n, k, chain, bs, encrypting)
  BY <1>1, <1>2 DEF IsCbcChain, CbcStep
<1>4. IsCbcChain(g, n, k, chain, bs, encrypting)
  BY <1>3, CbcChainExists
<1>5. 0 \in 0..n /\ \A i \in 1..n : i \in 0..n /\ i # 0
  OBVIOUS
<1>6. /\ DOMAIN g = 0..n /\ g[0] = chain
      /\ \A i \in 1..n : g[i] = CbcStep(k, bs[i], g[i - 1], encrypting)
  BY <1>4, <1>5 DEF IsCbcChain
<1> QED
  BY <1>6 DEF bs, g, CbcHolds

\* The chain over two strings in a row goes on where the first one ends.
CbcRow(g, f, h, k, chain, a, b, encrypting, n) ==
    /\ g = CbcChain(k, chain, a \o b, encrypting)
    /\ f = CbcChain(k, chain, a, encrypting)
    /\ h = CbcChain(k, f[n], b, encrypting)

CbcFollows(g, f, n, h, m) ==
    /\ \A i \in 0..n : g[i] = f[i]
    /\ \A j \in 0..m : g[n + j] = h[j]

\* The chain over a and then b is that over a, and goes on from its end as that over b.
LEMMA CbcChainJoin ==
    ASSUME NEW k, NEW chain, NEW a \in Seq(Nat), NEW b \in Seq(Nat), NEW encrypting,
           NEW n \in Nat, Whole(a, n),
           NEW g, NEW f, NEW h, CbcRow(g, f, h, k, chain, a, b, encrypting, n)
    PROVE  CbcFollows(g, f, n, h, BlocksIn(Len(b)))
<1> DEFINE m == BlocksIn(Len(b))
<1>0. /\ g = CbcChain(k, chain, a \o b, encrypting)
      /\ f = CbcChain(k, chain, a, encrypting)
      /\ h = CbcChain(k, f[n], b, encrypting)
  BY DEF CbcRow
<1> DEFINE ba == Blocks(a)
           bb == Blocks(b)
           bab == Blocks(a \o b)
<1>1. /\ m \in Nat /\ n + m \in Nat /\ DOMAIN ba = 1..n /\ DOMAIN bb = 1..m /\ DOMAIN bab = 1..(n + m)
      /\ \A i \in 1..n : bab[i] = ba[i]
      /\ \A j \in 1..m : bab[n + j] = bb[j]
  BY BlocksJoin
<1>2. /\ g[0] = chain
      /\ \A i \in 1..(n + m) : g[i] = CbcStep(k, bab[i], g[i - 1], encrypting)
  <2>1. CbcHolds(CbcChain(k, chain, a \o b, encrypting), n + m, k, chain, bab, encrypting)
    BY <1>1, CbcChainIs
  <2> QED
    BY <1>0, <2>1 DEF CbcHolds
<1>3. f[0] = chain /\ \A i \in 1..n : f[i] = CbcStep(k, ba[i], f[i - 1], encrypting)
  <2>1. CbcHolds(CbcChain(k, chain, a, encrypting), n, k, chain, ba, encrypting)
    BY <1>1, CbcChainIs
  <2> QED
    BY <1>0, <2>1 DEF CbcHolds
<1>4. h[0] = f[n] /\ \A i \in 1..m : h[i] = CbcStep(k, bb[i], h[i - 1], encrypting)
  <2>1. CbcHolds(CbcChain(k, f[n], b, encrypting), m, k, f[n], bb, encrypting)
    BY <1>1, CbcChainIs
  <2> QED
    BY <1>0, <2>1 DEF CbcHolds
<1> HIDE DEF ba, bb, bab
<1> DEFINE S == {i \in Nat : i <= n => g[i] = f[i]}
           T == {j \in Nat : j <= m => g[n + j] = h[j]}
<1>5. 0 \in S
  BY <1>2, <1>3
<1>6. ASSUME NEW i \in Nat, i \in S PROVE i + 1 \in S
  <2> SUFFICES ASSUME i + 1 <= n PROVE g[i + 1] = f[i + 1]
    OBVIOUS
  <2> DEFINE q == i + 1
  <2>1. q \in 1..n /\ q \in 1..(n + m) /\ q - 1 = i /\ g[i] = f[i]
    BY <1>1, <1>6
  <2> HIDE DEF q
  <2>2. g[q] = f[q]
    BY <1>1, <1>2, <1>3, <2>1
  <2> QED
    BY <2>2 DEF q
<1> HIDE DEF S
<1>7. Nat \subseteq S
  BY <1>5, <1>6, Induction
<1>8. \A i \in 0..n : g[i] = f[i]
  BY <1>7 DEF S
<1>9. 0 \in T
  <2>1. n + 0 = n /\ n \in 0..n
    OBVIOUS
  <2>2. g[n + 0] = h[0]
    BY <1>4, <1>8, <2>1
  <2> QED
    BY <2>2
<1>10. ASSUME NEW j \in Nat, j \in T PROVE j + 1 \in T
  <2> SUFFICES ASSUME j + 1 <= m PROVE g[n + (j + 1)] = h[j + 1]
    OBVIOUS
  <2> DEFINE q == j + 1
             z == n + q
  <2>1. q \in 1..m /\ z \in 1..(n + m) /\ q - 1 = j /\ z - 1 = n + j /\ g[n + j] = h[j]
    BY <1>1, <1>10
  <2>2. bab[z] = bb[q]
    <3>1. \A i \in 1..m : bab[n + i] = bb[i]
      BY <1>1
    <3> HIDE DEF q
    <3> QED
      BY <2>1, <3>1
  <2> HIDE DEF q, z
  <2>3. g[z] = h[q]
    BY <1>2, <1>4, <2>1, <2>2
  <2> QED
    BY <2>3 DEF q, z
<1> HIDE DEF T
<1>11. Nat \subseteq T
  BY <1>9, <1>10, Induction
<1>12. \A j \in 0..m : g[n + j] = h[j]
  <2> HIDE DEF m
  <2> QED
    BY <1>1, <1>11 DEF T
<1> QED
  BY <1>8, <1>12 DEF CbcFollows

\* What a mode makes of whole strings, and the chaining value after it.
ModeOut(mode, k, chain, data, encrypting) ==
    CASE mode = ECB -> ecb_process(k, data, encrypting)
      [] mode = CBC -> cbc_process(k, chain, data, encrypting)
      [] mode = CTR -> ctr_process(k, chain, data)

ModeChain(mode, k, chain, data, encrypting) ==
    CASE mode = ECB -> chain
      [] mode = CBC -> CbcChain(k, chain, data, encrypting)[Len(Blocks(data))]
      [] mode = CTR -> <<chain[1], chain[2] + Len(Blocks(data))>>

\* The number of blocks of a string.
LEMMA BlocksLen ==
    ASSUME NEW data, NEW n \in Nat, DOMAIN Blocks(data) = 1..n
    PROVE  Len(Blocks(data)) = n
<1> DEFINE bs == Blocks(data)
<1>1. Items(bs, n)
  BY DEF Blocks, Items
<1> HIDE DEF bs
<1>2. Len(bs) = n
  BY <1>1, FunctionIsSequence
<1> QED
  BY <1>2 DEF bs

\* Two sequences in a row, as a term that the lemmas below can be matched with.
Cat(s, t) == s \o t

\* ECB of two strings in a row.
LEMMA EcbJoin ==
    ASSUME NEW k, NEW a \in Seq(Nat), NEW b \in Seq(Nat), NEW encrypting,
           NEW n \in Nat, Whole(a, n)
    PROVE  ecb_process(k, Cat(a, b), encrypting) =
             Cat(ecb_process(k, a, encrypting), ecb_process(k, b, encrypting))
<1> DEFINE m == BlocksIn(Len(b))
           bab == Blocks(Cat(a, b))
           f == ecb_process(k, a, encrypting)
           g == ecb_process(k, b, encrypting)
           h == ecb_process(k, Cat(a, b), encrypting)
<1>1. /\ m \in Nat /\ DOMAIN Blocks(a) = 1..n /\ DOMAIN Blocks(b) = 1..m
      /\ DOMAIN bab = 1..(n + m)
      /\ \A i \in 1..n : bab[i] = Blocks(a)[i]
      /\ \A j \in 1..m : bab[n + j] = Blocks(b)[j]
  BY BlocksJoin DEF Cat
<1> HIDE DEF m
<1>2. /\ Items(f, n) /\ Items(g, m) /\ Items(h, n + m)
      /\ \A i \in 1..n : f[i] = IF encrypting THEN E(k, Blocks(a)[i]) ELSE D(k, Blocks(a)[i])
      /\ \A i \in 1..m : g[i] = IF encrypting THEN E(k, Blocks(b)[i]) ELSE D(k, Blocks(b)[i])
      /\ \A i \in 1..(n + m) : h[i] = IF encrypting THEN E(k, bab[i]) ELSE D(k, bab[i])
  BY <1>1 DEF ecb_process, Items
<1> HIDE DEF f, g, h, bab
<1>3. \A i \in 1..n : i \in 1..(n + m)
  BY <1>1
<1>4. \A i \in 1..n : h[i] = f[i]
  BY <1>1, <1>2, <1>3
<1>5. ASSUME NEW j \in 1..m PROVE h[n + j] = g[j]
  <2> DEFINE z == n + j
  <2>1. z \in 1..(n + m) /\ bab[z] = Blocks(b)[j]
    BY <1>1
  <2> HIDE DEF z
  <2>2. h[z] = g[j]
    BY <1>2, <2>1
  <2> QED
    BY <2>2 DEF z
<1>7. InARow(h, f, n, g, m)
  BY <1>2, <1>4, <1>5 DEF InARow
<1>6. h = f \o g
  BY <1>1, <1>7, JoinIs
<1> QED
  BY <1>6 DEF f, g, h, Cat

\* CTR of two strings in a row: the counter goes on.
CtrBlock(iv, q) == <<iv, q>>

\* CTR over whole blocks and more is CTR over the blocks, and then over the rest with the
\* counter that comes after them.
LEMMA CtrJoin ==
    ASSUME NEW k, NEW iv, NEW a \in Seq(Nat), NEW b \in Seq(Nat), NEW n \in Nat, Whole(a, n)
    PROVE  ctr_process(k, CtrBlock(iv, 0), Cat(a, b)) =
             Cat(ctr_process(k, CtrBlock(iv, 0), a), ctr_process(k, CtrBlock(iv, n), b))
<1> DEFINE m == BlocksIn(Len(b))
           bab == Blocks(Cat(a, b))
           f == ctr_process(k, CtrBlock(iv, 0), a)
           g == ctr_process(k, CtrBlock(iv, n), b)
           h == ctr_process(k, CtrBlock(iv, 0), Cat(a, b))
<1>1. /\ m \in Nat /\ DOMAIN Blocks(a) = 1..n /\ DOMAIN Blocks(b) = 1..m
      /\ DOMAIN bab = 1..(n + m)
      /\ \A i \in 1..n : bab[i] = Blocks(a)[i]
      /\ \A j \in 1..m : bab[n + j] = Blocks(b)[j]
  BY BlocksJoin DEF Cat
<1> HIDE DEF m
<1>2. /\ Items(f, n) /\ Items(g, m) /\ Items(h, n + m)
      /\ \A i \in 1..n : f[i] = X(Blocks(a)[i], E(k, <<iv, 0 + i - 1>>))
      /\ \A i \in 1..m : g[i] = X(Blocks(b)[i], E(k, <<iv, n + i - 1>>))
      /\ \A i \in 1..(n + m) : h[i] = X(bab[i], E(k, <<iv, 0 + i - 1>>))
  BY <1>1 DEF ctr_process, Items, CtrBlock
<1> HIDE DEF f, g, h, bab
<1>3. \A i \in 1..n : i \in 1..(n + m)
  BY <1>1
<1>4. \A i \in 1..n : h[i] = f[i]
  BY <1>1, <1>2, <1>3
<1>5. ASSUME NEW j \in 1..m PROVE h[n + j] = g[j]
  <2> DEFINE z == n + j
  <2>1. z \in 1..(n + m) /\ bab[z] = Blocks(b)[j] /\ 0 + z - 1 = n + j - 1
    BY <1>1
  <2> HIDE DEF z
  <2>2. h[z] = X(bab[z], E(k, <<iv, 0 + z - 1>>))
    BY <1>2, <2>1
  <2>3. g[j] = X(Blocks(b)[j], E(k, <<iv, n + j - 1>>))
    BY <1>2
  <2>4. h[z] = g[j]
    BY <2>1, <2>2, <2>3
  <2> QED
    BY <2>4 DEF z
<1>7. InARow(h, f, n, g, m)
  BY <1>2, <1>4, <1>5 DEF InARow
<1>6. h = f \o g
  BY <1>1, <1>7, JoinIs
<1> QED
  BY <1>6 DEF f, g, h, Cat

\* CBC of two strings in a row: the chain goes on.
CbcAfter(k, chain, a, encrypting, n) == CbcChain(k, chain, a, encrypting)[n]

\* CBC over whole blocks and more is CBC over the blocks, and then over the rest from the
\* chaining value that they leave.
LEMMA CbcJoin ==
    ASSUME NEW k, NEW chain, NEW a \in Seq(Nat), NEW b \in Seq(Nat), NEW encrypting,
           NEW n \in Nat, Whole(a, n)
    PROVE  cbc_process(k, chain, Cat(a, b), encrypting) =
             Cat(cbc_process(k, chain, a, encrypting),
                 cbc_process(k, CbcAfter(k, chain, a, encrypting, n), b, encrypting))
<1> DEFINE next == CbcAfter(k, chain, a, encrypting, n)
           m == BlocksIn(Len(b))
           bab == Blocks(Cat(a, b))
           f == cbc_process(k, chain, a, encrypting)
           g == cbc_process(k, next, b, encrypting)
           h == cbc_process(k, chain, Cat(a, b), encrypting)
           cf == CbcChain(k, chain, a, encrypting)
           cg == CbcChain(k, next, b, encrypting)
           ch == CbcChain(k, chain, Cat(a, b), encrypting)
<1>1. /\ m \in Nat /\ DOMAIN Blocks(a) = 1..n /\ DOMAIN Blocks(b) = 1..m
      /\ DOMAIN bab = 1..(n + m)
      /\ \A i \in 1..n : bab[i] = Blocks(a)[i]
      /\ \A j \in 1..m : bab[n + j] = Blocks(b)[j]
  BY BlocksJoin DEF Cat
<1>c. /\ \A i \in 0..n : ch[i] = cf[i]
      /\ \A j \in 0..m : ch[n + j] = cg[j]
  <2>1. CbcRow(ch, cf, cg, k, chain, a, b, encrypting, n)
    BY DEF CbcRow, CbcAfter, Cat
  <2> HIDE DEF cf, cg, ch
  <2>2. CbcFollows(ch, cf, n, cg, m)
    BY <2>1, CbcChainJoin
  <2> QED
    BY <2>2 DEF CbcFollows
<1>e. /\ encrypting => /\ \A x, y : CbcChain(k, x, y, TRUE) = CbcChain(k, x, y, encrypting)
      /\ ~encrypting => /\ \A x, y : CbcChain(k, x, y, FALSE) = CbcChain(k, x, y, encrypting)
  BY DEF CbcChain
<1>2. /\ Items(f, n) /\ Items(g, m) /\ Items(h, n + m)
      /\ \A i \in 1..n : f[i] = IF encrypting THEN cf[i] ELSE X(D(k, Blocks(a)[i]), cf[i - 1])
      /\ \A i \in 1..m : g[i] = IF encrypting THEN cg[i] ELSE X(D(k, Blocks(b)[i]), cg[i - 1])
      /\ \A i \in 1..(n + m) : h[i] = IF encrypting THEN ch[i] ELSE X(D(k, bab[i]), ch[i - 1])
  <2> HIDE DEF m
  <2>1. CASE encrypting
    BY <1>1, <1>e, <2>1 DEF cbc_process, Items
  <2>2. CASE ~encrypting
    BY <1>1, <1>e, <2>2 DEF cbc_process, Items
  <2> QED
    BY <2>1, <2>2
<1> HIDE DEF f, g, h, bab, cf, cg, ch, m
<1>3. \A i \in 1..n : i \in 1..(n + m) /\ i \in 0..n /\ i - 1 \in 0..n
  BY <1>1
<1>4. \A i \in 1..n : h[i] = f[i]
  BY <1>1, <1>2, <1>3, <1>c
<1>5. ASSUME NEW j \in 1..m PROVE h[n + j] = g[j]
  <2> DEFINE z == n + j
  <2>0. m \in Nat
    BY <1>1
  <2>a. z \in 1..(n + m) /\ j \in 0..m /\ j - 1 \in 0..m /\ z - 1 = n + (j - 1)
    BY <2>0
  <2>b. bab[z] = Blocks(b)[j]
    BY <1>1
  <2>1. z \in 1..(n + m) /\ bab[z] = Blocks(b)[j] /\ j \in 0..m /\ j - 1 \in 0..m /\ z - 1 = n + (j - 1)
    BY <2>a, <2>b
  <2>2. ch[z] = cg[j] /\ ch[n + (j - 1)] = cg[j - 1]
    BY <1>c, <2>1
  <2>3. ch[z - 1] = cg[j - 1]
    BY <2>1, <2>2
  <2> HIDE DEF z
  <2>4. h[z] = g[j]
    BY <1>2, <2>1, <2>2, <2>3
  <2> QED
    BY <2>4 DEF z
<1>7. InARow(h, f, n, g, m)
  BY <1>2, <1>4, <1>5 DEF InARow
<1>6. h = f \o g
  BY <1>1, <1>7, JoinIs
<1> QED
  BY <1>6 DEF f, g, h, Cat

\* A mode over two strings in a row is the mode over the first and then, with the chaining value
\* it leaves, over the second: nothing depends on where the input is cut, as long as the first
\* part is of whole blocks.
ChainAfter(mode, k, iv, a, encrypting) == ModeChain(mode, k, Initial(iv), a, encrypting)

Joins(mode, k, iv, a, b, encrypting) ==
    /\ ModeOut(mode, k, Initial(iv), Cat(a, b), encrypting) =
         Cat(ModeOut(mode, k, Initial(iv), a, encrypting),
             ModeOut(mode, k, ChainAfter(mode, k, iv, a, encrypting), b, encrypting))
    /\ ChainAfter(mode, k, iv, Cat(a, b), encrypting) =
         ModeChain(mode, k, ChainAfter(mode, k, iv, a, encrypting), b, encrypting)

\* Every mode may be interrupted after a whole block and taken up again.
LEMMA ModeJoin ==
    ASSUME NEW mode \in Modes, NEW k, NEW iv, NEW a \in Seq(Nat), NEW b \in Seq(Nat), NEW encrypting,
           NEW n \in Nat, Whole(a, n)
    PROVE  Joins(mode, k, iv, a, b, encrypting)
<1> SUFFICES
      /\ ModeOut(mode, k, Initial(iv), Cat(a, b), encrypting) =
           Cat(ModeOut(mode, k, Initial(iv), a, encrypting),
               ModeOut(mode, k, ModeChain(mode, k, Initial(iv), a, encrypting), b, encrypting))
      /\ ModeChain(mode, k, Initial(iv), Cat(a, b), encrypting) =
           ModeChain(mode, k, ModeChain(mode, k, Initial(iv), a, encrypting), b, encrypting)
  BY DEF ChainAfter, Joins
<1> DEFINE m == BlocksIn(Len(b))
           next == ModeChain(mode, k, Initial(iv), a, encrypting)
<1>1. /\ m \in Nat /\ DOMAIN Blocks(a) = 1..n /\ DOMAIN Blocks(b) = 1..m
      /\ DOMAIN Blocks(Cat(a, b)) = 1..(n + m) /\ n + m \in Nat
  BY BlocksJoin DEF Cat
<1>2. Len(Blocks(a)) = n /\ Len(Blocks(b)) = m /\ Len(Blocks(Cat(a, b))) = n + m
  BY <1>1, BlocksLen
<1>3. ECB # CBC /\ ECB # CTR /\ CBC # CTR
  BY DEF ECB, CBC, CTR
<1> HIDE DEF m
<1>4. CASE mode = ECB
  <2>1. \A c, d : /\ ModeOut(mode, k, c, d, encrypting) = ecb_process(k, d, encrypting)
                  /\ ModeChain(mode, k, c, d, encrypting) = c
    BY <1>3, <1>4 DEF ModeOut, ModeChain
  <2>2. ecb_process(k, Cat(a, b), encrypting) =
             Cat(ecb_process(k, a, encrypting), ecb_process(k, b, encrypting))
    BY EcbJoin
  <2> QED
    BY <2>1, <2>2
<1>5. CASE mode = CBC
  <2> DEFINE chain == Initial(iv)
  <2>1. \A c, d : /\ ModeOut(mode, k, c, d, encrypting) = cbc_process(k, c, d, encrypting)
                  /\ ModeChain(mode, k, c, d, encrypting) =
                       CbcChain(k, c, d, encrypting)[Len(Blocks(d))]
    BY <1>3, <1>5 DEF ModeOut, ModeChain
  <2>2. next = CbcChain(k, chain, a, encrypting)[n]
    BY <1>2, <2>1
  <2> HIDE DEF chain, next
  <2>3. cbc_process(k, chain, Cat(a, b), encrypting) =
             Cat(cbc_process(k, chain, a, encrypting), cbc_process(k, next, b, encrypting))
    <3>1. cbc_process(k, chain, Cat(a, b), encrypting) =
             Cat(cbc_process(k, chain, a, encrypting),
                 cbc_process(k, CbcAfter(k, chain, a, encrypting, n), b, encrypting))
      BY CbcJoin
    <3> QED
      BY <2>2, <3>1 DEF CbcAfter
  <2>4. CbcChain(k, chain, Cat(a, b), encrypting)[n + m] = CbcChain(k, next, b, encrypting)[m]
    <3> DEFINE cf == CbcChain(k, chain, a, encrypting)
               cg == CbcChain(k, next, b, encrypting)
               ch == CbcChain(k, chain, Cat(a, b), encrypting)
    <3>1. CbcRow(ch, cf, cg, k, chain, a, b, encrypting, n)
      BY <2>2 DEF CbcRow, Cat
    <3> HIDE DEF cf, cg, ch
    <3>2. \A j \in 0..m : ch[n + j] = cg[j]
      <4>1. CbcFollows(ch, cf, n, cg, m)
        BY <3>1, CbcChainJoin DEF m
      <4> QED
        BY <4>1 DEF CbcFollows
    <3>3. m \in 0..m
      BY <1>1
    <3>4. ch[n + m] = cg[m]
      BY <3>2, <3>3
    <3> QED
      BY <3>4 DEF cg, ch
  <2> QED
    BY <1>2, <2>1, <2>3, <2>4 DEF chain, next
<1>6. CASE mode = CTR
  <2>1. \A c, d : /\ ModeOut(mode, k, c, d, encrypting) = ctr_process(k, c, d)
                  /\ ModeChain(mode, k, c, d, encrypting) = <<c[1], c[2] + Len(Blocks(d))>>
    BY <1>3, <1>6 DEF ModeOut, ModeChain
  <2>2. Initial(iv) = CtrBlock(iv, 0) /\ next = CtrBlock(iv, n) /\ n \in Int
    BY <1>1, <1>2, <2>1 DEF Initial, CtrBlock
  <2>3. ctr_process(k, CtrBlock(iv, 0), Cat(a, b)) =
             Cat(ctr_process(k, CtrBlock(iv, 0), a), ctr_process(k, CtrBlock(iv, n), b))
    BY CtrJoin
  <2>4. ModeChain(mode, k, Initial(iv), Cat(a, b), encrypting) = <<iv, n + m>>
    BY <1>1, <1>2, <2>1 DEF Initial
  <2> HIDE DEF next
  <2>5. ModeChain(mode, k, next, b, encrypting) = <<iv, n + m>>
    BY <1>2, <2>1, <2>2 DEF CtrBlock
  <2> QED
    BY <2>1, <2>2, <2>3, <2>4, <2>5 DEF next
<1> QED
  BY <1>4, <1>5, <1>6 DEF Modes

-----------------------------------------------------------------------------
(***************************************************************************)
(* A finished context answers the one-shot result.                         *)
(***************************************************************************)
\* Nothing comes out of no input, and the chaining value stays.
LEMMA NothingIn ==
    ASSUME NEW mode \in Modes, NEW k, NEW iv, NEW encrypting
    PROVE  /\ ModeOut(mode, k, Initial(iv), <<>>, encrypting) = <<>>
           /\ ModeChain(mode, k, Initial(iv), <<>>, encrypting) = Initial(iv)
<1> DEFINE e == <<>>
           bs == Blocks(e)
<1>0. e \in Seq(Nat) /\ Len(e) = 0
  BY EmptySeq
<1>1. BlocksIn(0) = 0
  <2>1. Block * 0 = 0
    BY BlockAssumption
  <2> QED
    BY <2>1, BlocksAdd
<1>2. DOMAIN bs = 1..0
  BY <1>0, <1>1 DEF Blocks, BlocksIn
<1>3. Len(bs) = 0
  BY <1>2, BlocksLen
<1> HIDE DEF e, bs
<1>4. ASSUME NEW f, Items(f, 0) PROVE f = <<>>
  <2>1. IsSeq(f) /\ Len(f) = 0
    BY <1>4, FunctionIsSequence
  <2> QED
    BY <2>1, EmptySeq DEF IsSeq
<1>5. /\ Items(ecb_process(k, e, encrypting), 0)
      /\ Items(cbc_process(k, Initial(iv), e, encrypting), 0)
      /\ Items(ctr_process(k, Initial(iv), e), 0)
  BY <1>2 DEF ecb_process, cbc_process, ctr_process, Items, bs
<1>6. /\ ecb_process(k, e, encrypting) = <<>> /\ cbc_process(k, Initial(iv), e, encrypting) = <<>>
      /\ ctr_process(k, Initial(iv), e) = <<>>
  BY <1>4, <1>5
<1>7. CbcChain(k, Initial(iv), e, encrypting)[0] = Initial(iv)
  <2> DEFINE z == 0
  <2>1. z \in Nat /\ DOMAIN Blocks(e) = 1..z
    BY <1>2 DEF bs
  <2> HIDE DEF z
  <2>2. CbcHolds(CbcChain(k, Initial(iv), e, encrypting), z, k, Initial(iv), Blocks(e), encrypting)
    BY <2>1, CbcChainIs
  <2> QED
    BY <2>2 DEF CbcHolds
<1>8. Initial(iv) = <<Initial(iv)[1], Initial(iv)[2] + 0>>
  BY DEF Initial
<1>9. ECB # CBC /\ ECB # CTR /\ CBC # CTR
  BY DEF ECB, CBC, CTR
<1>10. /\ ModeOut(mode, k, Initial(iv), e, encrypting) = <<>>
       /\ ModeChain(mode, k, Initial(iv), e, encrypting) = Initial(iv)
  BY <1>3, <1>6, <1>7, <1>8, <1>9 DEF ModeOut, ModeChain, Modes, bs
<1> QED
  BY <1>10 DEF e

\* The input that a mode takes: whole blocks, but for the last input of CTR.
Fits(mode, key, data, is_final) ==
    /\ key.len \in {16, 24, 32} /\ mode \in Modes
    /\ Len(data) % Block = 0 \/ (mode = CTR /\ is_final)

\* What a Final makes of its input.
Completed(mode, key, chain, data, encrypting) ==
    apply_mode(mode, key, chain, data, encrypting, TRUE)

\* An update of a cipher that succeeds is one pass of its mode over the input.
LEMMA ApplyPart ==
    ASSUME NEW mode, NEW key, NEW chain, NEW data, NEW encrypting,
           Processed(mode, key, chain, data, encrypting).sw = NO_ERROR
    PROVE  /\ Fits(mode, key, data, FALSE)
           /\ Processed(mode, key, chain, data, encrypting).out =
                ModeOut(mode, key.v, chain, data, encrypting)
           /\ Processed(mode, key, chain, data, encrypting).chain =
                ModeChain(mode, key.v, chain, data, encrypting)
BY DEF Processed, apply_mode, Fits, ModeOut, ModeChain, NO_ERROR, CONDITIONS_NOT_SATISFIED, WRONG_DATA

\* So is the final step.
LEMMA ApplyLast ==
    ASSUME NEW mode, NEW key, NEW chain, NEW data, NEW encrypting
    PROVE  /\ Completed(mode, key, chain, data, encrypting).sw = NO_ERROR =>
                Fits(mode, key, data, TRUE)
           /\ Fits(mode, key, data, TRUE) =>
                Completed(mode, key, chain, data, encrypting).out =
                  ModeOut(mode, key.v, chain, data, encrypting)
BY DEF Completed, apply_mode, Fits, ModeOut, ModeChain, NO_ERROR, CONDITIONS_NOT_SATISFIED, WRONG_DATA

\* Whole blocks before a string do not change whether it is of whole blocks.
LEMMA WholeBefore ==
    ASSUME NEW a \in Seq(Nat), NEW b \in Seq(Nat), NEW n \in Nat, Whole(a, n)
    PROVE  Len(Cat(a, b)) % Block = Len(b) % Block
<1>0. Block \in Nat \ {0}
  BY BlockAssumption
<1>1. Len(Cat(a, b)) = Block * n + Len(b) /\ Len(b) \in Nat
  BY JoinStrings DEF Cat, Whole
<1>2. PICK q \in Nat, r \in 0..(Block - 1) : Len(b) = (q * Block) + r
  BY <1>0, <1>1, Divided
<1>3. Len(Cat(a, b)) = ((n + q) * Block) + r /\ n + q \in Nat
  BY <1>0, <1>1, <1>2
<1>4. Len(b) % Block = r
  BY <1>0, <1>2, Remainder
<1>5. Len(Cat(a, b)) % Block = r
  <2> DEFINE p == n + q
             z == Len(Cat(a, b))
  <2>1. p \in Nat /\ z = (p * Block) + r
    BY <1>3
  <2> HIDE DEF p, z
  <2>2. z % Block = r
    BY <1>0, <2>1, Remainder
  <2> QED
    BY <2>2 DEF z
<1> QED
  BY <1>4, <1>5

\* Three sequences in a row.
LEMMA CatAssociative ==
    ASSUME NEW a \in Seq(Nat), NEW b \in Seq(Nat), NEW c \in Seq(Nat)
    PROVE  Cat(Cat(a, b), c) = Cat(a, Cat(b, c))
BY ConcatAssociative DEF Cat

\* A running cipher went through the whole blocks of what was fed into it, and the rest is
\* pending: what came out and the chaining value are those of one pass over the whole blocks.
InStep(mode, encrypting, chain, pending, k, iv, fed, out) ==
    \E whole \in Seq(Nat), n \in Nat :
        /\ Whole(whole, n) /\ fed = Cat(whole, pending)
        /\ out = ModeOut(mode, k, Initial(iv), whole, encrypting)
        /\ chain = ChainAfter(mode, k, iv, whole, encrypting)

\* A cipher that was only initialised is in step with an empty input.
LEMMA InStepStarts ==
    ASSUME NEW mode \in Modes, NEW k, NEW iv, NEW encrypting
    PROVE  InStep(mode, encrypting, Initial(iv), <<>>, k, iv, <<>>, <<>>)
<1>1. <<>> \in Seq(Nat) /\ Len(<<>>) = 0 /\ <<>> \o <<>> = <<>>
  BY EmptySeq, ConcatEmptySeq
<1>2. 0 \in Nat /\ Block * 0 = 0
  BY BlockAssumption
<1>3. Whole(<<>>, 0) /\ Cat(<<>>, <<>>) = <<>>
  BY <1>1, <1>2 DEF Whole, Cat
<1> QED
  BY <1>1, <1>2, <1>3, NothingIn DEF InStep, ChainAfter

\* An update goes through the whole blocks of what is pending and what arrives.
SameBytes(pending, data, input, rest) == Cat(pending, data) = Cat(input, rest)

\* An update keeps it in step: whole blocks go through the mode, and the rest is pending.
LEMMA InStepContinues ==
    ASSUME NEW mode \in Modes, NEW encrypting, NEW chain, NEW pending \in Seq(Nat), NEW k, NEW iv,
           NEW fed, NEW out, InStep(mode, encrypting, chain, pending, k, iv, fed, out),
           NEW data \in Seq(Nat), NEW input \in Seq(Nat), NEW rest \in Seq(Nat), NEW m \in Nat,
           Whole(input, m), SameBytes(pending, data, input, rest)
    PROVE  InStep(mode, encrypting, ModeChain(mode, k, chain, input, encrypting), rest, k, iv,
                  Cat(fed, data), Cat(out, ModeOut(mode, k, chain, input, encrypting)))
<1>1. PICK whole \in Seq(Nat), n \in Nat :
        /\ Whole(whole, n) /\ fed = Cat(whole, pending)
        /\ out = ModeOut(mode, k, Initial(iv), whole, encrypting)
        /\ chain = ChainAfter(mode, k, iv, whole, encrypting)
  BY DEF InStep
<1> DEFINE both == Cat(whole, input)
<1>2. both \in Seq(Nat) /\ Whole(both, n + m) /\ n + m \in Nat
  <2>1. both \in Seq(Nat) /\ Len(both) = Len(whole) + Len(input)
    BY JoinStrings DEF Cat
  <2>2. Len(whole) = Block * n /\ Len(input) = Block * m /\ Block \in Nat
    BY <1>1, BlockAssumption DEF Whole
  <2>3. Block * n + Block * m = Block * (n + m)
    BY <2>2
  <2> QED
    BY <2>1, <2>2, <2>3 DEF Whole
<1>3. Cat(fed, data) = Cat(both, rest)
  <2>1. Cat(Cat(whole, pending), data) = Cat(whole, Cat(pending, data))
    BY CatAssociative
  <2>2. Cat(Cat(whole, input), rest) = Cat(whole, Cat(input, rest))
    BY CatAssociative
  <2> QED
    BY <1>1, <2>1, <2>2 DEF SameBytes
<1>4. /\ ModeOut(mode, k, Initial(iv), both, encrypting) =
           Cat(out, ModeOut(mode, k, chain, input, encrypting))
      /\ ChainAfter(mode, k, iv, both, encrypting) = ModeChain(mode, k, chain, input, encrypting)
  <2>1. Joins(mode, k, iv, whole, input, encrypting)
    BY <1>1, ModeJoin
  <2> QED
    BY <1>1, <2>1 DEF Joins
<1> HIDE DEF both
<1> QED
  BY <1>2, <1>3, <1>4 DEF InStep

\* A Final that goes through what is pending and what arrives completes one pass over everything.
OnePass(mode, key, chain, iv, pending, data, fed, out, encrypting) ==
    Cat(out, Completed(mode, key, chain, Cat(pending, data), encrypting).out) =
      Completed(mode, key, Initial(iv), Cat(fed, data), encrypting).out

\* The final step then makes the output that of one pass over everything.
LEMMA InStepEnds ==
    ASSUME NEW mode, NEW encrypting, NEW chain, NEW pending \in Seq(Nat), NEW key, NEW iv,
           NEW fed, NEW out, InStep(mode, encrypting, chain, pending, key.v, iv, fed, out),
           NEW data \in Seq(Nat),
           Completed(mode, key, chain, Cat(pending, data), encrypting).sw = NO_ERROR
    PROVE  OnePass(mode, key, chain, iv, pending, data, fed, out, encrypting)
<1> DEFINE end == Cat(pending, data)
           k == key.v
<1>1. PICK whole \in Seq(Nat), n \in Nat :
        /\ Whole(whole, n) /\ fed = Cat(whole, pending)
        /\ out = ModeOut(mode, k, Initial(iv), whole, encrypting)
        /\ chain = ChainAfter(mode, k, iv, whole, encrypting)
  BY DEF InStep
<1>2. end \in Seq(Nat)
  BY JoinStrings DEF Cat
<1>3. Cat(fed, data) = Cat(whole, end)
  <2>1. Cat(Cat(whole, pending), data) = Cat(whole, Cat(pending, data))
    BY CatAssociative
  <2> QED
    BY <1>1, <2>1
<1>4. Fits(mode, key, end, TRUE)
  BY ApplyLast
<1> HIDE DEF end
<1>5. Fits(mode, key, Cat(whole, end), TRUE)
  <2>1. Len(Cat(whole, end)) % Block = Len(end) % Block
    BY <1>1, <1>2, WholeBefore
  <2> QED
    BY <1>4, <2>1 DEF Fits
<1>6. mode \in Modes
  BY <1>4 DEF Fits
<1>7. Completed(mode, key, chain, end, encrypting).out = ModeOut(mode, k, chain, end, encrypting)
  BY <1>4, ApplyLast
<1>8. Completed(mode, key, Initial(iv), Cat(whole, end), encrypting).out =
        ModeOut(mode, k, Initial(iv), Cat(whole, end), encrypting)
  BY <1>5, ApplyLast
<1> HIDE DEF k
<1>9. ModeOut(mode, k, Initial(iv), Cat(whole, end), encrypting) =
        Cat(ModeOut(mode, k, Initial(iv), whole, encrypting),
            ModeOut(mode, k, ChainAfter(mode, k, iv, whole, encrypting), end, encrypting))
  <2>1. whole \in Seq(Nat) /\ n \in Nat /\ Whole(whole, n) /\ end \in Seq(Nat) /\ mode \in Modes
    BY <1>1, <1>2, <1>6
  <2>2. Joins(mode, k, iv, whole, end, encrypting)
    BY <2>1, ModeJoin
  <2> QED
    BY <2>2 DEF Joins
<1>10. Cat(out, Completed(mode, key, chain, end, encrypting).out) =
         Completed(mode, key, Initial(iv), Cat(fed, data), encrypting).out
  BY <1>1, <1>3, <1>7, <1>8, <1>9
<1> QED
  BY <1>10 DEF end, OnePass

\* What an Init that succeeds leaves: a context with nothing in it, for the key it names.
Fresh(ctx, c) ==
    /\ ctx.kind \in {"Digest", "Mac", "Cipher"}
    /\ ctx.kind # "Cipher" => ctx.data = <<>>
    /\ ctx.kind # "Digest" => ctx.key_id = c.id
    /\ ctx.kind = "Cipher" => ctx.pending = <<>> /\ ctx.chain = Initial(c.iv)

\* The store that Start leaves.
LEMMA StartLeaves ==
    ASSUME NEW s, IsStore(s), NEW x, NEW ctx
    PROVE  /\ Start(s, x, ctx).store.objects = s.objects
           /\ Start(s, x, ctx).store.crypto_objects[x] = ctx
<1> DEFINE t == [s EXCEPT !.crypto_objects = Insert(@, x, ctx)]
<1>1. t.crypto_objects = Insert(s.crypto_objects, x, ctx) /\ t.objects = s.objects
  BY DEF IsStore, Fields
<1>2. Start(s, x, ctx).store = t
  BY DEF Start, success, Reply
<1> HIDE DEF t
<1>3. Insert(s.crypto_objects, x, ctx)[x] = ctx
  BY DEF Insert
<1> QED
  BY <1>1, <1>2, <1>3

\* An Init leaves a fresh context, and the objects alone.
LEMMA InitLeaves ==
    ASSUME NEW s, IsStore(s), NEW c, c.cmd \in Inits, NEW r, r = dispatch(s, c, TRUE), r.sw = NO_ERROR
    PROVE  r.store.objects = s.objects /\ Fresh(r.store.crypto_objects[c.crypto], c)
<1> DEFINE x == c.crypto
<1>1. \A sw : error(s, sw).sw = sw
  BY DEF error, Reply
<1>2. CASE c.cmd = "DigestInit"
  <2> DEFINE ctx == [kind |-> "Digest", algo |-> Subtype(s, x), data |-> <<>>]
  <2>1. r = handle_digest_init(s, c)
    BY <1>2 DEF dispatch
  <2>2. r = Start(s, x, ctx)
    BY <1>1, <2>1, ErrorsAreErrors DEF handle_digest_init
  <2>3. Fresh(ctx, c)
    BY DEF Fresh
  <2> HIDE DEF ctx
  <2>4. Start(s, x, ctx).store.objects = s.objects /\ Start(s, x, ctx).store.crypto_objects[x] = ctx
    BY StartLeaves
  <2> QED
    BY <2>2, <2>3, <2>4
<1>3. CASE c.cmd = "CipherInit"
  <2> DEFINE ctx == [kind |-> "Cipher", encrypting |-> c.encrypting, mode |-> Subtype(s, x),
                     key_id |-> c.id, chain |-> Initial(c.iv), pending |-> <<>>]
  <2>1. r = handle_cipher_init(s, c)
    BY <1>3 DEF dispatch
  <2>2. r = Start(s, x, ctx)
    BY <1>1, <2>1, ErrorsAreErrors DEF handle_cipher_init
  <2>3. Fresh(ctx, c)
    BY DEF Fresh
  <2> HIDE DEF ctx
  <2>4. Start(s, x, ctx).store.objects = s.objects /\ Start(s, x, ctx).store.crypto_objects[x] = ctx
    BY StartLeaves
  <2> QED
    BY <2>2, <2>3, <2>4
<1>4. CASE c.cmd = "MacInit"
  <2> DEFINE ctx == [kind |-> "Mac", algo |-> Subtype(s, x), validate |-> c.validate,
                     key_id |-> c.id, data |-> <<>>]
  <2>1. r = handle_mac_init(s, c)
    BY <1>4 DEF dispatch
  <2>2. r = Start(s, x, ctx)
    BY <1>1, <2>1, ErrorsAreErrors DEF handle_mac_init
  <2>3. Fresh(ctx, c)
    BY DEF Fresh
  <2> HIDE DEF ctx
  <2>4. Start(s, x, ctx).store.objects = s.objects /\ Start(s, x, ctx).store.crypto_objects[x] = ctx
    BY StartLeaves
  <2> QED
    BY <2>2, <2>3, <2>4
<1> QED
  BY <1>2, <1>3, <1>4 DEF Inits

\* What an update that succeeds leaves of the context old: the data gathered, or the whole
\* blocks gone through with the key that the store holds.
Gathered(old, new, data, out) ==
    /\ new.data = Cat(old.data, data) /\ out = <<>>
    /\ old.kind = "Mac" => new.key_id = old.key_id

Advanced(old, new, key, data, out) ==
    /\ new.mode = old.mode /\ new.encrypting = old.encrypting /\ new.key_id = old.key_id
    /\ old.mode \in Modes
    /\ \E input \in Seq(Nat), m \in Nat :
         /\ Whole(input, m) /\ new.pending \in Seq(Nat)
         /\ SameBytes(old.pending, data, input, new.pending)
         /\ out = ModeOut(old.mode, key.v, old.chain, input, old.encrypting)
         /\ new.chain = ModeChain(old.mode, key.v, old.chain, input, old.encrypting)

UpdateLeft(s, c, old, new, out) ==
    /\ old.kind \in {"Digest", "Mac", "Cipher"} /\ new.kind = old.kind
    /\ old.kind # "Cipher" => Gathered(old, new, c.data, out)
    /\ old.kind = "Cipher" =>
         exists(s, old.key_id) /\ Advanced(old, new, s.objects[old.key_id].key, c.data, out)

\* The store in which the context x was replaced.
LEMMA PutLeaves ==
    ASSUME NEW s, IsStore(s), NEW x \in DOMAIN s.crypto_objects, NEW ctx
    PROVE  /\ [s EXCEPT !.crypto_objects[x] = ctx].objects = s.objects
           /\ [s EXCEPT !.crypto_objects[x] = ctx].crypto_objects[x] = ctx
<1> DEFINE v == [s.crypto_objects EXCEPT ![x] = ctx]
<1>1. v[x] = ctx
  OBVIOUS
<1>2. [s EXCEPT !.crypto_objects[x] = ctx] = [s EXCEPT !.crypto_objects = v]
  OBVIOUS
<1> HIDE DEF v
<1>3. [s EXCEPT !.crypto_objects = v].crypto_objects = v /\ [s EXCEPT !.crypto_objects = v].objects = s.objects
  BY DEF IsStore, Fields
<1> QED
  BY <1>1, <1>2, <1>3

\* A string is its first bytes and the rest.
LEMMA CutJoins ==
    ASSUME NEW s \in Seq(Nat), NEW a \in Nat, a <= Len(s)
    PROVE  Cat(SubSeq(s, 1, a), SubSeq(s, a + 1, Len(s))) = s
<1> DEFINE n == Len(s)
<1>1. n \in Nat
  BY LenProperties
<1>2. 1 \in 1..(n + 1) /\ a \in (1 - 1)..n /\ n \in a..n
  BY <1>1
<1>3. SubSeq(s, 1, a) \o SubSeq(s, a + 1, n) = SubSeq(s, 1, n)
  BY <1>2, ConcatAdjacentSubSeq
<1>4. SubSeq(s, 1, n) = s
  BY SubSeqFull
<1>5. Cat(SubSeq(s, 1, a), SubSeq(s, a + 1, n)) = SubSeq(s, 1, a) \o SubSeq(s, a + 1, n)
  BY DEF Cat
<1> HIDE DEF n
<1>6. Cat(SubSeq(s, 1, a), SubSeq(s, a + 1, n)) = s
  BY <1>3, <1>4, <1>5
<1> QED
  BY <1>6 DEF n

\* An update of a digest or a MAC leaves what it gathered.
LEMMA GatherLeaves ==
    ASSUME NEW s, IsStore(s), ContextsOk(s), NEW c, NEW r, r.sw = NO_ERROR,
           \/ r = handle_digest_update(s, c)
           \/ r = handle_mac_update(s, c)
    PROVE  /\ c.crypto \in DOMAIN s.crypto_objects /\ r.store.objects = s.objects
           /\ UpdateLeft(s, c, s.crypto_objects[c.crypto], r.store.crypto_objects[c.crypto], r.out)
<1> DEFINE x == c.crypto
           ctx == s.crypto_objects[x]
           next == [ctx EXCEPT !.data = @ \o c.data]
           t == [s EXCEPT !.crypto_objects[x] = next]
<1>1. \A sw : error(s, sw).sw = sw
  BY DEF error, Reply
<1>2. [s EXCEPT !.crypto_objects[c.crypto].data = @ \o c.data] = t
  OBVIOUS
<1> HIDE DEF t
<1>3. (Running(s, x, "Digest") \/ Running(s, x, "Mac")) /\ r = success(t)
  BY <1>1, <1>2, ErrorsAreErrors DEF handle_digest_update, handle_mac_update
<1>4. x \in DOMAIN s.crypto_objects /\ ctx.kind \in {"Digest", "Mac"}
  BY <1>3 DEF Running
<1>5. r.store = t /\ r.out = <<>>
  BY <1>3 DEF success, Reply
<1>6. /\ next.kind = ctx.kind /\ next.data = Cat(ctx.data, c.data)
      /\ ctx.kind = "Mac" => next.key_id = ctx.key_id
  <2>1. Belongs(ctx, s.crypto_object_types[x])
    BY <1>4 DEF ContextsOk, RunningOk
  <2>2. \/ ctx = [f \in DigestFields |-> ctx[f]] /\ ctx.kind = "Digest"
        \/ ctx = [f \in MacFields |-> ctx[f]]
    BY <1>4, <2>1 DEF Belongs
  <2> QED
    BY <2>2 DEF DigestFields, MacFields, Cat
<1> HIDE DEF next
<1>7. t.objects = s.objects /\ t.crypto_objects[x] = next
  BY <1>4, PutLeaves DEF t
<1> HIDE DEF ctx
<1>8. UpdateLeft(s, c, ctx, next, <<>>)
  <2>1. Gathered(ctx, next, c.data, <<>>)
    BY <1>6 DEF Gathered
  <2>2. ctx.kind \in {"Digest", "Mac", "Cipher"} /\ next.kind = ctx.kind /\ ctx.kind # "Cipher"
    BY <1>4, <1>6
  <2> QED
    BY <2>1, <2>2, Zenon DEF UpdateLeft
<1> QED
  BY <1>4, <1>5, <1>7, <1>8 DEF ctx

\* An update of a cipher leaves the rest of the bytes and the chaining value after the whole blocks.
LEMMA CipherLeaves ==
    ASSUME NEW s, IsStore(s), ContextsOk(s), PendingOk(s), NEW c, c.data \in Seq(Nat),
           NEW r
    PROVE  r = handle_cipher_update(s, c) /\ r.sw = NO_ERROR =>
             /\ c.crypto \in DOMAIN s.crypto_objects /\ r.store.objects = s.objects
             /\ UpdateLeft(s, c, s.crypto_objects[c.crypto], r.store.crypto_objects[c.crypto], r.out)
<1> DEFINE x == c.crypto
           ctx == s.crypto_objects[x]
           key == s.objects[ctx.key_id].key
           buffered == ctx.pending \o c.data
           aligned == Aligned(buffered)
           input == SubSeq(buffered, 1, aligned)
           rest == SubSeq(buffered, aligned + 1, Len(buffered))
           p == apply_mode(ctx.mode, key, ctx.chain, input, ctx.encrypting, FALSE)
           next == Continued(ctx, p.chain, rest)
           t == [s EXCEPT !.crypto_objects[x] = next]
<1>1. \A sw : error(s, sw).sw = sw
  BY DEF error, Reply
<1>2. [s EXCEPT !.crypto_objects[x] = Continued(@, p.chain, rest)] = t
  OBVIOUS
<1>a. \/ \E sw : sw # NO_ERROR /\ handle_cipher_update(s, c) = error(s, sw)
      \/ /\ Running(s, x, "Cipher") /\ p.sw = NO_ERROR
         /\ handle_cipher_update(s, c) = success_with(t, p.out)
  BY <1>2, ErrorsAreErrors, Zenon DEF handle_cipher_update, Aligned
<1>b. \/ \E sw : sw # NO_ERROR /\ handle_cipher_update(s, c) = error(s, sw)
      \/ Has(s, ctx.key_id, "AESKey")
  BY ErrorsAreErrors, Zenon DEF handle_cipher_update
<1> HIDE DEF t, p
<1> SUFFICES ASSUME r = handle_cipher_update(s, c), r.sw = NO_ERROR
             PROVE  /\ x \in DOMAIN s.crypto_objects /\ r.store.objects = s.objects
                    /\ UpdateLeft(s, c, ctx, r.store.crypto_objects[x], r.out)
  OBVIOUS
<1>3. /\ Running(s, x, "Cipher") /\ Has(s, ctx.key_id, "AESKey") /\ p.sw = NO_ERROR
      /\ r = success_with(t, p.out)
  BY <1>1, <1>a, <1>b
<1>4. /\ x \in DOMAIN s.crypto_objects /\ ctx.kind = "Cipher" /\ ctx.pending \in Seq(Nat)
      /\ exists(s, ctx.key_id)
  BY <1>3 DEF Running, PendingOk, Has
<1>5. r.store = t /\ r.out = p.out
  BY <1>3 DEF success_with, Reply
<1>6. buffered \in Seq(Nat) /\ Len(buffered) \in Nat /\ buffered = Cat(ctx.pending, c.data)
  BY <1>4, JoinStrings, LenProperties DEF Cat
<1> HIDE DEF buffered
<1>7. PICK m \in Nat : aligned \in Nat /\ aligned <= Len(buffered) /\ Block * m = aligned
  BY <1>6, WholeBlocks DEF Aligned
<1> HIDE DEF aligned
<1>8. input \in Seq(Nat) /\ Len(input) = aligned
  BY <1>6, <1>7, FirstBytes
<1>9. rest \in Seq(Nat)
  BY <1>6, <1>7, CutString
<1>10. SameBytes(ctx.pending, c.data, input, rest)
  <2>1. Cat(input, rest) = buffered
    BY <1>6, <1>7, CutJoins
  <2> QED
    BY <1>6, <2>1 DEF SameBytes
<1>11. Whole(input, m)
  BY <1>7, <1>8 DEF Whole
<1> HIDE DEF input, rest
<1>12. /\ ctx.mode \in Modes
       /\ p.out = ModeOut(ctx.mode, key.v, ctx.chain, input, ctx.encrypting)
       /\ p.chain = ModeChain(ctx.mode, key.v, ctx.chain, input, ctx.encrypting)
  <2>1. p = Processed(ctx.mode, key, ctx.chain, input, ctx.encrypting)
    BY DEF Processed, p
  <2> HIDE DEF key
  <2>2. p.sw = NO_ERROR
    BY <1>3
  <2> DEFINE mode == ctx.mode
             chain == ctx.chain
             encrypting == ctx.encrypting
  <2>3. p = Processed(mode, key, chain, input, encrypting)
    BY <2>1
  <2> HIDE DEF mode, chain, encrypting
  <2>4. /\ Fits(mode, key, input, FALSE) /\ p.out = ModeOut(mode, key.v, chain, input, encrypting)
        /\ p.chain = ModeChain(mode, key.v, chain, input, encrypting)
    BY <2>2, <2>3, ApplyPart
  <2> QED
    BY <2>4 DEF Fits, mode, chain, encrypting
<1> HIDE DEF key
<1>13. /\ next.kind = ctx.kind /\ next.mode = ctx.mode /\ next.encrypting = ctx.encrypting
       /\ next.key_id = ctx.key_id /\ next.chain = p.chain /\ next.pending = rest
  <2>1. Belongs(ctx, s.crypto_object_types[x])
    BY <1>4 DEF ContextsOk, RunningOk
  <2>2. ctx = [f \in CipherFields |-> ctx[f]]
    BY <1>4, <2>1 DEF Belongs
  <2> QED
    BY <2>2 DEF CipherFields, Continued
<1> HIDE DEF next
<1>14. t.objects = s.objects /\ t.crypto_objects[x] = next
  BY <1>4, PutLeaves DEF t
<1> HIDE DEF ctx
<1>15. Advanced(ctx, next, key, c.data, p.out)
  BY <1>8, <1>9, <1>10, <1>11, <1>12, <1>13 DEF Advanced
<1>16. UpdateLeft(s, c, ctx, next, p.out)
  BY <1>4, <1>13, <1>15 DEF UpdateLeft, key
<1> QED
  BY <1>4, <1>5, <1>14, <1>16

\* An Update that succeeds leaves a context that took the data, and the objects alone.
LEMMA UpdateLeaves ==
    ASSUME NEW s, IsStore(s), ContextsOk(s), PendingOk(s), NEW c, c.cmd \in Updates,
           c.data \in Seq(Nat), NEW r, r = dispatch(s, c, TRUE), r.sw = NO_ERROR
    PROVE  /\ c.crypto \in DOMAIN s.crypto_objects /\ r.store.objects = s.objects
           /\ UpdateLeft(s, c, s.crypto_objects[c.crypto], r.store.crypto_objects[c.crypto], r.out)
<1>1. CASE c.cmd = "DigestUpdate"
  <2>1. r = handle_digest_update(s, c)
    BY <1>1 DEF dispatch
  <2> QED
    BY <2>1, GatherLeaves
<1>2. CASE c.cmd = "CipherUpdate"
  <2>1. r = handle_cipher_update(s, c)
    BY <1>2 DEF dispatch
  <2> QED
    BY <2>1, CipherLeaves
<1>3. CASE c.cmd = "MacUpdate"
  <2>1. r = handle_mac_update(s, c)
    BY <1>3 DEF dispatch
  <2> QED
    BY <2>1, GatherLeaves
<1> QED
  BY <1>1, <1>2, <1>3 DEF Updates

\* The only member of a set.
LEMMA GetOne ==
    ASSUME NEW x
    PROVE  Get({x}) = x
BY DEF Get

\* What a Final that succeeds answers for the running context ctx and the key the store holds.
MacReply(validate, mac, expected) == IF validate THEN <<expected = {mac}>> ELSE <<mac>>

Ended(p, out) == p.sw = NO_ERROR /\ out = p.out

Answered(s, c, ctx, out) ==
    /\ ctx.kind \in {"Digest", "Mac", "Cipher"}
    /\ ctx.kind = "Digest" => out = <<<<"H", ctx.algo, Cat(ctx.data, c.data)>>>>
    /\ ctx.kind = "Mac" =>
         /\ exists(s, ctx.key_id)
         /\ out = MacReply(ctx.validate, <<"MAC", ctx.algo, s.objects[ctx.key_id].key.v,
                                           Cat(ctx.data, c.data)>>, c.expected)
    /\ ctx.kind = "Cipher" =>
         /\ exists(s, ctx.key_id)
         /\ Ended(Completed(ctx.mode, s.objects[ctx.key_id].key, ctx.chain,
                            Cat(ctx.pending, c.data), ctx.encrypting), out)

\* A Final that succeeds answers with what its context says.
LEMMA FinalLeaves ==
    ASSUME NEW s, NEW c, c.cmd \in Finals, NEW r, r = dispatch(s, c, TRUE), r.sw = NO_ERROR
    PROVE  c.crypto \in DOMAIN s.crypto_objects /\ Answered(s, c, s.crypto_objects[c.crypto], r.out)
<1> DEFINE x == c.crypto
           ctx == s.crypto_objects[x]
<1>1. \A t, sw : error(t, sw).sw = sw
  BY DEF error, Reply
<1>2. \A t, out : success_with(t, out).out = out
  BY DEF success_with, Reply
<1>a. ASSUME NEW t, NEW sw, sw # NO_ERROR PROVE r # error(t, sw)
  BY <1>1, <1>a
<1>3. CASE c.cmd = "DigestFinal"
  <2> DEFINE hash == compute_hash(ctx.algo, ctx.data \o c.data)
  <2>1. \/ \E t, sw : sw # NO_ERROR /\ handle_digest_final(s, c) = error(t, sw)
        \/ /\ Running(s, x, "Digest") /\ hash # {}
           /\ handle_digest_final(s, c) = success_with(Take(s, x), <<Get(hash)>>)
    BY ErrorsAreErrors, Zenon DEF handle_digest_final
  <2>2. r = handle_digest_final(s, c)
    BY <1>3 DEF dispatch
  <2>3. hash # {} => Get(hash) = <<"H", ctx.algo, Cat(ctx.data, c.data)>>
    <3> DEFINE h == <<"H", ctx.algo, ctx.data \o c.data>>
    <3>1. hash = {} \/ hash = {h}
      BY DEF compute_hash
    <3> HIDE DEF hash, h
    <3>2. Get({h}) = h
      BY GetOne
    <3>3. h = <<"H", ctx.algo, Cat(ctx.data, c.data)>>
      BY DEF h, Cat
    <3> QED
      BY <3>1, <3>2, <3>3
  <2> HIDE DEF hash
  <2>4. Running(s, x, "Digest") /\ hash # {} /\ r.out = <<Get(hash)>>
    <3>1. /\ Running(s, x, "Digest") /\ hash # {} /\ r = success_with(Take(s, x), <<Get(hash)>>)
      BY <1>a, <2>1, <2>2, Zenon
    <3> QED
      BY <1>2, <3>1
  <2>5. x \in DOMAIN s.crypto_objects /\ ctx.kind = "Digest"
    BY <2>4 DEF Running
  <2> QED
    BY <2>3, <2>4, <2>5, Zenon DEF Answered
<1>4. CASE c.cmd = "MacFinal"
  <2> DEFINE data == ctx.data \o c.data
             mac == <<"MAC", ctx.algo, s.objects[ctx.key_id].key.v, data>>
             calc == compute_mac(s, ctx.algo, ctx.key_id, data)
             answer == IF ctx.validate THEN <<c.expected = {calc[2]}>> ELSE <<calc[2]>>
  <2>1. \/ \E t, sw : sw # NO_ERROR /\ handle_mac_final(s, c) = error(t, sw)
        \/ /\ Running(s, x, "Mac")
           /\ handle_mac_final(s, c) = MacAnswer(s, Take(s, x), ctx.algo, ctx.key_id, data,
                                                 ctx.validate, c.expected)
    BY ErrorsAreErrors, Zenon DEF handle_mac_final
  <2>2. \/ \E t, sw : /\ sw # NO_ERROR
                      /\ MacAnswer(s, Take(s, x), ctx.algo, ctx.key_id, data, ctx.validate,
                                   c.expected) = error(t, sw)
        \/ /\ exists(s, ctx.key_id) /\ calc[1] = NO_ERROR
           /\ MacAnswer(s, Take(s, x), ctx.algo, ctx.key_id, data, ctx.validate, c.expected) =
                success_with(Take(s, x), answer)
    BY ErrorsAreErrors, Zenon DEF MacAnswer
  <2>3. r = handle_mac_final(s, c)
    BY <1>4 DEF dispatch
  <2>4. calc[1] = NO_ERROR => calc[2] = mac
    <3> HIDE DEF data
    <3> QED
      BY ErrorsAreErrors DEF compute_mac
  <2> HIDE DEF calc, answer
  <2>5. /\ Running(s, x, "Mac") /\ exists(s, ctx.key_id) /\ calc[1] = NO_ERROR /\ r.out = answer
    <3>1. /\ Running(s, x, "Mac") /\ exists(s, ctx.key_id) /\ calc[1] = NO_ERROR
          /\ r = success_with(Take(s, x), answer)
      BY <1>a, <2>1, <2>2, <2>3, Zenon
    <3> QED
      BY <1>2, <3>1
  <2>6. x \in DOMAIN s.crypto_objects /\ ctx.kind = "Mac"
    BY <2>5 DEF Running
  <2>7. answer = MacReply(ctx.validate, calc[2], c.expected)
    BY DEF answer, MacReply
  <2>8. mac = <<"MAC", ctx.algo, s.objects[ctx.key_id].key.v, Cat(ctx.data, c.data)>>
    BY DEF Cat
  <2> HIDE DEF mac
  <2>9. r.out = MacReply(ctx.validate, mac, c.expected)
    BY <2>4, <2>5, <2>7
  <2> QED
    BY <2>5, <2>6, <2>8, <2>9, Zenon DEF Answered
<1>5. CASE c.cmd = "CipherFinal"
  <2> DEFINE p == apply_mode(ctx.mode, s.objects[ctx.key_id].key, ctx.chain, ctx.pending \o c.data,
                             ctx.encrypting, TRUE)
  <2>1. \/ \E t, sw : sw # NO_ERROR /\ handle_cipher_final(s, c) = error(t, sw)
        \/ /\ Running(s, x, "Cipher") /\ Has(s, ctx.key_id, "AESKey") /\ p.sw = NO_ERROR
           /\ handle_cipher_final(s, c) = success_with(Take(s, x), p.out)
    BY ErrorsAreErrors, Zenon DEF handle_cipher_final
  <2>2. r = handle_cipher_final(s, c)
    BY <1>5 DEF dispatch
  <2>3. p = Completed(ctx.mode, s.objects[ctx.key_id].key, ctx.chain, Cat(ctx.pending, c.data),
                      ctx.encrypting)
    BY DEF Completed, Cat
  <2> HIDE DEF p
  <2>4. /\ Running(s, x, "Cipher") /\ Has(s, ctx.key_id, "AESKey") /\ p.sw = NO_ERROR
        /\ r.out = p.out
    <3>1. /\ Running(s, x, "Cipher") /\ Has(s, ctx.key_id, "AESKey") /\ p.sw = NO_ERROR
          /\ r = success_with(Take(s, x), p.out)
      BY <1>a, <2>1, <2>2, Zenon
    <3> QED
      BY <1>2, <3>1
  <2>5. x \in DOMAIN s.crypto_objects /\ ctx.kind = "Cipher" /\ exists(s, ctx.key_id)
    BY <2>4 DEF Running, Has
  <2>6. Ended(p, r.out)
    BY <2>4 DEF Ended
  <2> QED
    BY <2>3, <2>5, <2>6, Zenon DEF Answered
<1> QED
  BY <1>3, <1>4, <1>5 DEF Finals

-----------------------------------------------------------------------------
\* The history of a running context and the context say the same, and as long as nobody touched
\* the key the history holds the key that the store holds.
Tracks(ctx, e) ==
    /\ ctx.kind # "Cipher" => ctx.data = e.fed /\ e.out = <<>>
    /\ ctx.kind # "Digest" => ctx.key_id = e.key_id
    /\ ctx.kind = "Cipher" /\ ctx.mode \in Modes /\ ~e.rekeyed =>
         InStep(ctx.mode, ctx.encrypting, ctx.chain, ctx.pending, Get(e.key).key.v, e.iv, e.fed, e.out)

SameKey(s, e) == ~e.rekeyed => e.key = KeyOf(s, e.key_id)

\* The two entries differ in nothing but what was fed and what came out.
SameContext(f, e) == f.key_id = e.key_id /\ f.key = e.key /\ f.iv = e.iv /\ f.rekeyed = e.rekeyed

\* A note that the key has changed takes nothing from what an entry of the history says.
LEMMA RekeyedKeeps ==
    ASSUME NEW e, IsEntry(e), NEW r
    PROVE  /\ IsEntry(Rekeyed(e, r)) /\ SameKey(r.store, Rekeyed(e, r))
           /\ \A ctx : Tracks(ctx, e) => Tracks(ctx, Rekeyed(e, r))
<1> DEFINE f == Rekeyed(e, r)
<1>1. /\ IsEntry(f) /\ f.key_id = e.key_id /\ f.key = e.key /\ f.iv = e.iv /\ f.fed = e.fed
      /\ f.out = e.out /\ f.rekeyed = (e.rekeyed \/ KeyOf(r.store, e.key_id) # e.key)
  BY DEF IsEntry, EntryFields, Rekeyed
<1> HIDE DEF f
<1>2. SameKey(r.store, f)
  BY <1>1, Zenon DEF SameKey
<1>3. ASSUME NEW ctx, Tracks(ctx, e) PROVE Tracks(ctx, f)
  BY <1>1, <1>3, Zenon DEF Tracks
<1> QED
  BY <1>1, <1>2, <1>3 DEF f

\* The entry of the history after more data.
LEMMA FedFields ==
    ASSUME NEW e, IsEntry(e), NEW c, NEW r
    PROVE  /\ IsEntry(Fed(e, c, r)) /\ SameContext(Fed(e, c, r), e)
           /\ Fed(e, c, r).fed = Cat(e.fed, c.data) /\ Fed(e, c, r).out = Cat(e.out, r.out)
           /\ \A s : SameKey(s, e) => SameKey(s, Fed(e, c, r))
<1> DEFINE f == Fed(e, c, r)
<1>1. /\ IsEntry(f) /\ f.key_id = e.key_id /\ f.key = e.key /\ f.iv = e.iv /\ f.rekeyed = e.rekeyed
      /\ f.fed = Cat(e.fed, c.data) /\ f.out = Cat(e.out, r.out)
  BY DEF IsEntry, EntryFields, Fed, Cat
<1> HIDE DEF f
<1>2. \A s : SameKey(s, e) => SameKey(s, f)
  BY <1>1, Zenon DEF SameKey
<1> QED
  BY <1>1, <1>2 DEF f, SameContext

\* A context that was just started, and its entry.
LEMMA StartTracks ==
    ASSUME NEW ctx, NEW c, Fresh(ctx, c), NEW t, t.objects = store.objects
    PROVE  Tracks(ctx, Started(c)) /\ SameKey(t, Started(c)) /\ IsEntry(Started(c))
<1> DEFINE e == Started(c)
<1>1. /\ IsEntry(e) /\ e.key_id = c.id /\ e.key = KeyOf(store, c.id) /\ e.iv = c.iv
      /\ e.fed = <<>> /\ e.out = <<>>
  BY DEF IsEntry, EntryFields, Started
<1> HIDE DEF e
<1>2. KeyOf(t, c.id) = KeyOf(store, c.id)
  BY DEF KeyOf, exists
<1>3. SameKey(t, e)
  BY <1>1, <1>2 DEF SameKey
<1>4. ASSUME ctx.kind = "Cipher", ctx.mode \in Modes
      PROVE  InStep(ctx.mode, ctx.encrypting, ctx.chain, ctx.pending, Get(e.key).key.v, e.iv, e.fed, e.out)
  <2> DEFINE k == Get(e.key).key.v
             mode == ctx.mode
             encrypting == ctx.encrypting
             iv == c.iv
  <2>1. mode \in Modes /\ ctx.pending = <<>> /\ ctx.chain = Initial(iv)
    BY <1>4 DEF Fresh
  <2> HIDE DEF k, mode, encrypting, iv
  <2>2. InStep(mode, encrypting, Initial(iv), <<>>, k, iv, <<>>, <<>>)
    BY <2>1, InStepStarts
  <2> QED
    BY <1>1, <2>1, <2>2 DEF k, mode, encrypting, iv
<1>5. Tracks(ctx, e)
  <2>1. ctx.kind # "Cipher" => ctx.data = e.fed /\ e.out = <<>>
    BY <1>1 DEF Fresh
  <2>2. ctx.kind # "Digest" => ctx.key_id = e.key_id
    BY <1>1 DEF Fresh
  <2> QED
    BY <1>4, <2>1, <2>2, Zenon DEF Tracks
<1> QED
  BY <1>1, <1>3, <1>5 DEF e

\* The key of a context that nobody touched.
LEMMA KeyIs ==
    ASSUME NEW s, NEW e, SameKey(s, e), ~e.rekeyed, exists(s, e.key_id)
    PROVE  Get(e.key) = s.objects[e.key_id]
<1>1. e.key = {s.objects[e.key_id]}
  BY DEF SameKey, KeyOf
<1> QED
  BY <1>1, GetOne

\* A context that was fed, and its entry.
LEMMA UpdateTracks ==
    ASSUME NEW s, NEW c, c.data \in Seq(Nat), NEW old, NEW new, NEW r, NEW e, IsEntry(e),
           Tracks(old, e), SameKey(s, e), UpdateLeft(s, c, old, new, r.out),
           old.kind = "Cipher" => old.pending \in Seq(Nat)
    PROVE  Tracks(new, Fed(e, c, r))
<1> DEFINE f == Fed(e, c, r)
<1>1. /\ f.key_id = e.key_id /\ f.key = e.key /\ f.iv = e.iv /\ f.rekeyed = e.rekeyed
      /\ f.fed = Cat(e.fed, c.data) /\ f.out = Cat(e.out, r.out)
  BY FedFields DEF SameContext
<1> HIDE DEF f
<1>2. CASE old.kind # "Cipher"
  <2>1. new.kind = old.kind /\ Gathered(old, new, c.data, r.out) /\ old.kind \in {"Digest", "Mac"}
    BY <1>2 DEF UpdateLeft
  <2>2. old.data = e.fed /\ e.out = <<>> /\ (old.kind # "Digest" => old.key_id = e.key_id)
    BY <1>2 DEF Tracks
  <2>3. Cat(<<>>, <<>>) = <<>>
    BY ConcatEmptySeq, EmptySeq DEF Cat
  <2>4. new.data = f.fed /\ f.out = <<>>
    BY <1>1, <2>1, <2>2, <2>3 DEF Gathered
  <2>5. new.kind # "Digest" => new.key_id = f.key_id
    BY <1>1, <2>1, <2>2 DEF Gathered
  <2>6. new.kind # "Cipher"
    BY <1>2, <2>1
  <2> QED
    BY <2>4, <2>5, <2>6, Zenon DEF Tracks, f
<1>3. CASE old.kind = "Cipher"
  <2>1. /\ new.kind = "Cipher" /\ exists(s, old.key_id) /\ old.pending \in Seq(Nat)
        /\ Advanced(old, new, s.objects[old.key_id].key, c.data, r.out)
    BY <1>3 DEF UpdateLeft
  <2>2. /\ new.mode = old.mode /\ new.encrypting = old.encrypting /\ new.key_id = old.key_id
        /\ old.mode \in Modes
    BY <2>1 DEF Advanced
  <2>3. old.key_id = e.key_id
    BY <1>3 DEF Tracks
  <2>4. ASSUME ~f.rekeyed
        PROVE  InStep(new.mode, new.encrypting, new.chain, new.pending, Get(f.key).key.v, f.iv,
                      f.fed, f.out)
    <3> DEFINE k == s.objects[old.key_id].key.v
               mode == old.mode
               encrypting == old.encrypting
               chain == old.chain
               pending == old.pending
    <3>1. Get(e.key) = s.objects[e.key_id] /\ ~e.rekeyed
      BY <1>1, <2>1, <2>3, <2>4, KeyIs
    <3>2. InStep(mode, encrypting, chain, pending, k, e.iv, e.fed, e.out)
      BY <1>3, <2>2, <2>3, <3>1, Zenon DEF Tracks
    <3>3. PICK input \in Seq(Nat), m \in Nat :
            /\ Whole(input, m) /\ new.pending \in Seq(Nat)
            /\ SameBytes(pending, c.data, input, new.pending)
            /\ r.out = ModeOut(mode, k, chain, input, encrypting)
            /\ new.chain = ModeChain(mode, k, chain, input, encrypting)
      BY <2>1 DEF Advanced
    <3>4. mode \in Modes /\ pending \in Seq(Nat)
      BY <2>1, <2>2
    <3> HIDE DEF k, mode, encrypting, chain, pending
    <3> DEFINE iv == e.iv
               fed == e.fed
               out == e.out
               data == c.data
               rest == new.pending
    <3>5. /\ InStep(mode, encrypting, chain, pending, k, iv, fed, out) /\ rest \in Seq(Nat)
          /\ data \in Seq(Nat) /\ SameBytes(pending, data, input, rest) /\ Whole(input, m)
      BY <3>2, <3>3
    <3> HIDE DEF iv, fed, out, data, rest
    <3>6. InStep(mode, encrypting, ModeChain(mode, k, chain, input, encrypting), rest, k, iv,
                 Cat(fed, data), Cat(out, ModeOut(mode, k, chain, input, encrypting)))
      BY <3>4, <3>5, InStepContinues
    <3>7. InStep(mode, encrypting, new.chain, new.pending, k, e.iv, f.fed, f.out)
      BY <1>1, <3>3, <3>6 DEF iv, fed, out, data, rest
    <3>8. k = Get(f.key).key.v /\ e.iv = f.iv /\ mode = new.mode /\ encrypting = new.encrypting
      BY <1>1, <2>2, <2>3, <3>1 DEF k, mode, encrypting
    <3> QED
      BY <3>7, <3>8
  <2>5. new.key_id = f.key_id
    BY <1>1, <2>2, <2>3
  <2> QED
    BY <2>1, <2>4, <2>5, Zenon DEF Tracks, f
<1> QED
  BY <1>2, <1>3

\* A context that was finished: what came out of it is the one-shot result.
EndsOneShot(ctx, entry, expected) == entry.out = OneShot(ctx, entry, expected)

\* A Final of a context that is in step with the history gives the one-shot answer.
LEMMA FinalTracks ==
    ASSUME NEW s, NEW c, c.data \in Seq(Nat), NEW ctx, NEW r, NEW e, IsEntry(e), ~e.rekeyed,
           Tracks(ctx, e), SameKey(s, e), Answered(s, c, ctx, r.out),
           ctx.kind = "Cipher" => ctx.pending \in Seq(Nat)
    PROVE  EndsOneShot(ctx, Fed(e, c, r), c.expected)
<1> DEFINE f == Fed(e, c, r)
<1>1. /\ f.key_id = e.key_id /\ f.key = e.key /\ f.iv = e.iv
      /\ f.fed = Cat(e.fed, c.data) /\ f.out = Cat(e.out, r.out)
  BY FedFields DEF SameContext
<1> HIDE DEF f
<1>2. ASSUME NEW z PROVE Cat(<<>>, <<z>>) = <<z>>
  <2>1. <<z>> \in Seq({z})
    OBVIOUS
  <2> QED
    BY <2>1, ConcatEmptySeq DEF Cat
<1>3. CASE ctx.kind = "Digest"
  <2>1. ctx.data = e.fed /\ e.out = <<>> /\ r.out = <<<<"H", ctx.algo, Cat(ctx.data, c.data)>>>>
    BY <1>3 DEF Tracks, Answered
  <2> DEFINE h == <<"H", ctx.algo, f.fed>>
  <2>2. r.out = <<h>>
    BY <1>1, <2>1
  <2> HIDE DEF h
  <2>3. f.out = <<h>>
    BY <1>1, <1>2, <2>1, <2>2
  <2>4. OneShot(ctx, f, c.expected) = <<h>>
    BY <1>3 DEF OneShot, h
  <2> QED
    BY <2>3, <2>4 DEF f, EndsOneShot
<1>4. CASE ctx.kind = "Mac"
  <2> DEFINE mac == OneShotMac(ctx, f)
  <2>1. ctx.data = e.fed /\ e.out = <<>> /\ ctx.key_id = e.key_id /\ exists(s, ctx.key_id)
    BY <1>4 DEF Tracks, Answered
  <2>2. Get(e.key) = s.objects[e.key_id]
    BY <2>1, KeyIs
  <2>3. mac = <<"MAC", ctx.algo, s.objects[ctx.key_id].key.v, Cat(ctx.data, c.data)>>
    BY <1>1, <2>1, <2>2 DEF OneShotMac
  <2> HIDE DEF mac
  <2>4. r.out = MacReply(ctx.validate, mac, c.expected)
    BY <1>4, <2>3, Zenon DEF Answered
  <2>5. \E z : MacReply(ctx.validate, mac, c.expected) = <<z>>
    BY Zenon DEF MacReply
  <2>6. f.out = MacReply(ctx.validate, mac, c.expected)
    BY <1>1, <1>2, <2>1, <2>4, <2>5
  <2>7. OneShot(ctx, f, c.expected) = MacReply(ctx.validate, mac, c.expected)
    BY <1>4 DEF OneShot, MacReply, mac
  <2> QED
    BY <2>6, <2>7 DEF f, EndsOneShot
<1>5. CASE ctx.kind = "Cipher"
  <2> DEFINE key == s.objects[ctx.key_id].key
             mode == ctx.mode
             encrypting == ctx.encrypting
             chain == ctx.chain
             pending == ctx.pending
             iv == e.iv
             fed == e.fed
             out == e.out
             data == c.data
  <2>1. exists(s, ctx.key_id) /\ Ended(Completed(mode, key, chain, Cat(pending, data), encrypting), r.out)
    BY <1>5, Zenon DEF Answered
  <2>2. ctx.key_id = e.key_id
    BY <1>5 DEF Tracks
  <2>3. Get(e.key) = s.objects[e.key_id]
    BY <2>1, <2>2, KeyIs
  <2>a. key = Get(e.key).key
    BY <2>2, <2>3
  <2>b. pending \in Seq(Nat) /\ data \in Seq(Nat)
    BY <1>5
  <2>4. mode \in Modes => InStep(mode, encrypting, chain, pending, key.v, iv, fed, out)
    BY <1>5, <2>2, <2>3, Zenon DEF Tracks
  <2>5. OneShot(ctx, f, c.expected) = Completed(mode, key, Initial(iv), Cat(fed, data), encrypting).out
    <3>1. OneShot(ctx, f, c.expected) =
            apply_mode(ctx.mode, Get(f.key).key, Initial(f.iv), f.fed, ctx.encrypting, TRUE).out
      BY <1>5 DEF OneShot
    <3>2. Get(f.key).key = key /\ f.iv = iv /\ f.fed = Cat(fed, data)
      BY <1>1, <2>a
    <3> HIDE DEF key, iv, fed, data
    <3> QED
      BY <3>1, <3>2 DEF Completed
  <2>6. f.out = Cat(out, r.out)
    BY <1>1
  <2> HIDE DEF key, mode, encrypting, chain, pending, iv, fed, out, data
  <2>7. /\ Completed(mode, key, chain, Cat(pending, data), encrypting).sw = NO_ERROR
        /\ r.out = Completed(mode, key, chain, Cat(pending, data), encrypting).out
    BY <2>1 DEF Ended
  <2>8. mode \in Modes
    <3>1. Fits(mode, key, Cat(pending, data), TRUE)
      BY <2>7, ApplyLast
    <3> QED
      BY <3>1 DEF Fits
  <2>9. Cat(out, Completed(mode, key, chain, Cat(pending, data), encrypting).out) =
          Completed(mode, key, Initial(iv), Cat(fed, data), encrypting).out
    <3>1. OnePass(mode, key, chain, iv, pending, data, fed, out, encrypting)
      BY <2>b, <2>4, <2>7, <2>8, InStepEnds
    <3> QED
      BY <3>1 DEF OnePass
  <2> QED
    BY <2>5, <2>6, <2>7, <2>9 DEF f, EndsOneShot
<1> QED
  BY <1>3, <1>4, <1>5 DEF Answered

TracksAll(s, entries) ==
    \A x \in DOMAIN s.crypto_objects : Tracks(s.crypto_objects[x], entries[x]) /\ SameKey(s, entries[x])

\* The inductive invariant.
OneShotInv == TracksAll(store, log)

\* A command and its record in the history keep it.
LEMMA TracksKept ==
    ASSUME NEW c \in Commands, NEW r, r = dispatch(store, c, TRUE),
           Good(store), CountersOk(store), ContextsOk(store), StreamsInv, OneShotInv
    PROVE  TracksAll(r.store, Logged(c, r))
<1> DEFINE old == store.crypto_objects
           new == r.store.crypto_objects
           running == [x \in DOMAIN log \cap DOMAIN new |-> Rekeyed(log[x], r)]
<1>0. /\ DOMAIN log = DOMAIN old
      /\ \A x \in DOMAIN old :
           /\ IsEntry(log[x])
           /\ old[x].kind = "Cipher" => Accounted(log[x].fed, log[x].out, old[x].pending)
  BY DEF StreamsInv, AccountedFor
<1>1. PendingOk(store)
  <2> SUFFICES ASSUME NEW x \in DOMAIN old, old[x].kind = "Cipher"
               PROVE  old[x].pending \in Seq(Nat)
    BY DEF PendingOk
  <2>1. Accounted(log[x].fed, log[x].out, old[x].pending)
    BY <1>0
  <2> QED
    BY <2>1, PendingIsString
<1>2. Drops(store, c, r) \/ Starts(store, c, r) \/ Continues(store, c, r)
  BY <1>1, DispatchEffect
<1>3. DOMAIN running = DOMAIN old \cap DOMAIN new
  BY <1>0
<1>4. ASSUME NEW x \in DOMAIN running
      PROVE  IsEntry(running[x]) /\ SameKey(r.store, running[x]) /\ Tracks(old[x], running[x])
  <2>1. running[x] = Rekeyed(log[x], r) /\ x \in DOMAIN old
    BY <1>3
  <2>2. IsEntry(log[x]) /\ Tracks(old[x], log[x])
    BY <1>0, <2>1 DEF OneShotInv, TracksAll
  <2> HIDE DEF running, old
  <2> QED
    BY <2>1, <2>2, RekeyedKeeps
<1>5. /\ r.sw # NO_ERROR => Logged(c, r) = running
      /\ r.sw = NO_ERROR /\ c.cmd \in Inits => Logged(c, r) = Insert(running, c.crypto, Started(c))
      /\ r.sw = NO_ERROR /\ c.cmd \in Updates =>
           Logged(c, r) = Insert(running, c.crypto, Fed(running[c.crypto], c, r))
      /\ c.cmd \notin Inits \cup Updates => Logged(c, r) = running
  BY DEF Logged, Inits, Updates
<1>6. IsStore(store)
  BY DEF Good
<1> HIDE DEF running, old, new
<1> SUFFICES ASSUME NEW y \in DOMAIN new
             PROVE  Tracks(new[y], Logged(c, r)[y]) /\ SameKey(r.store, Logged(c, r)[y])
  BY DEF TracksAll, new
<1>7. CASE Drops(store, c, r)
  <2>1. Logged(c, r) = running
    BY <1>5, <1>7 DEF Drops
  <2>2. y \in DOMAIN old /\ new[y] = old[y]
    BY <1>7 DEF Drops, old, new
  <2> QED
    BY <1>3, <1>4, <2>1, <2>2
<1>8. ASSUME NEW x, NEW entry, Logged(c, r) = Insert(running, x, entry),
             NEW ctx, Sets(old, new, x, ctx), y # x
      PROVE  Tracks(new[y], Logged(c, r)[y]) /\ SameKey(r.store, Logged(c, r)[y])
  <2>1. /\ y \in DOMAIN running /\ y \in DOMAIN old /\ new[y] = old[y]
        /\ Insert(running, x, entry)[y] = running[y]
    BY <1>3, <1>8 DEF Sets, Insert
  <2> QED
    BY <1>4, <1>8, <2>1
<1>9. CASE Starts(store, c, r)
  <2> DEFINE x == c.crypto
             entry == Started(c)
  <2>1. Logged(c, r) = Insert(running, x, entry)
    BY <1>5, <1>9 DEF Starts
  <2>2. PICK ctx : Sets(old, new, x, ctx)
    BY <1>9 DEF Starts, old, new
  <2>3. CASE y = x
    <3>1. Logged(c, r)[y] = entry
      BY <2>1, <2>3 DEF Insert
    <3>2. r.store.objects = store.objects /\ Fresh(new[x], c)
      BY <1>6, <1>9, InitLeaves DEF Starts, new
    <3>3. Tracks(new[x], entry) /\ SameKey(r.store, entry)
      BY <3>2, StartTracks
    <3> QED
      BY <2>3, <3>1, <3>3
  <2> QED
    BY <1>8, <2>1, <2>2, <2>3
<1>10. CASE Continues(store, c, r)
  <2> DEFINE x == c.crypto
             e == running[x]
             entry == Fed(e, c, r)
  <2>1. Logged(c, r) = Insert(running, x, entry)
    BY <1>5, <1>10 DEF Continues
  <2>2. PICK ctx : Sets(old, new, x, ctx)
    BY <1>10 DEF Continues, old, new
  <2>3. x \in DOMAIN old /\ x \in DOMAIN running /\ c.cmd \in Updates /\ r.sw = NO_ERROR
    BY <1>3, <1>10, <2>2 DEF Continues, Sets, old
  <2>4. c.data \in Seq(Nat)
    BY <2>3, DataAssumption
  <2>5. CASE y = x
    <3>1. Logged(c, r)[y] = entry
      BY <2>1, <2>5 DEF Insert
    <3>2. r.store.objects = store.objects /\ UpdateLeft(store, c, old[x], new[x], r.out)
      BY <1>1, <1>6, <2>3, <2>4, UpdateLeaves DEF old, new
    <3>3. IsEntry(e) /\ SameKey(r.store, e) /\ Tracks(old[x], e)
      BY <1>4, <2>3
    <3>4. SameKey(store, e)
      BY <3>2, <3>3 DEF SameKey, KeyOf, exists
    <3>5. old[x].kind = "Cipher" => old[x].pending \in Seq(Nat)
      BY <1>1, <2>3 DEF PendingOk, old
    <3> HIDE DEF e
    <3>6. Tracks(new[x], entry)
      <4> DEFINE o == old[x]
                 n == new[x]
      <4>1. /\ Tracks(o, e) /\ UpdateLeft(store, c, o, n, r.out)
            /\ o.kind = "Cipher" => o.pending \in Seq(Nat)
        BY <3>2, <3>3, <3>5
      <4> HIDE DEF o, n
      <4>2. Tracks(n, Fed(e, c, r))
        BY <2>4, <3>3, <3>4, <4>1, UpdateTracks
      <4> QED
        BY <4>2 DEF n
    <3>7. SameKey(r.store, entry)
      BY <3>3, FedFields
    <3> QED
      BY <2>5, <3>1, <3>6, <3>7
  <2> QED
    BY <1>8, <2>1, <2>2, <2>5
<1> QED
  BY <1>2, <1>7, <1>9, <1>10

\* What a command finishes is the one-shot result.
LEMMA FinishedIsOneShot ==
    ASSUME NEW c \in Commands, NEW r, r = dispatch(store, c, TRUE), StreamsInv, OneShotInv,
           NEW done \in Finished(c, r), ~done.entry.rekeyed
    PROVE  done.entry.out = OneShot(done.ctx, done.entry, done.expected)
<1> DEFINE x == c.crypto
           ctx == store.crypto_objects[x]
           e == log[x]
<1>1. /\ c.cmd \in Finals /\ r.sw = NO_ERROR
      /\ done = [ctx |-> ctx, entry |-> Fed(e, c, r), expected |-> c.expected]
  BY DEF Finished
<1>2. x \in DOMAIN store.crypto_objects /\ Answered(store, c, ctx, r.out)
  BY <1>1, FinalLeaves
<1>3. c.data \in Seq(Nat)
  BY <1>1, DataAssumption
<1>4. /\ IsEntry(e) /\ Tracks(ctx, e) /\ SameKey(store, e)
      /\ ctx.kind = "Cipher" => Accounted(e.fed, e.out, ctx.pending)
  BY <1>2 DEF StreamsInv, AccountedFor, OneShotInv, TracksAll
<1>5. ctx.kind = "Cipher" => ctx.pending \in Seq(Nat)
  BY <1>4, PendingIsString
<1>6. done.ctx = ctx /\ done.entry = Fed(e, c, r) /\ done.expected = c.expected
  BY <1>1
<1> HIDE DEF ctx, e
<1>7. ~e.rekeyed
  <2>1. Fed(e, c, r).rekeyed = e.rekeyed
    <3>1. IsEntry(e)
      BY <1>4
    <3>2. SameContext(Fed(e, c, r), e)
      BY <3>1, FedFields
    <3> QED
      BY <3>2 DEF SameContext
  <2> QED
    BY <1>6, <2>1, Zenon
<1>8. EndsOneShot(ctx, Fed(e, c, r), c.expected)
  <2>1. Tracks(ctx, e) /\ SameKey(store, e) /\ IsEntry(e)
    BY <1>4
  <2>2. Answered(store, c, ctx, r.out)
    BY <1>2
  <2> DEFINE s == store
  <2>3. SameKey(s, e) /\ Answered(s, c, ctx, r.out)
    BY <2>1, <2>2
  <2> HIDE DEF s
  <2> QED
    BY <1>3, <1>5, <1>7, <2>1, <2>3, FinalTracks
<1> QED
  BY <1>6, <1>8 DEF EndsOneShot

\* The invariant is inductive, with those of the store and of the account.
LEMMA OneShotStep ==
    IInv /\ CountersInv /\ ContextsInv /\ StreamsInv /\ OneShotInv /\ StreamIsOneShot
         /\ [SNext]_svars => OneShotInv' /\ StreamIsOneShot'
<1> SUFFICES ASSUME IInv, CountersInv, ContextsInv, StreamsInv, OneShotInv, StreamIsOneShot,
                    [SNext]_svars
             PROVE  OneShotInv' /\ StreamIsOneShot'
  OBVIOUS
<1>0. Good(store) /\ CountersOk(store) /\ ContextsOk(store)
  BY DEF IInv, CountersInv, ContextsInv
<1>1. ASSUME NEW c \in Commands \cap OverChannel, StreamCommand(c)
      PROVE  OneShotInv' /\ StreamIsOneShot'
  <2> DEFINE r == dispatch(store, c, TRUE)
  <2>1. store' = r.store /\ log' = Logged(c, r) /\ last' = Finished(c, r)
    BY <1>1 DEF StreamCommand, Command
  <2>2. r = dispatch(store, c, TRUE)
    OBVIOUS
  <2> HIDE DEF r
  <2>3. TracksAll(r.store, Logged(c, r))
    BY <1>0, <2>2, TracksKept
  <2>4. \A done \in Finished(c, r) :
          ~done.entry.rekeyed => done.entry.out = OneShot(done.ctx, done.entry, done.expected)
    BY <2>2, FinishedIsOneShot
  <2> QED
    BY <2>1, <2>3, <2>4 DEF OneShotInv, StreamIsOneShot
<1>2. CASE StreamRestart
  <2>1. DOMAIN store'.crypto_objects = {} /\ last' = {}
    BY <1>2, LoadedHasNoContexts DEF StreamRestart, Restart, IInv, Empty
  <2> QED
    BY <2>1 DEF OneShotInv, TracksAll, StreamIsOneShot
<1>3. CASE UNCHANGED svars
  BY <1>3 DEF svars, OneShotInv, StreamIsOneShot
<1> QED
  BY <1>1, <1>2, <1>3 DEF SNext

\* However the input of a digest, cipher or MAC is cut into updates, and whatever commands of
\* other hosts, failures, deletions and restarts come in between, what comes out of it from Init
\* to Final is the one-shot result of everything that was fed, as long as nobody replaced or
\* deleted the key (digest.rs, aes.rs, mac.rs).
THEOREM StreamsAreOneShot == SSpec => []StreamIsOneShot
<1>1. SInit => OInit /\ StreamsInv /\ OneShotInv /\ StreamIsOneShot
  BY DEF SInit, OInit, StreamsInv, AccountedFor, OneShotInv, TracksAll, StreamIsOneShot, NewStore, Empty
<1>2. OInit => CountersInv /\ ContextsInv
  BY DEF OInit, CountersInv, ContextsInv, CountersOk, ContextsOk, TypesOk, RunningOk, NewStore, Empty
<1> QED
  BY <1>1, <1>2, StreamsDriveObjects, StreamsStep, OneShotStep, ContextsStep, CountersStep,
     InductiveInit, InductiveStep, PTL DEF SSpec
=============================================================================
