---------------------------- MODULE Se050Crypto -----------------------------
(***************************************************************************)
(* The cryptographic commands of the SE050 simulator (handlers ec, rsa,    *)
(* aes, mac, digest and crypto_obj) and the dispatcher that routes every   *)
(* parsed command to its handler (dispatch.rs).                            *)
(*                                                                         *)
(* Results are terms: E(k, x) is block x encrypted under key k, D(k, x)    *)
(* decrypted, X(x, y) the two blocks combined.  Input is a sequence of     *)
(* bytes, cut into blocks of Block bytes.                                  *)
(***************************************************************************)
EXTENDS Se050Store

CONSTANT Block   \* bytes of a cipher block (16 in the code)

ASSUME BlockAssumption == Block \in Nat \ {0}

E(k, x) == <<"E", k, x>>
D(k, x) == <<"D", k, x>>
X(x, y) == <<"X", x, y>>

(***************************************************************************)
(* Signatures (ec.rs, rsa.rs).                                             *)
(***************************************************************************)
\* The digest lengths of the ECDSA algorithms, and the RSA signature algorithms.
ecdsa_algo_digest_len ==
    [algo \in {17, 33, 34, 37, 38} |->
        CASE algo = 17 -> 20
          [] algo = 37 -> 28
          [] algo = 33 -> 32
          [] algo = 34 -> 48
          [] algo = 38 -> 64]
PLAIN == 9
RsaSignatures == {40, 41, 42, 44, 45, 46}
RsaCiphers == {10, 12, 15}

\* The status of an ECDSA input whose length does not fit the algorithm.
check_ecdsa_algo(algo, len, curve) ==
    CASE algo \in DOMAIN ecdsa_algo_digest_len ->
            IF len = ecdsa_algo_digest_len[algo] THEN NO_ERROR ELSE CONDITIONS_NOT_SATISFIED
      [] algo = PLAIN -> IF len = scalar_len(curve) THEN NO_ERROR ELSE CONDITIONS_NOT_SATISFIED
      [] OTHER -> WRONG_DATA

\* A stored scalar of another length than the curve's: the fixed-size conversion of the
\* key libraries panics.
WrongSize(o) == o.private_key.len # scalar_len(o.curve)

IsPair(s, id) == Has(s, id, "ECKeyPair")

handle_rsa_sign(s, c) ==
    IF s.objects[c.id].der = {} THEN error(s, CONDITIONS_NOT_SATISFIED)
    ELSE IF c.algo \notin RsaSignatures THEN error(s, WRONG_DATA)
    ELSE success_with(s, <<s.objects[c.id].der>>)

handle_sign(s, c) ==
    LET o == s.objects[c.id]
        check == check_ecdsa_algo(c.algo, c.len, o.curve)
    IN  IF c.id = NoId THEN error(s, WRONG_DATA)
        ELSE IF Has(s, c.id, "RSAKeyPair") THEN handle_rsa_sign(s, c)
        ELSE IF ~IsPair(s, c.id) \/ o.curve = Curve25519 THEN error(s, CONDITIONS_NOT_SATISFIED)
        ELSE IF o.curve = Ed25519
        THEN IF WrongSize(o) THEN error(s, CONDITIONS_NOT_SATISFIED)
             ELSE success_with(s, <<o.private_key>>)
        ELSE IF check # NO_ERROR THEN error(s, check)
        ELSE IF WrongSize(o) THEN error(s, Panic)
        ELSE IF ~ValidScalar(o.curve, o.private_key) THEN error(s, CONDITIONS_NOT_SATISFIED)
        ELSE success_with(s, <<o.private_key>>)

\* The public key of an RSA object: of the finished key, or the staged modulus and exponent.
public_key_from_obj(o) ==
    IF o.der # {} THEN o.der
    ELSE IF RsaPublic \subseteq DOMAIN o.staged THEN {o.staged["n"]} ELSE {}

handle_rsa_verify(s, c) ==
    IF public_key_from_obj(s.objects[c.id]) = {} THEN error(s, CONDITIONS_NOT_SATISFIED)
    ELSE IF c.algo \notin RsaSignatures THEN error(s, WRONG_DATA)
    ELSE success_with(s, <<public_key_from_obj(s.objects[c.id])>>)

handle_verify(s, c) ==
    LET o == s.objects[c.id]
        check == check_ecdsa_algo(c.algo, c.len, o.curve)
    IN  IF c.id = NoId THEN error(s, WRONG_DATA)
        ELSE IF Has(s, c.id, "RSAKeyPair") THEN handle_rsa_verify(s, c)
        ELSE IF ~IsPair(s, c.id) /\ ~Has(s, c.id, "ECPublicKey")
        THEN error(s, CONDITIONS_NOT_SATISFIED)
        ELSE IF o.curve \in Weierstrass /\ check # NO_ERROR THEN error(s, check)
        ELSE IF o.curve \in Weierstrass
        THEN IF IsPair(s, c.id) /\ WrongSize(o) THEN error(s, Panic)
             ELSE success_with(s, <<o.public_key>>)
        ELSE IF IsPair(s, c.id) /\ o.curve = Ed25519 THEN success_with(s, <<o.public_key>>)
        ELSE error(s, CONDITIONS_NOT_SATISFIED)

\* RSA encryption needs a public key, decryption a private one.
RsaCipher(s, c) ==
    LET key == IF c.cmd = "RsaDecrypt" THEN s.objects[c.id].der
               ELSE public_key_from_obj(s.objects[c.id])
    IN  IF c.id = NoId THEN error(s, WRONG_DATA)
        ELSE IF ~Has(s, c.id, "RSAKeyPair") \/ key = {} THEN error(s, CONDITIONS_NOT_SATISFIED)
        ELSE IF c.algo \notin RsaCiphers THEN error(s, WRONG_DATA)
        ELSE success_with(s, <<key>>)

(***************************************************************************)
(* ECDH: the secret is the answer, or it becomes the value of the target   *)
(* object.  Only an HMAC key has to have the right length; in lenient mode *)
(* any other target, missing or not, becomes a file (whose content is the  *)
(* value of the secret).                                                   *)
(***************************************************************************)
ValidPeer(peer) == peer # <<0>>

handle_ecdh(s, c) ==
    LET o == s.objects[c.id]
        secret == [len |-> scalar_len(o.curve), v |-> o.private_key.v \o Get(c.peer)]
        hmac == Has(s, c.target, "HMACKey")
    IN  IF c.id = NoId \/ c.peer = {} THEN error(s, WRONG_DATA)
        ELSE IF ~exists(s, c.id) THEN error(s, CONDITIONS_NOT_SATISFIED)
        ELSE IF c.target # NoId /\ ~hmac /\ StrictEcdh THEN error(s, CONDITIONS_NOT_SATISFIED)
        ELSE IF ~IsPair(s, c.id) \/ o.curve = Ed25519 THEN error(s, CONDITIONS_NOT_SATISFIED)
        ELSE IF WrongSize(o)
        THEN error(s, IF o.curve = Curve25519 THEN CONDITIONS_NOT_SATISFIED ELSE Panic)
        ELSE IF ~ValidScalar(o.curve, o.private_key) \/ ~ValidPeer(Get(c.peer))
        THEN error(s, CONDITIONS_NOT_SATISFIED)
        ELSE IF c.target = NoId THEN success_with(s, <<secret>>)
        ELSE IF hmac /\ s.objects[c.target].key.len # secret.len
        THEN error(s, CONDITIONS_NOT_SATISFIED)
        ELSE success(insert(s, c.target,
                            IF hmac THEN HMACKey(secret, s.objects[c.target].policy)
                            ELSE [type |-> "Binary", data |-> secret.v]))

(***************************************************************************)
(* AES modes (aes.rs).  `cipher` returns the output blocks and the         *)
(* chaining value after them; a counter block is the pair of the initial   *)
(* vector and the number of blocks used.                                   *)
(***************************************************************************)
CBC == 13
ECB == 14
CTR == 240
Modes == {CBC, ECB, CTR}

Blocks(data) ==
    [i \in 1 .. (Len(data) + Block - 1) \div Block |->
        SubSeq(data, (i - 1) * Block + 1, IF i * Block < Len(data) THEN i * Block ELSE Len(data))]

ecb_process(k, data, encrypting) ==
    [i \in DOMAIN Blocks(data) |-> IF encrypting THEN E(k, Blocks(data)[i]) ELSE D(k, Blocks(data)[i])]

\* The chaining value after i blocks.
CbcChain(k, chain, data, encrypting) ==
    LET after[i \in 0 .. Len(Blocks(data))] ==
          IF i = 0 THEN chain
          ELSE IF encrypting THEN E(k, X(Blocks(data)[i], after[i - 1]))
          ELSE Blocks(data)[i]
    IN  after

cbc_process(k, chain, data, encrypting) ==
    [i \in DOMAIN Blocks(data) |->
        IF encrypting THEN CbcChain(k, chain, data, TRUE)[i]
        ELSE X(D(k, Blocks(data)[i]), CbcChain(k, chain, data, FALSE)[i - 1])]

ctr_process(k, counter, data) ==
    [i \in DOMAIN Blocks(data) |-> X(Blocks(data)[i], E(k, <<counter[1], counter[2] + i - 1>>))]

\* The status, the output and the chaining value after it.
apply_mode(mode, key, chain, data, encrypting, is_final) ==
    LET n == Len(Blocks(data))
    IN  IF key.len \notin {16, 24, 32} THEN [sw |-> CONDITIONS_NOT_SATISFIED]
        ELSE IF mode \notin Modes THEN [sw |-> WRONG_DATA]
        ELSE IF Len(data) % Block # 0 /\ ~(mode = CTR /\ is_final)
        THEN [sw |-> CONDITIONS_NOT_SATISFIED]
        ELSE [sw |-> NO_ERROR,
              out |-> CASE mode = ECB -> ecb_process(key.v, data, encrypting)
                        [] mode = CBC -> cbc_process(key.v, chain, data, encrypting)
                        [] mode = CTR -> ctr_process(key.v, chain, data),
              chain |-> CASE mode = ECB -> chain
                          [] mode = CBC -> CbcChain(key.v, chain, data, encrypting)[n]
                          [] mode = CTR -> <<chain[1], chain[2] + n>>]

\* The chaining value an initial vector stands for.
Initial(iv) == <<iv, 0>>

handle_cipher_oneshot(s, c) ==
    LET r == apply_mode(c.algo, s.objects[c.id].key, Initial(c.iv), c.data, c.encrypting, TRUE)
    IN  IF c.id = NoId \/ ~c.iv_ok THEN error(s, WRONG_DATA)
        ELSE IF ~Has(s, c.id, "AESKey") THEN error(s, CONDITIONS_NOT_SATISFIED)
        ELSE IF r.sw # NO_ERROR THEN error(s, r.sw)
        ELSE success_with(s, r.out)

(***************************************************************************)
(* Crypto objects (crypto_obj.rs) and the multi-step digest, cipher and    *)
(* MAC flows.  Init needs a crypto object of the right context type and    *)
(* starts afresh; Final takes the running context out first, whatever      *)
(* happens then.                                                           *)
(***************************************************************************)
DIGEST == 1
CIPHER == 2
SIGNATURE == 3

CreateCryptoObject(s, c) ==
    IF c.crypto = NoId THEN error(s, WRONG_DATA)
    ELSE IF c.crypto \in DOMAIN s.crypto_object_types THEN error(s, COMMAND_NOT_ALLOWED)
    ELSE success([s EXCEPT !.crypto_object_types = Insert(@, c.crypto, <<c.context, c.algo>>)])

DeleteCryptoObject_keeps_context(s, c) ==
    success([s EXCEPT !.crypto_object_types = Remove(@, c.crypto)])

DeleteCryptoObject(s, c) ==
    IF c.crypto = NoId THEN error(s, WRONG_DATA)
    ELSE success([s EXCEPT !.crypto_object_types = Remove(@, c.crypto),
                           !.crypto_objects = Remove(@, c.crypto)])

ListCryptoObjects(s, c) == success_with(s, <<DOMAIN s.crypto_object_types>>)

IsType(s, crypto, context) ==
    crypto \in DOMAIN s.crypto_object_types /\ s.crypto_object_types[crypto][1] = context
Subtype(s, crypto) == s.crypto_object_types[crypto][2]
Running(s, crypto, kind) ==
    crypto \in DOMAIN s.crypto_objects /\ s.crypto_objects[crypto].kind = kind
Start(s, crypto, ctx) == success([s EXCEPT !.crypto_objects = Insert(@, crypto, ctx)])
Take(s, crypto) == [s EXCEPT !.crypto_objects = Remove(@, crypto)]

compute_hash(mode, data) == IF mode \in {1, 4, 5, 6, 7} THEN {<<"H", mode, data>>} ELSE {}

handle_digest_oneshot(s, c) ==
    IF compute_hash(c.algo, c.data) = {} THEN error(s, WRONG_DATA)
    ELSE success_with(s, <<Get(compute_hash(c.algo, c.data))>>)

handle_digest_init(s, c) ==
    IF c.crypto = NoId THEN error(s, WRONG_DATA)
    ELSE IF ~IsType(s, c.crypto, DIGEST) THEN error(s, CONDITIONS_NOT_SATISFIED)
    ELSE Start(s, c.crypto, [kind |-> "Digest", algo |-> Subtype(s, c.crypto), data |-> <<>>])

handle_digest_update(s, c) ==
    IF c.crypto = NoId THEN error(s, WRONG_DATA)
    ELSE IF ~Running(s, c.crypto, "Digest") THEN error(s, CONDITIONS_NOT_SATISFIED)
    ELSE success([s EXCEPT !.crypto_objects[c.crypto].data = @ \o c.data])

handle_digest_final(s, c) ==
    LET ctx == s.crypto_objects[c.crypto]
        hash == compute_hash(ctx.algo, ctx.data \o c.data)
    IN  IF c.crypto = NoId THEN error(s, WRONG_DATA)
        ELSE IF ~Running(s, c.crypto, "Digest") THEN error(Take(s, c.crypto), CONDITIONS_NOT_SATISFIED)
        ELSE IF hash = {} THEN error(Take(s, c.crypto), WRONG_DATA)
        ELSE success_with(Take(s, c.crypto), <<Get(hash)>>)

handle_cipher_init(s, c) ==
    IF c.id = NoId \/ c.crypto = NoId THEN error(s, WRONG_DATA)
    ELSE IF ~IsType(s, c.crypto, CIPHER) \/ ~exists(s, c.id) THEN error(s, CONDITIONS_NOT_SATISFIED)
    ELSE IF ~c.iv_ok THEN error(s, WRONG_DATA)
    ELSE Start(s, c.crypto,
               [kind |-> "Cipher", encrypting |-> c.encrypting, mode |-> Subtype(s, c.crypto),
                key_id |-> c.id, chain |-> Initial(c.iv), pending |-> <<>>])

\* The cipher context after an update.
Continued_same_chain(ctx, chain, rest) == [ctx EXCEPT !.pending = rest]
Continued_without_rest(ctx, chain, rest) == [ctx EXCEPT !.chain = chain, !.pending = <<>>]

Continued(ctx, chain, rest) == [ctx EXCEPT !.chain = chain, !.pending = rest]

\* Every complete block is processed at once; the rest waits.
handle_cipher_update(s, c) ==
    LET ctx == s.crypto_objects[c.crypto]
        buffered == ctx.pending \o c.data
        aligned == Len(buffered) - (Len(buffered) % Block)
        r == apply_mode(ctx.mode, s.objects[ctx.key_id].key, ctx.chain,
                        SubSeq(buffered, 1, aligned), ctx.encrypting, FALSE)
    IN  IF c.crypto = NoId THEN error(s, WRONG_DATA)
        ELSE IF ~Running(s, c.crypto, "Cipher") THEN error(s, CONDITIONS_NOT_SATISFIED)
        ELSE IF ~Has(s, ctx.key_id, "AESKey") THEN error(s, CONDITIONS_NOT_SATISFIED)
        ELSE IF r.sw # NO_ERROR THEN error(s, r.sw)
        ELSE success_with(
               [s EXCEPT !.crypto_objects[c.crypto] =
                  Continued(@, r.chain, SubSeq(buffered, aligned + 1, Len(buffered)))],
               r.out)

handle_cipher_final(s, c) ==
    LET ctx == s.crypto_objects[c.crypto]
        t == Take(s, c.crypto)
        r == apply_mode(ctx.mode, s.objects[ctx.key_id].key, ctx.chain, ctx.pending \o c.data,
                        ctx.encrypting, TRUE)
    IN  IF c.crypto = NoId THEN error(s, WRONG_DATA)
        ELSE IF ~Running(s, c.crypto, "Cipher") THEN error(t, CONDITIONS_NOT_SATISFIED)
        ELSE IF ~Has(s, ctx.key_id, "AESKey") THEN error(t, CONDITIONS_NOT_SATISFIED)
        ELSE IF r.sw # NO_ERROR THEN error(t, r.sw)
        ELSE success_with(t, r.out)

HmacAlgos == {24, 25, 26, 27}
CMAC_AES == 49

\* The status of a MAC computation, and the MAC.
compute_mac(s, algo, id, data) ==
    CASE algo \in HmacAlgos /\ Has(s, id, "HMACKey") -> <<NO_ERROR, <<"MAC", algo, s.objects[id].key.v, data>>>>
      [] algo = CMAC_AES /\ Has(s, id, "AESKey") -> <<NO_ERROR, <<"MAC", algo, s.objects[id].key.v, data>>>>
      [] algo \notin HmacAlgos \cup {CMAC_AES} -> <<WRONG_DATA>>
      [] OTHER -> <<CONDITIONS_NOT_SATISFIED>>

\* The MAC itself, or whether it is the expected one.
MacAnswer(s, t, algo, id, data, validate, expected) ==
    LET mac == compute_mac(s, algo, id, data)
    IN  IF ~exists(s, id) THEN error(t, CONDITIONS_NOT_SATISFIED)
        ELSE IF mac[1] # NO_ERROR THEN error(t, mac[1])
        ELSE success_with(t, IF validate THEN <<expected = {mac[2]}>> ELSE <<mac[2]>>)

handle_mac_oneshot(s, c) ==
    IF c.id = NoId \/ (c.validate /\ c.expected = {}) THEN error(s, WRONG_DATA)
    ELSE MacAnswer(s, s, c.algo, c.id, c.data, c.validate, c.expected)

handle_mac_init(s, c) ==
    IF c.id = NoId \/ c.crypto = NoId THEN error(s, WRONG_DATA)
    ELSE IF ~IsType(s, c.crypto, SIGNATURE) \/ ~exists(s, c.id)
    THEN error(s, CONDITIONS_NOT_SATISFIED)
    ELSE Start(s, c.crypto, [kind |-> "Mac", algo |-> Subtype(s, c.crypto), validate |-> c.validate,
                             key_id |-> c.id, data |-> <<>>])

handle_mac_update(s, c) ==
    IF c.crypto = NoId THEN error(s, WRONG_DATA)
    ELSE IF ~Running(s, c.crypto, "Mac") THEN error(s, CONDITIONS_NOT_SATISFIED)
    ELSE success([s EXCEPT !.crypto_objects[c.crypto].data = @ \o c.data])

handle_mac_final(s, c) ==
    LET ctx == s.crypto_objects[c.crypto]
        t == Take(s, c.crypto)
    IN  IF c.crypto = NoId THEN error(s, WRONG_DATA)
        ELSE IF ~Running(s, c.crypto, "Mac") THEN error(t, CONDITIONS_NOT_SATISFIED)
        ELSE IF ctx.validate /\ c.expected = {} THEN error(t, WRONG_DATA)
        ELSE MacAnswer(s, t, ctx.algo, ctx.key_id, ctx.data \o c.data, ctx.validate, c.expected)

(***************************************************************************)
(* The dispatcher.                                                         *)
(***************************************************************************)
dispatch(s, c, scp_active) ==
    CASE c.cmd = "WriteBinary" -> handle_write_binary(s, c)
      [] c.cmd = "WriteUserID" -> handle_write_userid(s, c)
      [] c.cmd = "WriteCounter" -> handle_write_counter(s, c)
      [] c.cmd = "WriteEC" -> handle_write_ec_key(s, c)
      [] c.cmd = "WriteRSA" -> handle_write_rsa_key(s, c)
      [] c.cmd = "WriteAES" -> handle_write_aes_key(s, c)
      [] c.cmd = "WriteHMAC" -> handle_write_hmac_key(s, c)
      [] c.cmd = "CreateCryptoObject" -> CreateCryptoObject(s, c)
      [] c.cmd = "CreateCurve" -> CreateCurve(s, c)
      [] c.cmd = "SetCurveParam" -> SetCurveParam(s, c)
      [] c.cmd = "ReadObject" -> handle_read_object(s, c)
      [] c.cmd = "ReadRsaComponent" -> ReadRsaComponent(s, c)
      [] c.cmd \in {"ReadSize", "ReadType", "ReadIdList", "ReadAttributes", "ReadCurveId"} ->
            ReadInfo(s, c)
      [] c.cmd = "ListCryptoObjects" -> ListCryptoObjects(s, c)
      [] c.cmd = "ListCurves" -> ListCurves(s, c)
      [] c.cmd = "Sign" -> handle_sign(s, c)
      [] c.cmd = "Verify" -> handle_verify(s, c)
      [] c.cmd = "ECDH" -> handle_ecdh(s, c)
      [] c.cmd = "CipherOneShot" -> handle_cipher_oneshot(s, c)
      [] c.cmd = "CipherInit" -> handle_cipher_init(s, c)
      [] c.cmd = "CipherUpdate" -> handle_cipher_update(s, c)
      [] c.cmd = "CipherFinal" -> handle_cipher_final(s, c)
      [] c.cmd \in {"RsaEncrypt", "RsaDecrypt"} -> RsaCipher(s, c)
      [] c.cmd = "DigestOneShot" -> handle_digest_oneshot(s, c)
      [] c.cmd = "DigestInit" -> handle_digest_init(s, c)
      [] c.cmd = "DigestUpdate" -> handle_digest_update(s, c)
      [] c.cmd = "DigestFinal" -> handle_digest_final(s, c)
      [] c.cmd = "MacOneShot" -> handle_mac_oneshot(s, c)
      [] c.cmd = "MacInit" -> handle_mac_init(s, c)
      [] c.cmd = "MacUpdate" -> handle_mac_update(s, c)
      [] c.cmd = "MacFinal" -> handle_mac_final(s, c)
      [] c.cmd = "DeleteCryptoObject" -> DeleteCryptoObject(s, c)
      [] c.cmd = "DeleteCurve" -> DeleteCurve(s, c)
      [] c.cmd = "GetVersion" -> success_with(s, <<Applet>>)
      [] c.cmd = "GetFreeMemory" -> GetFreeMemory(s, c)
      [] c.cmd = "GetRandom" -> GetRandom(s, c)
      [] c.cmd = "DeleteAll" -> handle_delete_all(s, c)
      [] c.cmd = "SetPlatformSCP" -> handle_set_platform_scp(s, c, scp_active)
      [] c.cmd = "CheckExists" -> handle_check_exists(s, c)
      [] c.cmd = "DeleteObject" -> handle_delete(s, c)
      [] c.cmd = "WrongP1P2" -> error(s, WRONG_P1P2)
      [] OTHER -> error(s, INS_NOT_SUPPORTED)

=============================================================================
