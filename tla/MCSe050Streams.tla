--------------------------- MODULE MCSe050Streams ---------------------------
(***************************************************************************)
(* Commands for the run of Se050Streams: two crypto objects shared by the  *)
(* hosts, an AES and an HMAC key that may be replaced or deleted under a   *)
(* running context, and input cut off the block boundary.                  *)
(***************************************************************************)
EXTENDS Se050Streams

CONSTANTS aes, x1, x2

Cmd(name) ==
    [cmd |-> name, id |-> NoId, policy |-> {}, key |-> {}, generate |-> FALSE, rnd |-> <<7>>,
     data |-> <<>>, crypto |-> NoId, context |-> 0, algo |-> 0, iv |-> 1, iv_ok |-> TRUE,
     encrypting |-> TRUE, validate |-> FALSE, expected |-> {}, target |-> NoId]

At(name, x) == [Cmd(name) EXCEPT !.crypto = x]
With(name, x, id) == [At(name, x) EXCEPT !.id = id]
Put(name, x, data) == [At(name, x) EXCEPT !.data = data]

KeyCommands ==
    { [Cmd("WriteAES") EXCEPT !.id = aes, !.key = {[len |-> 16, v |-> <<1>>]}],
      [Cmd("WriteHMAC") EXCEPT !.id = aes, !.key = {[len |-> 20, v |-> <<2>>]}],
      [Cmd("DeleteObject") EXCEPT !.id = aes] }

CipherCommands ==
    KeyCommands
    \cup {[At("CreateCryptoObject", x1) EXCEPT !.context = CIPHER, !.algo = mode] : mode \in Modes \cup {11}}
    \cup {[With("CipherInit", x1, aes) EXCEPT !.encrypting = e] : e \in BOOLEAN}
    \cup { [With("CipherInit", x1, aes) EXCEPT !.iv_ok = FALSE], With("CipherInit", x1, NoId),
           Put("CipherUpdate", x1, <<1>>), Put("CipherUpdate", x1, <<2, 3, 1>>),
           At("CipherFinal", x1), Put("CipherFinal", x1, <<1>>), Put("CipherFinal", x1, <<2, 3>>),
           At("DigestFinal", x1), At("DeleteCryptoObject", x1),
           [Cmd("CipherOneShot") EXCEPT !.id = aes, !.algo = CTR, !.data = <<1, 2, 3>>],
           [Cmd("CipherOneShot") EXCEPT !.id = aes, !.algo = CBC, !.data = <<1, 2, 3>>] }

DigestCommands ==
    KeyCommands
    \cup { [At("CreateCryptoObject", x) EXCEPT !.context = DIGEST, !.algo = 4] : x \in {x1, x2} }
    \cup { [At("CreateCryptoObject", x2) EXCEPT !.context = SIGNATURE, !.algo = a] : a \in {25, CMAC_AES} }
    \cup { [At("CreateCryptoObject", x1) EXCEPT !.context = DIGEST, !.algo = 9],
           At("DigestInit", x1), At("DigestInit", x2), At("DigestInit", NoId),
           With("MacInit", x2, aes), [With("MacInit", x2, aes) EXCEPT !.validate = TRUE],
           With("MacInit", x1, aes), Put("DigestUpdate", x1, <<1>>), Put("DigestUpdate", x2, <<2>>),
           Put("MacUpdate", x2, <<1>>), Put("MacUpdate", x1, <<1>>), Put("DigestFinal", x1, <<2>>),
           At("DigestFinal", x2), Put("MacFinal", x2, <<2>>), At("MacFinal", x1),
           [At("MacFinal", x2) EXCEPT !.expected = {<<"MAC", 25, <<2>>, <<1>>>>}],
           [Cmd("DigestOneShot") EXCEPT !.algo = 4], [Cmd("DigestOneShot") EXCEPT !.algo = 8],
           [Cmd("MacOneShot") EXCEPT !.id = aes, !.algo = 25], [Cmd("MacOneShot") EXCEPT !.validate = TRUE],
           Cmd("ListCryptoObjects"), At("DeleteCryptoObject", x1), At("DeleteCryptoObject", x2),
           Cmd("DeleteAll") }

\* A cipher on x1, beside a digest or a MAC on x2, both with the same key object.
StreamCommands == CipherCommands \cup {c \in DigestCommands : c.crypto # x1 \/ c.cmd = "MacInit"}
=============================================================================
