--------------------------- MODULE MCSe050Objects ---------------------------
(***************************************************************************)
(* Commands for the runs of Se050Objects: two object identifiers, and for  *)
(* each question the commands that can disturb its answer, with values on  *)
(* both sides of the limits of the code.                                   *)
(***************************************************************************)
EXTENDS Se050Objects

CONSTANTS i1, i2

Cmd(name) ==
    [cmd |-> name, id |-> NoId, policy |-> {}, data |-> <<>>, offset |-> 0, size |-> {},
     value |-> {}, curve |-> 0, part |-> "PAIR", key |-> {}, peer |-> {}, comps |-> Empty,
     rnd |-> <<7>>, generate |-> FALSE, component |-> 0, param |-> "", algo |-> 0, len |-> 0,
     target |-> NoId, crypto |-> NoId, context |-> 0, iv |-> 1, iv_ok |-> TRUE,
     encrypting |-> TRUE, validate |-> FALSE, expected |-> {}]

Key(len, n) == [len |-> len, v |-> <<n>>]

ReadOnly == {<<{"READ"}>>}
NoRead == {<<{"WRITE"}, {"DELETE"}>>}
Malformed == {<<{"READ"}, {"malformed"}>>}

On(name, id) == [Cmd(name) EXCEPT !.id = id]
Binary(id, policy, offset, size, data) ==
    [On("WriteBinary", id) EXCEPT !.policy = policy, !.offset = offset, !.size = size, !.data = data]
Hmac(id, policy, len) == [On("WriteHMAC", id) EXCEPT !.policy = policy, !.key = {Key(len, 3)}]
Import(id, curve, len, n) == [On("WriteEC", id) EXCEPT !.curve = curve, !.key = {Key(len, n)}]
Ecdh(id, target, peer) == [On("ECDH", id) EXCEPT !.target = target, !.peer = {<<peer>>}]

\* Objects of every type but RSA under policies: written, replaced, derived into, read and
\* deleted, on a fully set up curve; and a key of the wrong length, whose use panics.
PolicyCommands ==
    { Binary(i1, ReadOnly, 0, {}, <<1>>), Binary(i1, {}, 0, {2}, <<1, 2>>),
      Binary(i1, NoRead, 1, {}, <<1>>), Binary(i1, {<<>>}, 1, {}, <<>>),
      Binary(i1, Malformed, 0, {}, <<1>>), Binary(NoId, {}, 0, {}, <<1>>),
      Hmac(i1, NoRead, 32), Hmac(i1, ReadOnly, 32), Hmac(i2, ReadOnly, 32), Hmac(i2, {<<>>}, 32), Hmac(i2, {}, 0),
      [On("WriteEC", i2) EXCEPT !.curve = 3, !.policy = ReadOnly], Import(i2, 3, 32, 5),
      Import(i2, 9, 32, 5), [Import(i2, 4, 48, 0) EXCEPT !.policy = NoRead],
      [On("WriteEC", i2) EXCEPT !.curve = 64, !.part = "PUBLIC", !.peer = {<<6>>}],
      [On("WriteEC", i2) EXCEPT !.curve = 3, !.part = "PRIVATE"],
      [On("WriteAES", i1) EXCEPT !.generate = TRUE], [On("WriteAES", i1) EXCEPT !.key = {Key(2, 192)}],
      [On("WriteAES", i1) EXCEPT !.key = {Key(17, 1)}], On("WriteAES", i1), Cmd("WriteUserID"),
      Import(i1, 3, 31, 5), Ecdh(i1, NoId, 6),
      Ecdh(i2, i1, 6), Ecdh(i2, i2, 6), Ecdh(i2, NoId, 6), Ecdh(i2, i1, 0), Ecdh(i1, i2, 6),
      On("ReadObject", i1), On("ReadObject", i2), On("ReadObject", NoId), On("ReadSize", i1),
      [On("ReadObject", i1) EXCEPT !.offset = 1, !.size = {1}], On("ReadType", i2),
      Cmd("ReadIdList"), On("ReadAttributes", i1), On("ReadCurveId", i2), On("CheckExists", i1),
      [On("Sign", i2) EXCEPT !.algo = 33, !.len = 32], [On("Verify", i2) EXCEPT !.algo = 9, !.len = 20],
      On("DeleteObject", i1), On("DeleteObject", i2), Cmd("DeleteAll"), Cmd("Other") }

\* A counter, the curve objects and the management commands.
CounterCommands ==
    { [On("WriteCounter", i1) EXCEPT !.size = {1}],
      [On("WriteCounter", i1) EXCEPT !.size = {2}, !.value = {3}, !.policy = ReadOnly],
      [On("WriteCounter", i1) EXCEPT !.size = {0}], [On("WriteCounter", i1) EXCEPT !.size = {9}],
      [On("WriteCounter", i1) EXCEPT !.value = {6}], On("WriteCounter", i1),
      Binary(i1, {}, 0, {}, <<1>>), On("ReadObject", i1), On("DeleteObject", i1), Cmd("DeleteAll"),
      [Cmd("CreateCurve") EXCEPT !.curve = 6], [Cmd("CreateCurve") EXCEPT !.curve = 3],
      [Cmd("CreateCurve") EXCEPT !.curve = 18], [Cmd("SetCurveParam") EXCEPT !.curve = 6, !.param = "A"],
      [Cmd("SetCurveParam") EXCEPT !.curve = 3, !.param = "B"],
      [Cmd("SetCurveParam") EXCEPT !.curve = 6, !.param = "C"],
      [Cmd("DeleteCurve") EXCEPT !.curve = 6], [Cmd("DeleteCurve") EXCEPT !.curve = 3],
      Cmd("ListCurves"), [On("WriteEC", i2) EXCEPT !.curve = 3],
      [Cmd("SetPlatformSCP") EXCEPT !.component = 1], [Cmd("SetPlatformSCP") EXCEPT !.component = 2],
      [Cmd("SetPlatformSCP") EXCEPT !.component = 3], Cmd("GetVersion"), Cmd("WrongP1P2"),
      [Cmd("GetFreeMemory") EXCEPT !.component = 3], [Cmd("GetFreeMemory") EXCEPT !.component = 4],
      [Cmd("GetRandom") EXCEPT !.size = {8}], [Cmd("GetRandom") EXCEPT !.size = {1019}] }

Component(id, part, name, n) ==
    [On("WriteRSA", id) EXCEPT !.part = part, !.comps = [x \in {name} |-> <<n>>]]

\* Staged imports of two RSA keys into one object, in any order and by any number of hosts.
RsaCommands ==
    {Component(i1, "PAIR", name, n) : name \in {"n", "d"}, n \in {1, 2}}
    \cup {[Component(i1, part, "e", 1) EXCEPT !.policy = ReadOnly] : part \in {"PAIR", "PUBLIC"}}
    \cup {Component(i1, "PUBLIC", "n", 2), Component(i1, "PAIR", "p", 1), Component(i1, "PAIR", "q", 1)}
    \cup { [On("WriteRSA", i1) EXCEPT !.comps = [x \in RsaPublic |-> <<2>>], !.policy = ReadOnly],
           [On("WriteRSA", i1) EXCEPT !.size = {2048}], [On("WriteRSA", i1) EXCEPT !.size = {1024}],
           [On("WriteRSA", i1) EXCEPT !.size = {1000}], Binary(i1, {}, 0, {}, <<1>>),
           On("ReadObject", i1), On("ReadRsaComponent", i1),
           [On("ReadRsaComponent", i1) EXCEPT !.component = 2],
           [On("Sign", i1) EXCEPT !.algo = 40], [On("Verify", i1) EXCEPT !.algo = 44],
           [On("RsaEncrypt", i1) EXCEPT !.algo = 10], [On("RsaDecrypt", i1) EXCEPT !.algo = 12],
           [On("RsaEncrypt", i1) EXCEPT !.algo = 11], On("DeleteObject", i1), Cmd("DeleteAll") }

\* The two that share the identifier i1: a counter, a file and an RSA key in turn.
LifecycleCommands == CounterCommands \cup RsaCommands
=============================================================================
