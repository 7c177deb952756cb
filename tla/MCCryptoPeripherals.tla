------------------------- MODULE MCCryptoPeripherals -------------------------
(***************************************************************************)
(* Instances for the run of CryptoPeripherals.                             *)
(***************************************************************************)
EXTENDS CryptoPeripherals

(* PIC32MZ: three descriptors. *)

MCStream(algo, size, ring) == [algo |-> algo, size |-> size, ring |-> ring, addr |-> 1]

\* A message that wraps the ring and ends in padding, an empty one, one that fits a chain, and
\* those that the engine refuses: an HMAC, a chain that leaves the memory, and no chain.
MCStreams ==
    {MCStream("hash", 7, <<2, 3, 1>>), MCStream("hash", 0, <<2, 3, 1>>), MCStream("hash", 3, <<2, 0, 3>>),
     MCStream("hash", 3, <<1, 2, 3>>), MCStream("hmac", 2, <<2, 3, 1>>), MCStream("hash", 2, <<4, 0, 3>>),
     [MCStream("hash", 2, <<2, 3, 1>>) EXCEPT !.addr = 0]}

MCSingle(algo, size, ring) ==
    [en |-> TRUE, saf |-> TRUE, last |-> TRUE, algo |-> algo, size |-> size, ring |-> ring, addr |-> 1]

\* A chain of one for each kind of algorithm, chains that go on, loop or leave the memory, and
\* the descriptors that are refused.
MCSingles ==
    {MCSingle("hash", 3, <<1, 2, 3>>), MCSingle("block", 3, <<1, 2, 3>>), MCSingle("stream", 3, <<1, 2, 3>>),
     MCSingle("none", 2, <<1, 2, 3>>),
     [MCSingle("hmac", 1, <<2, 0, 3>>) EXCEPT !.last = FALSE],
     [MCSingle("hash", 2, <<4, 0, 3>>) EXCEPT !.last = FALSE],
     [MCSingle("hash", 1, <<1, 2, 3>>) EXCEPT !.en = FALSE],
     [MCSingle("hash", 1, <<1, 2, 3>>) EXCEPT !.saf = FALSE],
     [MCSingle("hash", 1, <<1, 2, 3>>) EXCEPT !.addr = 0]}

(* STM32: values of CR, and writes to the key registers. *)

MCCr(mode, dir, size, phase) ==
    [en |-> TRUE, mode |-> mode, dir |-> dir, size |-> size, phase |-> phase,
     type |-> IF mode = "CTR" THEN "Word" ELSE "Byte"]
MCOff == [MCCr("ECB", "enc", 128, "Init") EXCEPT !.en = FALSE]
MCGcm(dir) == {MCCr("GCM", dir, 128, phase) : phase \in {"Init", "Header", "Payload", "Final"}}
MCCrs ==
    [v1 |-> {MCOff, MCCr("ECB", "dec", 128, "Init"), MCCr("KEY", "dec", 192, "Init"),
             MCCr("CBC", "dec", 192, "Init"), MCCr("CCM", "enc", 128, "Init")} \cup MCGcm("enc"),
     v2 |-> {MCOff, MCCr("CBC", "derive", 256, "Init"), MCCr("CBC", "dec", 256, "Init"),
             MCCr("CBC", "enc", 256, "Init"), MCCr("CTR", "enc", 128, "Init")} \cup MCGcm("dec")]
MCKeyWrites == {<<3, 1>>}
=============================================================================
