----------------------------- MODULE MCSe050Card -----------------------------
(***************************************************************************)
(* Commands for the run of Se050Card: the creation of an object, the SCP   *)
(* requirement, a rotation of the platform keys, and a command without a   *)
(* body and with a long answer.                                            *)
(***************************************************************************)
EXTENDS Se050Card

CONSTANTS i1

Cmd(name) ==
    [cmd |-> name, id |-> i1, policy |-> {}, data |-> <<>>, offset |-> 0, size |-> {},
     value |-> {}, component |-> 0, dek |-> "", key |-> "k0"]

Create == [Cmd("WriteCounter") EXCEPT !.size = {1}, !.value = {0}]
GetVersion == Cmd("GetVersion")
Require == [Cmd("SetPlatformSCP") EXCEPT !.component = 1]
Rotate == [Cmd("PutKey") EXCEPT !.dek = "k0", !.key = "k1"]

CardCommands == {Create, GetVersion, Require, Rotate}
CardPlain == {Create}
CardChannel == CardCommands \ {Create}
CardLong == {GetVersion}
CardBodyLen == [c \in CardCommands |-> IF c = GetVersion THEN 0 ELSE 16]
=============================================================================
