--------------------------- MODULE SecureElements ---------------------------
(***************************************************************************)
(* Either of the two TCP simulators that share the server of DeviceServer: *)
(* which binary runs is fixed in the initial state.                        *)
(***************************************************************************)
EXTENDS Atecc608, StsafeA120

vars == <<server, mine, uses, shown, identities>>

Init == (AteccInit /\ StsafeHistory) \/ (StsafeInit /\ AteccHistory)

Next ==
    \/ AteccNext /\ UNCHANGED <<shown, identities>>
    \/ StsafeNext /\ UNCHANGED <<mine, uses>>

Spec == Init /\ [][Next]_vars
=============================================================================
