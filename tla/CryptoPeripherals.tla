-------------------------- MODULE CryptoPeripherals --------------------------
(***************************************************************************)
(* The crypto peripherals of the two CPU simulators: the crypto engine of  *)
(* the PIC32MZ, and HASH and CRYP of the STM32.  They share no state, so   *)
(* the initial state fixes the one that the firmware works with.           *)
(***************************************************************************)
EXTENDS Pic32Crypto, Stm32Hash, Stm32Cryp

VARIABLE unit

vars == <<unit, cevars, hashvars, crypvars>>

Init ==
    /\ unit \in {"CE", "HASH", "CRYP"}
    /\ CeInit /\ HashInit /\ CrypInit
    /\ unit # "CE" => silicon = "EF"
    /\ unit # "CRYP" => cryp.rev = "v1"

Next ==
    \/ unit = "CE" /\ CeNext /\ UNCHANGED <<unit, hashvars, crypvars>>
    \/ unit = "HASH" /\ HashNext /\ UNCHANGED <<unit, cevars, crypvars>>
    \/ unit = "CRYP" /\ CrypNext /\ UNCHANGED <<unit, cevars, hashvars>>

\* The block hook of the PIC32MZ runs as long as its processor does.
Spec == Init /\ [][Next]_vars /\ WF_cevars(unit = "CE" /\ Tick /\ UNCHANGED <<unit, hashvars, crypvars>>)
=============================================================================
