--------------------------- MODULE MCTropicDevice ---------------------------
(***************************************************************************)
(* Commands for the runs of TropicDevice.  Slot numbers are chosen on both *)
(* sides of the privilege groups and limits of the code.                   *)
(***************************************************************************)
EXTENDS TropicDevice

Cmd(id, len, slot, n, k, zeros) ==
    [id |-> id, len |-> len, slot |-> slot, n |-> n, k |-> k, zeros |-> zeros]
Plain(id, len, slot) == Cmd(id, len, slot, 0, 0, {})

\* Key slots, user data, counters and MAC-and-Destroy slots, and three writes that revoke
\* rights on the groups of those slots.
MemoryCommands ==
    { Cmd("ECC_KEY_GENERATE", 4, 8, 1, 0, {}), Cmd("ECC_KEY_STORE", 48, 8, 1, 0, {}),
      Cmd("ECC_KEY_STORE", 48, 8, 2, 0, {}), Cmd("ECC_KEY_STORE", 48, 8, 3, 1, {}),
      Cmd("ECC_KEY_STORE", 48, 8, 1, 2, {}), Cmd("ECC_KEY_STORE", 47, 8, 1, 2, {}),
      Plain("ECC_KEY_READ", 3, 8), Plain("ECC_KEY_ERASE", 3, 8), Plain("ECC_KEY_ERASE", 3, 32),
      Plain("ECDSA_SIGN", 48, 8), Plain("ECDSA_SIGN", 49, 8), Plain("EDDSA_SIGN", 16, 8),
      Plain("EDDSA_SIGN", 20, 8), Plain("R_MEM_DATA_WRITE", 5, 511),
      Plain("R_MEM_DATA_WRITE", 448, 511), Plain("R_MEM_DATA_WRITE", 479, 511),
      Plain("R_MEM_DATA_READ", 3, 511), Plain("R_MEM_DATA_ERASE", 3, 511),
      Plain("R_MEM_DATA_WRITE", 5, 512), Cmd("MCOUNTER_INIT", 8, 15, 2, 0, {}),
      Cmd("MCOUNTER_INIT", 8, 15, 3, 0, {}), Plain("MCOUNTER_UPDATE", 3, 15),
      Plain("MCOUNTER_GET", 3, 15), Plain("MCOUNTER_UPDATE", 3, 16),
      Cmd("MAC_AND_DESTROY", 36, 127, 0, 1, {}), Cmd("MAC_AND_DESTROY", 36, 127, 0, 2, {}),
      Cmd("RANDOM_VALUE_GET", 2, 0, 8, 0, {}), Cmd("RANDOM_VALUE_GET", 3, 0, 8, 0, {}),
      Cmd("R_CONFIG_WRITE", 8, UAP.ECC_KEY_ERASE, 0, 0, {9}),
      Cmd("R_CONFIG_WRITE", 8, UAP.R_MEM_DATA_WRITE, 0, 0, {24}),
      Cmd("R_CONFIG_WRITE", 8, UAP.MCOUNTER_INIT, 0, 0, {24, 25, 26, 27}),
      Plain("PING", 5, 0), Plain("UNKNOWN", 4, 0), Plain("UNKNOWN", 0, 0) }

\* Pairing slots and the two configuration objects.  The registers are the privilege
\* registers of the commands themselves, so that sessions can revoke their own rights.
ConfigCommands ==
    { Cmd("PAIRING_KEY_WRITE", 36, 1, 0, 2, {}), Plain("PAIRING_KEY_INVALIDATE", 3, 1),
      Cmd("PAIRING_KEY_WRITE", 36, 1, 0, 3, {}), Plain("PAIRING_KEY_READ", 3, 1),
      Plain("PAIRING_KEY_READ", 3, 4),
      Cmd("R_CONFIG_WRITE", 8, UAP.R_CONFIG_WRITE_ERASE, 0, 0, {1}),
      Cmd("R_CONFIG_WRITE", 8, UAP.I_CONFIG_WRITE, 0, 0, {1, 8}),
      Cmd("R_CONFIG_WRITE", 8, UAP.PAIRING_KEY_WRITE, 0, 0, {9}),
      Cmd("R_CONFIG_WRITE", 8, 2, 0, 0, {1}), Plain("R_CONFIG_ERASE", 1, 0),
      Plain("R_CONFIG_READ", 3, UAP.PING), Plain("I_CONFIG_READ", 3, 512),
      Cmd("I_CONFIG_WRITE", 4, UAP.R_CONFIG_WRITE_ERASE, 0, 0, {}),
      Cmd("I_CONFIG_WRITE", 4, UAP.PING, 1, 0, {}),
      Cmd("I_CONFIG_WRITE", 4, UAP.PAIRING_KEY_INVALIDATE, 8, 0, {}),
      Cmd("I_CONFIG_WRITE", 4, UAP.PING, 32, 0, {}), Cmd("I_CONFIG_WRITE", 4, 258, 0, 0, {}) }
=============================================================================
