---------------------------- MODULE MCTropicChip ----------------------------
(***************************************************************************)
(* Requests and commands for the runs of TropicChip.                       *)
(***************************************************************************)
EXTENDS TropicChip

Cmd(id, len, slot, n, k, zeros) ==
    [id |-> id, len |-> len, slot |-> slot, n |-> n, k |-> k, zeros |-> zeros]
Req(id, len, arg, blk) == [id |-> id, len |-> len, arg |-> arg, blk |-> blk]

LongPing == Cmd("PING", 240, 0, 0, 0, {})    \* two request chunks, two result chunks
RevokeSleep == Cmd("I_CONFIG_WRITE", 4, SLEEP_MODE, SLEEP_MODE_EN, 0, {})
Unpair == Cmd("PAIRING_KEY_INVALIDATE", 3, 0, 0, 0, {})
BadKeySize == Cmd("ECC_KEY_READ", 4, 0, 0, 0, {})

AllRequests ==
    { Req("RESEND", 0, 0, 0), Req("RESEND", 1, 0, 0), Req("GET_INFO", 2, 0, 29),
      Req("GET_INFO", 2, 176, 1), Req("GET_LOG", 0, 0, 0), Req("STARTUP", 1, 1, 0),
      Req("STARTUP", 1, 3, 0), Req("STARTUP", 1, 2, 0), Req("UNKNOWN", 0, 0, 0),
      Req("ENCRYPTED_SESSION_ABT", 0, 0, 0), Req("ENCRYPTED_SESSION_ABT", 1, 0, 0),
      Req("SLEEP", 1, 5, 0), Req("SLEEP", 1, 0, 0), Req("HANDSHAKE", 33, 0, 0),
      Req("HANDSHAKE", 33, 4, 0), Req("HANDSHAKE", 32, 0, 0) }

LinkCommands == {LongPing}

ChannelRequests ==
    { Req("HANDSHAKE", 33, 0, 0), Req("STARTUP", 1, 1, 0), Req("STARTUP", 1, 3, 0),
      Req("ENCRYPTED_SESSION_ABT", 0, 0, 0), Req("SLEEP", 1, 5, 0) }
ChannelCommands == {RevokeSleep, LongPing, BadKeySize, Unpair}
=============================================================================
