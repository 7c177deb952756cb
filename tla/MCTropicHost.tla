---------------------------- MODULE MCTropicHost ----------------------------
(***************************************************************************)
(* Requests and commands for the run of TropicHost.                        *)
(***************************************************************************)
EXTENDS TropicHost

Req(id, len, arg, blk) == [id |-> id, len |-> len, arg |-> arg, blk |-> blk]

HostRequests ==
    { Req("RESEND", 0, 0, 0), Req("GET_INFO", 2, 0, 0), Req("STARTUP", 1, 3, 0),
      Req("ENCRYPTED_SESSION_ABT", 0, 0, 0), Req("HANDSHAKE", 33, 0, 0),
      Req("HANDSHAKE", 33, 4, 0) }

HostCommands ==
    { [id |-> "PING", len |-> 240, slot |-> 0, n |-> 0, k |-> 0, zeros |-> {}],
      [id |-> "MCOUNTER_GET", len |-> 3, slot |-> 0, n |-> 0, k |-> 0, zeros |-> {}] }
=============================================================================
