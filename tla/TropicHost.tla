------------------------------ MODULE TropicHost ------------------------------
(***************************************************************************)
(* The chip of TropicChip driven by one host that follows the exchange the *)
(* simulator's own tests and libtropic use: write a request, poll until a  *)
(* response is offered, read it to its last byte and, for an encrypted     *)
(* command, go on until the last chunk of the result.  The host polls at   *)
(* most MaxPolls times for one frame.  The chip may lose power at any      *)
(* moment (another connection sends POWER_OFF).                            *)
(***************************************************************************)
EXTENDS TropicChip

CONSTANT MaxPolls    \* polls for one frame before the host gives up (10 in read_frame)

ASSUME MaxPollsAssumption == MaxPolls \in Nat /\ MaxPolls > BusyPolls

VARIABLES
    pc,         \* where the host is in its exchange
    polls,      \* polls for the current frame so far
    encrypted,  \* the request written was an Encrypted_Cmd_Req
    powered     \* no power cycle since the exchange began

hvars == <<vars, pc, polls, encrypted, powered>>

HInit == Init /\ pc = "idle" /\ polls = 0 /\ encrypted = FALSE /\ powered = TRUE

\* Chip select for the request, or for the next poll.
Select ==
    /\ pc \in {"idle", "timeout", "poll"}
    /\ csn_low
    /\ pc' = IF pc = "poll" THEN "ask" ELSE "write"
    /\ powered' = (pc # "poll" \/ powered)
    /\ UNCHANGED <<polls, encrypted>>

\* The request goes out in two writes, its first byte and the rest.  A chip that lost its
\* power meanwhile is not selected and ignores the bytes.
WriteHead ==
    /\ pc = "write"
    /\ IF phase = "First" THEN RequestHead ELSE UNCHANGED vars
    /\ pc' = "rest"
    /\ UNCHANGED <<polls, encrypted, powered>>

WriteRest ==
    /\ pc = "rest"
    /\ \/ /\ \/ \E r \in Requests : Request(r)
             \/ BadCrc \/ IgnoredInAlarm
          /\ encrypted' = FALSE
       \/ /\ SendChunk \/ EncryptedCmdUnsupported
          /\ encrypted' = TRUE
       \/ /\ phase # "Request"
          /\ UNCHANGED <<vars, encrypted>>
    /\ pc' = "written" /\ polls' = 0
    /\ UNCHANGED powered

Deselect ==
    /\ pc \in {"written", "retry"}
    /\ csn_high
    /\ pc' = IF pc = "written" \/ polls < MaxPolls THEN "poll" ELSE "timeout"
    /\ UNCHANGED <<polls, encrypted, powered>>

\* One GET_RESP poll: a response is offered, the chip reports Alarm mode, or the host
\* tries again.
Ask ==
    /\ pc = "ask"
    /\ IF phase = "First" THEN Poll ELSE UNCHANGED vars
    /\ pc' = IF phase' = "Response" THEN "read"
             ELSE IF "ALARM" \in cs' THEN "alarm" ELSE "retry"
    /\ polls' = polls + 1
    /\ UNCHANGED <<encrypted, powered>>

Read ==
    /\ pc = "read"
    /\ IF phase = "Response" THEN ClockOut /\ pc' = "read all"
                             ELSE UNCHANGED vars /\ pc' = "retry"
    /\ UNCHANGED <<polls, encrypted, powered>>

\* More frames follow one that acknowledges an encrypted command and one that is not the
\* last chunk of a result.
MoreAfter(f) == f.status = "RESULT_CONT" \/ (encrypted /\ f.status = "REQUEST_OK")

Take ==
    /\ pc = "read all"
    /\ csn_high
    /\ IF phase = "Response" /\ MoreAfter(Head(queue))
         THEN pc' = "poll" /\ polls' = 0
         ELSE pc' = "idle" /\ UNCHANGED polls
    /\ UNCHANGED <<encrypted, powered>>

PowerLoss ==
    /\ power_cycle
    /\ powered' = FALSE
    /\ pc' = IF pc = "alarm" THEN "idle" ELSE pc
    /\ UNCHANGED <<polls, encrypted>>

Exchange == Select \/ WriteHead \/ WriteRest \/ Deselect \/ Ask \/ Read \/ Take

HNext == Exchange \/ PowerLoss

\* The host keeps executing its program; the chip answers every TCP frame at once.
HSpec == HInit /\ [][HNext]_hvars /\ WF_hvars(Exchange)

-----------------------------------------------------------------------------
\* The host and the chip agree on the frames of an answer.  The host gives up waiting only if
\* the chip lost power: MaxPolls polls are enough for every frame, so none is dropped or held
\* back by the queue, the busy counter or the phase logic.  And when the host believes the
\* exchange is over, the chip has nothing left to fetch: the frame statuses tell the host
\* exactly how many frames the chip queued.
ExchangeIsWhole ==
    /\ pc = "timeout" => ~powered
    /\ pc = "idle" /\ powered => queue = <<>>

\* Every request written is answered completely, or the host learns that the chip is in
\* Alarm mode or does not answer.
EveryRequestEnds == pc = "written" ~> pc \in {"idle", "alarm", "timeout"}
=============================================================================
