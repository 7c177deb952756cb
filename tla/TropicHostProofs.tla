--------------------------- MODULE TropicHostProofs ---------------------------
(***************************************************************************)
(* Proofs about TropicHost: the exchange of a request and its answer       *)
(* between a host and the chip, for every set of commands and requests,    *)
(* every number of busy polls and every number of frames in an answer.     *)
(***************************************************************************)
EXTENDS TropicHost, TropicChipProofs

-----------------------------------------------------------------------------
(***************************************************************************)
(* The inductive invariant.  While the chip keeps its power it has, from   *)
(* the moment the request is written, exactly the frames that the host     *)
(* will fetch; its phase is the one that the host's next byte needs; and   *)
(* the polls so far and the busy polls to come stay below the host's       *)
(* patience.  A chip that lost its power has nothing to offer.             *)
(***************************************************************************)
\* After frame f the host goes on, when it wrote an encrypted command (enc) or another one.
More(f, enc) == f.status = "RESULT_CONT" \/ (enc /\ f.status = "REQUEST_OK")

\* Frames that the host fetches to the last one and no further.
WholeAnswer(q, enc) ==
    /\ q \in Seq(FrameType) /\ q # <<>>
    /\ \A i \in 1..Len(q) : More(q[i], enc) <=> i < Len(q)

Between == {"idle", "timeout", "write", "rest"}
Waiting == {"written", "poll", "ask", "retry"}
Reading == {"read", "read all"}

HostType ==
    /\ pc \in Between \cup Waiting \cup Reading \cup {"alarm"}
    /\ polls \in Nat /\ encrypted \in BOOLEAN /\ powered \in BOOLEAN
    /\ busy_left \in 0..BusyPolls

\* What a chip that lost its power, or has no request to answer, keeps for the host.
NothingToFetch ==
    /\ queue = <<>> /\ mode # "Alarm"
    /\ last_response # None => last_response.status # "RESULT_CONT"

PhaseFits ==
    /\ pc = "write" => phase = "First"
    /\ pc = "rest" => phase = "Request"
    /\ pc = "ask" => phase = "First"
    /\ pc \in {"written", "retry"} => phase # "Response"
    /\ pc \in Reading => phase = "Response"
    /\ pc = "read all" => drained

Answering ==
    \/ mode = "Alarm" /\ queue = <<>> /\ pc \in {"written", "poll", "ask"}
    \/ /\ mode # "Alarm"
       /\ WholeAnswer(queue, encrypted)
       /\ pc \in Waiting => polls + busy_left <= BusyPolls

HostInv ==
    /\ HostType
    /\ pc \in Between => NothingToFetch
    /\ pc = "timeout" => ~powered
    /\ powered => PhaseFits /\ (pc \in Waiting \cup Reading => Answering)
    /\ ~powered => /\ NothingToFetch
                   /\ phase # "Response"
                   /\ pc \in {"write", "rest"} => phase = "Idle"

-----------------------------------------------------------------------------
\* One plain frame is all that is fetched after a request that is not an encrypted command;
\* a frame that refuses, postpones or aborts an encrypted command ends the exchange too.
LEMMA OneFrameIsWhole ==
  ASSUME NEW f \in FrameType, NEW enc \in BOOLEAN, ~More(f, enc)
  PROVE  WholeAnswer(<<f>>, enc)
  BY DEF WholeAnswer

\* Every plain status that a request is answered with ends the exchange, except the
\* acknowledgement of an encrypted command.
LEMMA PlainIsWhole ==
  ASSUME NEW st \in {"REQUEST_OK", "REQUEST_CONT", "RESP_DISABLED", "HSK_ERR", "NO_SESSION",
                     "TAG_ERR", "CRC_ERR", "UNKNOWN_ERR", "GEN_ERR"},
         NEW enc \in BOOLEAN, enc => st # "REQUEST_OK"
  PROVE  WholeAnswer(<<build_response(st)>>, enc)
  <1>1. build_response(st) \in FrameType /\ build_response(st).status = st
    BY DEF FrameType, build_response
  <1> QED
    BY <1>1, OneFrameIsWhole DEF More

\* An error after the acknowledgement is the end of the answer to an encrypted command.
LEMMA ErrorIsWhole ==
  ASSUME NEW st \in {"TAG_ERR", "GEN_ERR"}
  PROVE  WholeAnswer(<<ACK, build_response(st)>>, TRUE)
  <1> DEFINE f == build_response(st)
  <1>1. /\ f \in FrameType /\ f.status = st
        /\ ACK \in FrameType /\ ACK.status = "REQUEST_OK"
    BY DEF FrameType, build_response, ACK
  <1> HIDE DEF f
  <1>2. More(ACK, TRUE) /\ ~More(f, TRUE)
    BY <1>1 DEF More
  <1> DEFINE q == <<ACK, f>>
  <1>3. /\ q \in Seq(FrameType) /\ q # <<>> /\ Len(q) = 2
        /\ q[1] = ACK /\ q[2] = f
    BY <1>1
  <1> HIDE DEF q
  <1>4. \A i \in 1..Len(q) : i = 1 \/ i = 2
    BY <1>3
  <1>5. WholeAnswer(q, TRUE)
    BY <1>2, <1>3, <1>4 DEF WholeAnswer, More
  <1> QED
    BY <1>5 DEF f, q

\* The acknowledgement and the chunks of a result: only the last chunk says that it is.
LEMMA ResultIsWhole ==
  ASSUME NEW sid \in Nat, NEW nonce \in Nat, NEW size \in Nat
  PROVE  WholeAnswer(ResultFrames(sid, nonce, size), TRUE)
  <1> DEFINE n == Chunks(size)
             chunk(i) == [status |-> IF i = n THEN "RESULT_OK" ELSE "RESULT_CONT",
                          sid |-> sid, nonce |-> nonce, part |-> i]
             chunks == [i \in 1..n |-> chunk(i)]
             frames == <<ACK>> \o chunks
  <1>1. n \in Nat /\ n >= 1
    BY ChunksPositive
  <1>2. ResultFrames(sid, nonce, size) = frames
    BY DEF ResultFrames, ACK
  <1> HIDE DEF n
  <1>3. \A i \in 1..n : /\ chunk(i) \in FrameType
                        /\ chunk(i).status = (IF i = n THEN "RESULT_OK" ELSE "RESULT_CONT")
    BY <1>1 DEF FrameType
  <1>4. ACK \in FrameType /\ ACK.status = "REQUEST_OK"
    BY DEF FrameType, build_response, ACK
  <1> HIDE DEF chunk
  <1>5. chunks \in Seq(FrameType) /\ Len(chunks) = n /\ \A i \in 1..n : chunks[i] = chunk(i)
    BY <1>1, <1>3
  <1> HIDE DEF chunks
  <1>6. /\ frames \in Seq(FrameType) /\ Len(frames) = n + 1
        /\ frames[1] = ACK /\ \A i \in 2..(n + 1) : frames[i] = chunk(i - 1)
    BY <1>1, <1>4, <1>5
  <1> HIDE DEF frames
  <1>7. ASSUME NEW i \in 1..(n + 1)
        PROVE  More(frames[i], TRUE) <=> i < n + 1
    <2>1. CASE i = 1
      BY <1>1, <1>4, <1>6, <2>1 DEF More
    <2>2. CASE i # 1
      <3>1. i - 1 \in 1..n /\ frames[i] = chunk(i - 1)
        BY <1>1, <1>6, <2>2
      <3> QED
        BY <1>1, <1>3, <3>1 DEF More
    <2> QED
      BY <2>1, <2>2
  <1>8. frames # <<>>
    BY <1>1, <1>6
  <1> QED
    BY <1>2, <1>6, <1>7, <1>8 DEF WholeAnswer

\* What the chip has for the host once a request is complete.
Answered(enc) ==
    \/ mode' = "Alarm" /\ queue' = <<>> /\ busy_left' = 0
    \/ mode' # "Alarm" /\ WholeAnswer(queue', enc) /\ busy_left' = BusyPolls

\* Queueing a whole answer answers the request.
LEMMA RespondAnswers ==
  ASSUME NEW frames, NEW enc, WholeAnswer(frames, enc), Respond(frames), mode' # "Alarm"
  PROVE  Answered(enc)
  BY DEF Respond, Answered, WholeAnswer

\* Queueing one plain status answers the request.
LEMMA PlainAnswered ==
  ASSUME NEW st \in {"REQUEST_OK", "REQUEST_CONT", "RESP_DISABLED", "HSK_ERR", "NO_SESSION",
                     "TAG_ERR", "CRC_ERR", "UNKNOWN_ERR", "GEN_ERR"},
         NEW enc \in BOOLEAN, enc => st # "REQUEST_OK",
         RespondWith(st), mode' # "Alarm"
  PROVE  Answered(enc)
  BY PlainIsWhole, RespondAnswers DEF RespondWith

\* Every request that is not an encrypted command is answered by one frame, or by an alarm.
LEMMA RequestAnswered ==
  ASSUME QueueInv, NothingToFetch, NEW r \in Requests, Request(r)
  PROVE  Answered(FALSE)
  <1>1. CASE Resend(r)
    <2>1. mode' # "Alarm"
      BY <1>1 DEF Resend, Accept, bootVars
    <2>2. CASE r.len = 0 /\ last_response # None
      <3>1. queue' = <<last_response>> /\ busy_left' = BusyPolls
        BY <1>1, <2>2 DEF Resend, NothingToFetch, QueueInv
      <3>2. WholeAnswer(<<last_response>>, FALSE)
        BY <2>2, OneFrameIsWhole DEF NothingToFetch, QueueInv, More
      <3> QED
        BY <2>1, <3>1, <3>2 DEF Answered
    <2>3. CASE ~(r.len = 0 /\ last_response # None)
      BY <1>1, <2>1, <2>3, PlainAnswered DEF Resend
    <2> QED
      BY <2>2, <2>3
  <1>2. CASE GetInfo(r)
    <2>1. (IF r.len = 2 THEN get_info(r) ELSE "GEN_ERR") \in {"REQUEST_OK", "GEN_ERR"}
      BY DEF get_info
    <2> QED
      BY <1>2, <2>1, PlainAnswered DEF GetInfo, Accept, bootVars
  <1>3. CASE GetLog(r)
    BY <1>3, PlainAnswered DEF GetLog, Accept, bootVars
  <1>4. CASE Startup(r)
    BY <1>4, PlainAnswered DEF Startup, Accept, reboot
  <1>5. CASE Unsupported(r)
    BY <1>5, PlainAnswered DEF Unsupported, bootVars
  <1>6. CASE SessionAbort(r)
    BY <1>6, PlainAnswered DEF SessionAbort, bootVars
  <1>7. CASE Sleep(r)
    BY <1>7, PlainAnswered DEF Sleep
  <1>8. CASE Handshake(r)
    <2>1. CASE mode' # "Alarm"
      <3>1. \E st \in {"REQUEST_OK", "HSK_ERR", "GEN_ERR"} : RespondWith(st)
        BY <1>8, <2>1 DEF Handshake
      <3> QED
        BY <2>1, <3>1, PlainAnswered
    <2>2. CASE mode' = "Alarm"
      BY <1>8, <2>2 DEF Handshake, Respond, Answered
    <2> QED
      BY <2>1, <2>2
  <1> QED
    BY <1>1, <1>2, <1>3, <1>4, <1>5, <1>6, <1>7, <1>8 DEF Request

\* Every Encrypted_Cmd_Req is answered by frames whose statuses say how many there are.
LEMMA ChunkAnswered ==
  ASSUME ChannelInv, DeviceInv, SendChunk
  PROVE  Answered(TRUE)
  <1>0. PICK pkt, i : \E n, hdr \in Nat :
                 /\ pkt # None => pkt \in Packets /\ pkt.cmd \in Commands
                 /\ EncryptedCmd(pkt, i, n, hdr)
    BY ChunkSent
  <1>1. PICK n \in Nat, hdr \in Nat :
                 /\ pkt # None => pkt \in Packets /\ pkt.cmd \in Commands
                 /\ EncryptedCmd(pkt, i, n, hdr)
    BY <1>0
  <1>2. mode' # "Alarm"
    BY <1>1 DEF EncryptedCmd
  <1>3. CASE RunCommand(pkt.cmd) /\ session # None /\ pkt # None
    <2> DEFINE c == pkt.cmd
               o == dispatch(dev, Config, session.pkey, spect, c)
               frames == ResultFrames(session.sid, session.nonce_res, o.reply.len)
    <2>1. o.reply.len \in Nat
      BY <1>1, <1>3, CommandsAssumption, DispatchOk DEF DeviceInv, ReplyOk
    <2>2. session.sid \in Nat /\ session.nonce_res \in Nat
      BY <1>3, BoundsAssumption DEF ChannelInv, ChannelType, SessionType
    <2>3. WholeAnswer(frames, TRUE)
      BY <2>1, <2>2, ResultIsWhole
    <2>4. Respond(<<ACK, build_response("GEN_ERR")>>) \/ Respond(frames)
      BY <1>3 DEF RunCommand
    <2> HIDE DEF frames
    <2> QED
      BY <1>2, <2>3, <2>4, ErrorIsWhole, RespondAnswers
  <1>4. CASE ~(RunCommand(pkt.cmd) /\ session # None /\ pkt # None)
    <2>1. \/ \E st \in {"NO_SESSION", "GEN_ERR", "REQUEST_CONT"} : RespondWith(st)
          \/ \E st \in {"GEN_ERR", "TAG_ERR"} : Respond(<<ACK, build_response(st)>>)
          \/ RunCommand(pkt.cmd) /\ session # None /\ Opens(Gather(pkt, i, n))
               /\ ~(l3_packet.len = 0 /\ n < L3_SIZE_LEN)
               /\ ~(Gather(pkt, i, n).len < (IF l3_packet.len = 0 THEN PacketLen(hdr) ELSE l3_expected))
      BY <1>1 DEF EncryptedCmd
    <2>2. ASSUME RunCommand(pkt.cmd), session # None, Opens(Gather(pkt, i, n)),
                 ~(l3_packet.len = 0 /\ n < L3_SIZE_LEN),
                 ~(Gather(pkt, i, n).len < (IF l3_packet.len = 0 THEN PacketLen(hdr) ELSE l3_expected))
          PROVE  pkt # None
      BY <2>2, LastChunkOfPacket
    <2>3. CASE \E st \in {"NO_SESSION", "GEN_ERR", "REQUEST_CONT"} : RespondWith(st)
      BY <1>2, <2>3, PlainAnswered
    <2>4. CASE \E st \in {"GEN_ERR", "TAG_ERR"} : Respond(<<ACK, build_response(st)>>)
      BY <1>2, <2>4, ErrorIsWhole, RespondAnswers
    <2> QED
      BY <1>4, <2>1, <2>2, <2>3, <2>4
  <1> QED
    BY <1>3, <1>4

-----------------------------------------------------------------------------
(***************************************************************************)
(* The steps of the host.                                                  *)
(***************************************************************************)
\* Every step of the host is a step of the chip, or one the chip does not notice.
LEMMA HostDrivesChip == [HNext]_hvars => [Next]_vars
  <1> SUFFICES ASSUME [HNext]_hvars PROVE [Next]_vars
    OBVIOUS
  <1>1. CASE Select \/ Deselect \/ Take \/ PowerLoss
    BY <1>1 DEF Select, Deselect, Take, PowerLoss, Next
  <1>2. CASE WriteHead \/ Ask \/ Read
    BY <1>2 DEF WriteHead, Ask, Read, Next
  <1>3. CASE WriteRest
    BY <1>3 DEF WriteRest, Next
  <1>4. CASE UNCHANGED hvars
    BY <1>4 DEF hvars
  <1> QED
    BY <1>1, <1>2, <1>3, <1>4 DEF HNext, Exchange

\* Pulling chip select low starts a new transaction and moves no frame.
LEMMA SelectKeeps ==
  ASSUME HostInv, Select
  PROVE  HostInv'
  <1>1. /\ UNCHANGED <<queue, busy_left, mode, last_response, polls, encrypted>>
        /\ phase' = "First" /\ drained' = FALSE
    BY DEF Select, csn_low, rspVars, bootVars
  <1>2. CASE pc = "poll"
    <2>1. pc' = "ask" /\ powered' = powered
      BY <1>2 DEF Select, HostInv, HostType
    <2> QED
      BY <1>1, <1>2, <2>1
      DEF HostInv, HostType, NothingToFetch, PhaseFits, Answering, Between, Waiting, Reading
  <1>3. CASE pc # "poll"
    <2>1. pc \in Between /\ pc' = "write" /\ powered' = TRUE
      BY <1>3 DEF Select, Between
    <2> QED
      BY <1>1, <2>1
      DEF HostInv, HostType, NothingToFetch, PhaseFits, Between, Waiting, Reading
  <1> QED
    BY <1>2, <1>3

\* The first byte of a request puts a chip that expects one into its request phase.
LEMMA WriteHeadKeeps ==
  ASSUME HostInv, WriteHead
  PROVE  HostInv'
  <1>1. /\ UNCHANGED <<queue, busy_left, mode, last_response, polls, encrypted, powered>>
        /\ pc = "write" /\ pc' = "rest"
        /\ phase = "First" => phase' = "Request"
        /\ phase # "First" => phase' = phase
    BY DEF WriteHead, RequestHead, vars, rspVars, bootVars, spiVars
  <1> QED
    BY <1>1
    DEF HostInv, HostType, NothingToFetch, PhaseFits, Between, Waiting, Reading

\* The request is complete and its answer is ready, unless the chip lost its power.
LEMMA WriteRestKeeps ==
  ASSUME ChannelInv, DeviceInv, QueueInv, HostInv, WriteRest
  PROVE  HostInv'
  <1>1. /\ pc = "rest" /\ pc' = "written" /\ polls' = 0 /\ powered' = powered
        /\ NothingToFetch
    BY DEF WriteRest, HostInv, Between
  <1>2. CASE phase # "Request"
    <2>1. ~powered
      BY <1>1, <1>2 DEF HostInv, PhaseFits
    <2>2. UNCHANGED <<vars, encrypted>>
      BY <1>2 DEF WriteRest, Request, Resend, GetInfo, GetLog, Startup, Unsupported, SessionAbort,
                  Sleep, Handshake, Accept, FrameDone, BadCrc, IgnoredInAlarm,
                  SendChunk, EncryptedCmd, EncryptedCmdUnsupported
    <2> QED
      BY <1>1, <2>1, <2>2
      DEF HostInv, HostType, NothingToFetch, PhaseFits, Between, Waiting, Reading,
          vars, spiVars, rspVars, bootVars
  <1>3. CASE phase = "Request"
    <2>1. powered = TRUE
      BY <1>1, <1>3 DEF HostInv, HostType
    <2>2. encrypted' \in BOOLEAN /\ Answered(encrypted')
      <3>1. CASE (\E r \in Requests : Request(r)) /\ encrypted' = FALSE
        BY <1>1, <3>1, RequestAnswered
      <3>2. CASE BadCrc /\ encrypted' = FALSE
        BY <3>2, PlainAnswered DEF BadCrc, bootVars
      <3>3. CASE SendChunk /\ encrypted' = TRUE
        BY <3>3, ChunkAnswered
      <3>4. CASE EncryptedCmdUnsupported /\ encrypted' = TRUE
        BY <3>4, PlainAnswered DEF EncryptedCmdUnsupported, bootVars
      <3>5. ~IgnoredInAlarm
        BY <1>1 DEF IgnoredInAlarm, NothingToFetch
      <3> QED
        BY <1>3, <3>1, <3>2, <3>3, <3>4, <3>5 DEF WriteRest
    <2>3. BusyPolls \in Nat
      BY BoundsAssumption
    <2>4. phase' = "NoResponse"
      BY <1>3 DEF WriteRest, Request, Resend, GetInfo, GetLog, Startup, Unsupported, SessionAbort,
                  Sleep, Handshake, Accept, FrameDone, BadCrc, IgnoredInAlarm,
                  SendChunk, EncryptedCmd, EncryptedCmdUnsupported
    <2> QED
      BY <1>1, <2>1, <2>2, <2>3, <2>4
      DEF HostInv, HostType, PhaseFits, Answering, Answered, Between, Waiting, Reading
  <1> QED
    BY <1>2, <1>3

\* Chip select going high ends the request, which is when the chip answers it, or gives up a
\* poll that found the chip busy.
LEMMA DeselectKeeps ==
  ASSUME HostInv, Deselect
  PROVE  HostInv'
  <1>1. /\ pc \in {"written", "retry"} /\ UNCHANGED <<busy_left, mode, polls, encrypted, powered>>
        /\ pc' = IF pc = "written" \/ polls < MaxPolls THEN "poll" ELSE "timeout"
        /\ phase' = "Idle"
        /\ phase # "Response" => UNCHANGED <<queue, last_response>>
    BY DEF Deselect, csn_high, bootVars
  <1>2. MaxPolls \in Nat /\ BusyPolls \in Nat /\ BusyPolls < MaxPolls
    BY MaxPollsAssumption, BoundsAssumption
  <1>3. CASE powered
    <2>1. Answering /\ PhaseFits /\ UNCHANGED <<queue, last_response>>
      BY <1>1, <1>3 DEF HostInv, PhaseFits, Waiting
    <2>2. pc' = "poll"
      BY <1>1, <1>2, <2>1 DEF HostInv, HostType, Answering, Waiting
    <2>3. Answering'
      BY <1>1, <2>1, <2>2 DEF Answering, Waiting
    <2> QED
      BY <1>1, <1>3, <2>2, <2>3 DEF HostInv, HostType, PhaseFits, Between, Waiting, Reading
  <1>4. CASE ~powered
    <2>1. NothingToFetch /\ UNCHANGED <<queue, last_response>>
      BY <1>1, <1>4 DEF HostInv
    <2>2. NothingToFetch'
      BY <1>1, <2>1 DEF NothingToFetch
    <2> QED
      BY <1>1, <1>4, <2>2 DEF HostInv, HostType, Between, Waiting, Reading
  <1> QED
    BY <1>3, <1>4

\* A poll finds the answer, the alarm, or one busy poll less to come.
LEMMA AskKeeps ==
  ASSUME HostInv, Ask
  PROVE  HostInv'
  <1>1. /\ pc = "ask" /\ polls' = polls + 1
        /\ pc' \in {"read", "alarm", "retry"}
        /\ phase' = "Response" => pc' = "read"
        /\ phase' # "Response" => pc' # "read"
        /\ UNCHANGED <<queue, mode, last_response, encrypted, powered>>
    BY DEF Ask, Poll, vars, spiVars, rspVars, bootVars
  <1>2. CASE powered
    <2>1. Answering /\ PhaseFits /\ phase = "First"
      BY <1>1, <1>2 DEF HostInv, PhaseFits, Waiting
    <2>2. Poll
      BY <2>1 DEF Ask
    <2>3. CASE mode = "Alarm"
      <3>1. phase' = "NoResponse" /\ "ALARM" \in cs' /\ busy_left' = busy_left
        BY <2>2, <2>3 DEF Poll, chip_status
      <3>2. pc' = "alarm"
        BY <3>1 DEF Ask
      <3> QED
        BY <1>1, <1>2, <3>1, <3>2 DEF HostInv, HostType, PhaseFits, Between, Waiting, Reading
    <2>4. CASE mode # "Alarm" /\ busy_left > 0
      <3>1. queue # <<>> /\ WholeAnswer(queue, encrypted) /\ polls + busy_left <= BusyPolls
        BY <1>1, <2>1, <2>4 DEF Answering, WholeAnswer, Waiting
      <3>2. phase' = "NoResponse" /\ busy_left' = busy_left - 1
        BY <2>2, <2>4, <3>1 DEF Poll
      <3>3. busy_left' \in 0..BusyPolls /\ polls' \in Nat /\ polls' + busy_left' <= BusyPolls
        BY <1>1, <2>4, <3>1, <3>2, BoundsAssumption DEF HostInv, HostType
      <3>4. Answering'
        BY <1>1, <2>4, <3>1, <3>3 DEF Answering
      <3> QED
        BY <1>1, <1>2, <3>2, <3>3, <3>4 DEF HostInv, HostType, PhaseFits, Between, Waiting, Reading
    <2>5. CASE mode # "Alarm" /\ ~(busy_left > 0)
      <3>1. queue # <<>> /\ WholeAnswer(queue, encrypted)
        BY <2>1, <2>5 DEF Answering, WholeAnswer
      <3>2. phase' = "Response" /\ busy_left' = busy_left
        BY <2>2, <2>5, <3>1 DEF Poll
      <3>3. polls' \in Nat /\ pc' = "read"
        BY <1>1, <3>2 DEF HostInv, HostType
      <3>4. Answering'
        BY <1>1, <2>5, <3>1, <3>3 DEF Answering, Waiting
      <3> QED
        BY <1>1, <1>2, <3>2, <3>3, <3>4 DEF HostInv, HostType, PhaseFits, Between, Waiting, Reading
    <2> QED
      BY <2>3, <2>4, <2>5
  <1>3. CASE ~powered
    <2>1. NothingToFetch /\ NothingToFetch'
      BY <1>1, <1>3 DEF HostInv, NothingToFetch
    <2>2. phase' # "Response" /\ busy_left' = busy_left
      BY <1>3, <2>1 DEF Ask, Poll, NothingToFetch, HostInv, vars, spiVars, rspVars
    <2>3. pc' \in {"alarm", "retry"}
      BY <1>1, <2>2
    <2>4. HostType'
      BY <1>1, <2>2, <2>3 DEF HostInv, HostType, Waiting
    <2> QED
      BY <1>1, <1>3, <2>1, <2>2, <2>3, <2>4 DEF HostInv, Between
  <1> QED
    BY <1>2, <1>3

\* A poll finds the chip busy, without an answer, or with a frame to read.
LEMMA ReadKeeps ==
  ASSUME HostInv, Read
  PROVE  HostInv'
  <1>1. /\ pc = "read"
        /\ UNCHANGED <<queue, busy_left, mode, last_response, phase, polls, encrypted, powered>>
        /\ phase = "Response" => pc' = "read all" /\ drained' = TRUE
        /\ phase # "Response" => pc' = "retry"
    BY DEF Read, ClockOut, vars, spiVars, rspVars, bootVars
  <1>2. CASE powered
    <2>1. Answering /\ phase = "Response"
      BY <1>1, <1>2 DEF HostInv, PhaseFits, Reading
    <2>2. Answering'
      BY <1>1, <2>1 DEF Answering, Waiting
    <2> QED
      BY <1>1, <1>2, <2>1, <2>2 DEF HostInv, HostType, PhaseFits, Between, Waiting, Reading
  <1>3. CASE ~powered
    <2>1. NothingToFetch /\ NothingToFetch'
      BY <1>1, <1>3 DEF HostInv, NothingToFetch
    <2> QED
      BY <1>1, <1>3, <2>1 DEF HostInv, HostType, Between, Waiting, Reading
  <1> QED
    BY <1>2, <1>3

\* The rest of a whole answer is a whole answer, and the host stops after its last frame.
LEMMA RestIsWhole ==
  ASSUME NEW q, NEW enc, WholeAnswer(q, enc)
  PROVE  /\ More(Head(q), enc) => WholeAnswer(Tail(q), enc)
         /\ ~More(Head(q), enc) => Tail(q) = <<>>
         /\ Head(q) \in FrameType
  <1>1. q \in Seq(FrameType) /\ q # <<>> /\ Len(q) \in Nat /\ Len(q) >= 1 /\ Head(q) = q[1]
        /\ 1 \in 1..Len(q)
    BY DEF WholeAnswer
  <1>2. /\ Tail(q) \in Seq(FrameType) /\ Len(Tail(q)) = Len(q) - 1
        /\ \A i \in 1..(Len(q) - 1) : Tail(q)[i] = q[i + 1]
    BY <1>1
  <1> DEFINE t == Tail(q)
  <1>3. /\ t \in Seq(FrameType) /\ Len(t) = Len(q) - 1
        /\ \A i \in 1..Len(t) : t[i] = q[i + 1]
    BY <1>1, <1>2
  <1> HIDE DEF t
  <1>4. CASE Len(q) = 1
    <2>1. t = <<>>
      BY <1>3, <1>4, EmptySeq
    <2>2. ~More(Head(q), enc)
      BY <1>1, <1>4 DEF WholeAnswer
    <2>3. Head(q) \in FrameType
      BY <1>1
    <2> QED
      BY <2>1, <2>2, <2>3 DEF t
  <1>5. CASE Len(q) > 1
    <2>1. More(Head(q), enc)
      BY <1>1, <1>5 DEF WholeAnswer
    <2>2. t # <<>>
      BY <1>1, <1>3, <1>5, EmptySeq
    <2>3. ASSUME NEW i \in 1..Len(t)
          PROVE  More(t[i], enc) <=> i < Len(t)
      <3>1. i + 1 \in 1..Len(q) /\ t[i] = q[i + 1] /\ (i + 1 < Len(q) <=> i < Len(t))
        BY <1>1, <1>3
      <3> QED
        BY <3>1 DEF WholeAnswer
    <2>4. WholeAnswer(t, enc)
      BY <1>3, <2>2, <2>3 DEF WholeAnswer
    <2>5. Head(q) \in FrameType
      BY <1>1
    <2> QED
      BY <2>1, <2>4, <2>5 DEF t
  <1>6. Len(q) = 1 \/ Len(q) > 1
    <2>1. \A n \in Nat : n >= 1 => n = 1 \/ n > 1
      OBVIOUS
    <2> QED
      BY <1>1, <2>1
  <1> QED
    BY <1>4, <1>5, <1>6

\* Chip select going high after a whole frame was read takes it from the queue.
LEMMA TakeKeeps ==
  ASSUME HostInv, Take
  PROVE  HostInv'
  <1>1. /\ pc = "read all" /\ csn_high
        /\ UNCHANGED <<busy_left, mode, encrypted, powered>>
        /\ phase' = "Idle"
    BY DEF Take, csn_high, bootVars
  <1>2. CASE powered
    <2>1. Answering /\ phase = "Response" /\ drained
      BY <1>1, <1>2 DEF HostInv, PhaseFits, Reading
    <2>2. mode # "Alarm" /\ WholeAnswer(queue, encrypted) /\ queue # <<>>
      BY <1>1, <2>1 DEF Answering, WholeAnswer
    <2>3. queue' = Tail(queue) /\ last_response' = Head(queue)
      BY <1>1, <2>1, <2>2 DEF csn_high
    <2>4. CASE More(Head(queue), encrypted)
      <3>1. pc' = "poll" /\ polls' = 0
        BY <2>1, <2>4 DEF Take, MoreAfter, More
      <3>2. WholeAnswer(queue', encrypted')
        BY <1>1, <2>2, <2>3, <2>4, RestIsWhole
      <3>3. polls' + busy_left' <= BusyPolls /\ polls' \in Nat
        <4>1. busy_left' \in 0..BusyPolls /\ BusyPolls \in Nat
          BY <1>1, BoundsAssumption DEF HostInv, HostType
        <4>2. \A b \in 0..BusyPolls : 0 + b <= BusyPolls
          BY <4>1
        <4>3. polls' = 0
          BY <3>1
        <4> QED
          BY <4>1, <4>2, <4>3
      <3>4. Answering'
        BY <1>1, <2>2, <3>2, <3>3 DEF Answering
      <3> QED
        BY <1>1, <1>2, <3>1, <3>3, <3>4
        DEF HostInv, HostType, PhaseFits, Between, Waiting, Reading
    <2>5. CASE ~More(Head(queue), encrypted)
      <3>1. pc' = "idle" /\ polls' = polls
        BY <2>1, <2>5 DEF Take, MoreAfter, More
      <3>2. queue' = <<>>
        BY <2>2, <2>3, <2>5, RestIsWhole
      <3>3. NothingToFetch'
        BY <1>1, <2>2, <2>3, <2>5, <3>2 DEF NothingToFetch, More
      <3> QED
        BY <1>1, <1>2, <3>1, <3>3 DEF HostInv, HostType, PhaseFits, Between, Waiting, Reading
    <2> QED
      BY <2>4, <2>5
  <1>3. CASE ~powered
    <2>1. NothingToFetch /\ phase # "Response"
      BY <1>3 DEF HostInv
    <2>2. UNCHANGED <<queue, last_response>>
      BY <1>1, <2>1 DEF csn_high
    <2>3. NothingToFetch' /\ pc' = "idle" /\ polls' = polls
      BY <1>1, <2>1, <2>2 DEF NothingToFetch, Take
    <2> QED
      BY <1>1, <1>3, <2>3 DEF HostInv, HostType, Between, Waiting, Reading
  <1> QED
    BY <1>2, <1>3

\* A loss of power leaves nothing to fetch, and the exchange fails or has not begun.
LEMMA PowerLossKeeps ==
  ASSUME HostInv, PowerLoss
  PROVE  HostInv'
  <1>1. /\ queue' = <<>> /\ last_response' = None /\ mode' = "Application" /\ busy_left' = 0
        /\ phase' = "Idle" /\ powered' = FALSE /\ UNCHANGED <<polls, encrypted>>
        /\ pc' = pc \/ pc' = "idle"
    BY DEF PowerLoss, power_cycle, PowerOn
  <1>2. NothingToFetch'
    BY <1>1 DEF NothingToFetch
  <1>3. busy_left' \in 0..BusyPolls
    BY <1>1, BoundsAssumption
  <1> QED
    BY <1>1, <1>2, <1>3 DEF HostInv, HostType, Between, Waiting, Reading

\* Every step of the host, and the loss of power, preserves the invariant.
LEMMA HostNext ==
  ChannelInv /\ DeviceInv /\ QueueInv /\ HostInv /\ [HNext]_hvars => HostInv'
  <1> SUFFICES ASSUME ChannelInv, DeviceInv, QueueInv, HostInv, [HNext]_hvars PROVE HostInv'
    OBVIOUS
  <1>1. CASE UNCHANGED hvars
    <2>1. UNCHANGED <<pc, polls, encrypted, powered, busy_left, queue, mode, last_response,
                      phase, drained>>
      BY <1>1 DEF hvars, vars, spiVars, rspVars, bootVars
    <2> QED
      BY <2>1 DEF HostInv, HostType, NothingToFetch, PhaseFits, Answering
  <1> QED
    BY <1>1, SelectKeeps, WriteHeadKeeps, WriteRestKeeps, DeselectKeeps, AskKeeps, ReadKeeps,
       TakeKeeps, PowerLossKeeps DEF HNext, Exchange

\* However long the answers and however often the chip is busy, a host that allows more polls
\* than the chip has busy ones gets every frame of every answer, and stops at the last one;
\* only a loss of power makes it give up (chip.rs with the exchange of the simulator's tests).
THEOREM ExchangesAreWhole == HSpec => []ExchangeIsWhole
  <1>1. HInit => Init /\ HostInv
    <2> SUFFICES ASSUME HInit PROVE Init /\ HostInv
      OBVIOUS
    <2>1. NothingToFetch
      BY DEF HInit, Init, NothingToFetch
    <2>2. busy_left \in 0..BusyPolls
      BY BoundsAssumption DEF HInit, Init
    <2> QED
      BY <2>1, <2>2
      DEF HInit, Init, HostInv, HostType, PhaseFits, Between, Waiting, Reading
  <1>2. Init => DeviceInv
    BY ProvisionOk DEF Init, DeviceInv
  <1>3. Init => QueueInv
    BY DEF Init, QueueInv, InOrder
  <1>4. HostInv => ExchangeIsWhole
    BY DEF HostInv, NothingToFetch, Between, ExchangeIsWhole
  <1> QED
    BY <1>1, <1>2, <1>3, <1>4, ChannelInit, HostDrivesChip, ChannelNext, DeviceNext, QueueNext,
       HostNext, PTL DEF HSpec
=============================================================================
