------------------------------ MODULE TropicChip ------------------------------
(***************************************************************************)
(* The simulated TROPIC01 behind its TCP server: the SPI byte exchange and *)
(* the L2 frame layer (chip.rs), the secure channel (session.rs), the L3   *)
(* command layer (TropicL3) and the store file (object_store, tcp_server). *)
(* One chip is shared by every connection and every TCP frame is handled   *)
(* under one lock, so the actions below are the frames, in any order: two  *)
(* hosts interleave freely, also inside one SPI transaction.               *)
(*                                                                         *)
(* Data.  A byte buffer is abstracted to how far it is filled: `phase` is  *)
(* "Request" while request bytes arrive and `drained` says that the front  *)
(* response was clocked out to its last byte.  The keys a handshake        *)
(* derives are represented by a fresh number sid, and a genuine L3 packet  *)
(* by the keys, the nonce and the command it encrypts.  The chunks         *)
(* gathered in l3_packet are represented by their size and by the genuine  *)
(* packet they are the beginning of, if they are.                          *)
(***************************************************************************)
EXTENDS TropicL3, Sequences

CONSTANTS
    Requests,      \* the L2 requests the hosts send, other than Encrypted_Cmd_Req
    BusyPolls,     \* polls answered "not ready" after each request
    MaxNonce,      \* the last nonce of a session (u32::MAX in the code)
    MaxSessions,   \* bound: handshakes that derive keys in one behaviour
    MaxQueue,      \* bound: queued response frames, which Resend_Req can grow
    StraySizes,    \* sizes of the chunks hosts send that are part of no packet
    None           \* Option::None

RequestType == [id : {"GET_INFO", "HANDSHAKE", "ENCRYPTED_SESSION_ABT", "RESEND", "SLEEP",
                      "GET_LOG", "STARTUP", "UNKNOWN"},
                len : 0..252,     \* REQ_LEN
                arg : 0..255,     \* the first data byte; the pairing index of a handshake
                blk : 0..255]     \* the second data byte

ASSUME RequestsAssumption == Requests \subseteq RequestType
ASSUME BoundsAssumption == /\ BusyPolls \in Nat
                           /\ MaxNonce \in Nat
                           /\ MaxSessions \in Nat
                           /\ MaxQueue \in Nat
                           /\ StraySizes \subseteq 0..252

VARIABLES
    mode, alarm_fresh,         \* chip mode; report READY|ALARM once
    cs,                        \* CHIP_STATUS reported in the current transaction
    phase, drained,            \* progress of the SPI transaction
    queue, last_response,      \* response frames to fetch, and the last one fetched
    busy_left,                 \* polls still answered "not ready"
    session,                   \* the open secure channel, or None
    l3_packet, l3_expected,    \* Encrypted_Cmd_Req chunks gathered, and the size awaited
    active_config,             \* <<configuration in force>>, <<>> until first needed
    spect,                     \* L3State.spect_size_error
    dev, disk,                 \* the device in memory and in the store file
    keygen,                    \* history: sessions keyed so far
    consumed                   \* history: <<sid, nonce>> of the packets decrypted

spiVars == <<cs, phase, drained>>
rspVars == <<queue, busy_left>>
chanVars == <<session, l3_packet, l3_expected>>
bootVars == <<mode, alarm_fresh, active_config, spect>>
storeVars == <<dev, disk>>
histVars == <<keygen, consumed>>
vars == <<spiVars, rspVars, last_response, chanVars, bootVars, storeVars, histVars>>

-----------------------------------------------------------------------------
(***************************************************************************)
(* Frames and packets.                                                     *)
(***************************************************************************)
MAX_L2_DATA_SIZE == 252
L3_SIZE_LEN == 2
L3_TAG_LEN == 16

\* A response frame; sid, nonce and part identify a chunk of an encrypted result.
build_response(st) == [status |-> st, sid |-> 0, nonce |-> 0, part |-> 0]

NoPacket == [len |-> 0, of |-> None, parts |-> 0]

PacketLen(size) == L3_SIZE_LEN + size + L3_TAG_LEN
Chunks(size) == (PacketLen(size) + MAX_L2_DATA_SIZE - 1) \div MAX_L2_DATA_SIZE
ChunkLen(size, i) ==
    IF i < Chunks(size) THEN MAX_L2_DATA_SIZE
    ELSE PacketLen(size) - MAX_L2_DATA_SIZE * (Chunks(size) - 1)

\* l3_packet after n more bytes, part i of the genuine packet pkt (None: of no packet).
Gather(pkt, i, n) ==
    LET fits == /\ pkt # None
                /\ i = l3_packet.parts + 1
                /\ IF i = 1 THEN l3_packet.len = 0 ELSE l3_packet.of = pkt
    IN  IF n = 0 THEN l3_packet
        ELSE [len   |-> l3_packet.len + n,
              of    |-> IF fits THEN pkt ELSE None,
              parts |-> IF fits THEN i ELSE 0]

\* What the first two bytes of a chunk read as: the size field in the first chunk of a
\* packet, ciphertext bytes in any other (too small, or too large, for the chunk itself).
Headers(i, n, size) == IF i = 1 THEN {size} ELSE {0, n}

\* Mutant: every chunk of a result says it is the last.
ResultFrames_all_last(sid, nonce, size) ==
    <<build_response("REQUEST_OK")>> \o
    [i \in 1..Chunks(size) |-> [status |-> "RESULT_OK", sid |-> sid, nonce |-> nonce, part |-> i]]

ResultFrames(sid, nonce, size) ==
    <<build_response("REQUEST_OK")>> \o
    [i \in 1..Chunks(size) |->
        [status |-> IF i = Chunks(size) THEN "RESULT_OK" ELSE "RESULT_CONT",
         sid |-> sid, nonce |-> nonce, part |-> i]]

-----------------------------------------------------------------------------
(***************************************************************************)
(* Initial state: load_or_init found no file, or a file just provisioned.  *)
(***************************************************************************)
Init ==
    /\ mode = "Application" /\ alarm_fresh = FALSE
    /\ cs = {} /\ phase = "Idle" /\ drained = FALSE
    /\ queue = <<>> /\ last_response = None /\ busy_left = 0
    /\ session = None /\ l3_packet = NoPacket /\ l3_expected = 0
    /\ active_config = <<>> /\ spect = FALSE
    /\ dev = Provision /\ disk = Provision
    /\ keygen = 0 /\ consumed = {}

-----------------------------------------------------------------------------
(***************************************************************************)
(* L1: chip select and polling.                                            *)
(***************************************************************************)
csn_low ==
    /\ phase' = "First"
    /\ drained' = FALSE
    /\ cs' = {}
    /\ UNCHANGED <<rspVars, last_response, chanVars, bootVars, storeVars, histVars>>

\* Mutant: the frame that was clocked out stays at the front of the queue.
csn_high_keeps_frame ==
    /\ IF phase = "Response" /\ queue # <<>> /\ drained
         THEN last_response' = Head(queue) ELSE UNCHANGED last_response
    /\ phase' = "Idle"
    /\ drained' = FALSE
    /\ cs' = {}
    /\ UNCHANGED <<queue, busy_left, chanVars, bootVars, storeVars, histVars>>

\* A frame is consumed once it was clocked out completely.
csn_high ==
    /\ IF phase = "Response" /\ queue # <<>> /\ drained
         THEN last_response' = Head(queue) /\ queue' = Tail(queue)
         ELSE UNCHANGED <<last_response, queue>>
    /\ phase' = "Idle"
    /\ drained' = FALSE
    /\ cs' = {}
    /\ UNCHANGED <<busy_left, chanVars, bootVars, storeVars, histVars>>

\* CHIP_STATUS as a set of flags; reporting a fresh Alarm makes it stale.
chip_status ==
    CASE mode = "Application" -> {"READY"}
      [] mode = "Maintenance" -> {"READY", "STARTUP"}
      [] mode = "Alarm" -> IF alarm_fresh THEN {"READY", "ALARM"} ELSE {"ALARM"}

AlarmReported == alarm_fresh' = (alarm_fresh /\ mode # "Alarm")

\* First byte 0xAA of a transaction: the host polls for a response.
Poll ==
    LET busy == mode # "Alarm" /\ queue # <<>> /\ busy_left > 0
        hide == busy /\ ~(mode = "Application" /\ busy_poll_ready)
    IN  /\ phase = "First"
        /\ cs' = IF hide THEN chip_status \ {"READY"} ELSE chip_status
        /\ AlarmReported
        /\ busy_left' = IF busy THEN busy_left - 1 ELSE busy_left
        /\ phase' = IF mode = "Alarm" \/ busy \/ queue = <<>> THEN "NoResponse" ELSE "Response"
        /\ drained' = FALSE
        /\ UNCHANGED <<queue, last_response, chanVars, mode, active_config, spect,
                       storeVars, histVars>>

\* Any other first byte opens a request frame.
RequestHead ==
    /\ phase = "First"
    /\ cs' = chip_status
    /\ AlarmReported
    /\ phase' = "Request"
    /\ UNCHANGED <<drained, rspVars, last_response, chanVars, mode, active_config, spect,
                   storeVars, histVars>>

\* The rest of the front response is clocked out.
ClockOut ==
    /\ phase = "Response"
    /\ drained' = TRUE
    /\ UNCHANGED <<cs, phase, rspVars, last_response, chanVars, bootVars, storeVars, histVars>>

-----------------------------------------------------------------------------
(***************************************************************************)
(* L2: the last byte of a request frame arrives and the frame is executed. *)
(***************************************************************************)
\* The frame is complete: the rest of the transaction is answered NO_RESP.
FrameDone == phase = "Request" /\ phase' = "NoResponse" /\ UNCHANGED <<cs, drained>>

\* The responses of this request replace those the host never fetched.
Respond(frames) ==
    /\ queue' = frames
    /\ busy_left' = IF frames = <<>> THEN 0 ELSE BusyPolls
    /\ UNCHANGED last_response

RespondWith(st) == Respond(<<build_response(st)>>)

ClearPacket == l3_packet' = NoPacket /\ l3_expected' = 0
\* Mutant: the chunks gathered for the session are kept.
drop_session_only == session' = None /\ UNCHANGED <<l3_packet, l3_expected>>

drop_session == session' = None /\ ClearPacket

reboot(m) ==
    /\ drop_session
    /\ mode' = m
    /\ active_config' = <<>>
    /\ spect' = FALSE

\* Mutant: the configuration is read anew for every command.
Config_live == effective_config(dev)

Config == IF active_config = <<>> THEN effective_config(dev) ELSE active_config[1]

\* In Alarm mode every frame is ignored.
IgnoredInAlarm ==
    /\ FrameDone
    /\ mode = "Alarm"
    /\ UNCHANGED <<rspVars, last_response, chanVars, bootVars, storeVars, histVars>>

BadCrc ==
    /\ FrameDone
    /\ mode # "Alarm"
    /\ RespondWith("CRC_ERR")
    /\ UNCHANGED <<chanVars, bootVars, storeVars, histVars>>

\* The guard every request of a non-Alarm chip starts from.
Accept(r, id) == FrameDone /\ mode # "Alarm" /\ r.id = id

\* Mutant: the replayed frame goes to the back of the queue.
Resend_at_back(r) ==
    /\ Accept(r, "RESEND")
    /\ IF r.len = 0 /\ last_response # None
         THEN /\ Len(queue) < MaxQueue
              /\ queue' = queue \o <<last_response>>
              /\ busy_left' = BusyPolls
              /\ UNCHANGED last_response
         ELSE RespondWith("GEN_ERR")
    /\ UNCHANGED <<chanVars, bootVars, storeVars, histVars>>

\* Resend_Req replays the last frame in front of the frames not fetched yet.
Resend(r) ==
    /\ Accept(r, "RESEND")
    /\ IF r.len = 0 /\ last_response # None
         THEN /\ Len(queue) < MaxQueue
              /\ queue' = <<last_response>> \o queue
              /\ busy_left' = BusyPolls
              /\ UNCHANGED last_response
         ELSE RespondWith("GEN_ERR")
    /\ UNCHANGED <<chanVars, bootVars, storeVars, histVars>>

CERT_STORE_BLOCKS == 30

\* The status of Get_Info_Req for object r.arg, block r.blk.
get_info(r) ==
    CASE r.arg = 0 -> IF r.blk < CERT_STORE_BLOCKS THEN "REQUEST_OK" ELSE "GEN_ERR"
      [] r.arg \in {1, 2, 4} -> "REQUEST_OK"
      [] r.arg = 176 /\ mode = "Maintenance" -> "REQUEST_OK"
      [] OTHER -> "GEN_ERR"

GetInfo(r) ==
    /\ Accept(r, "GET_INFO")
    /\ RespondWith(IF r.len = 2 THEN get_info(r) ELSE "GEN_ERR")
    /\ UNCHANGED <<chanVars, bootVars, storeVars, histVars>>

GetLog(r) ==
    /\ Accept(r, "GET_LOG")
    /\ RespondWith(IF r.len = 0 THEN "REQUEST_OK" ELSE "GEN_ERR")
    /\ UNCHANGED <<chanVars, bootVars, storeVars, histVars>>

STARTUP_REBOOT == 1
STARTUP_MAINTENANCE_REBOOT == 3
MAINTENANCE_ENA == 3

Startup(r) ==
    /\ Accept(r, "STARTUP")
    /\ IF r.len = 1 /\ r.arg \in {STARTUP_REBOOT, STARTUP_MAINTENANCE_REBOOT}
         THEN /\ reboot(IF /\ r.arg = STARTUP_MAINTENANCE_REBOOT
                           /\ <<START_UP, MAINTENANCE_ENA>> \notin Config
                          THEN "Maintenance" ELSE "Application")
              /\ RespondWith("REQUEST_OK")
         ELSE /\ RespondWith("GEN_ERR")
              /\ UNCHANGED <<chanVars, mode, active_config, spect>>
    /\ UNCHANGED <<alarm_fresh, storeVars, histVars>>

\* Requests the firmware handles only in Application mode, and IDs without a handler.
Unsupported(r) ==
    /\ FrameDone
    /\ \/ mode = "Maintenance"
          /\ r.id \in {"HANDSHAKE", "ENCRYPTED_SESSION_ABT", "SLEEP", "UNKNOWN"}
       \/ mode = "Application" /\ r.id = "UNKNOWN"
    /\ RespondWith("UNKNOWN_ERR")
    /\ UNCHANGED <<chanVars, bootVars, storeVars, histVars>>

SessionAbort(r) ==
    /\ Accept(r, "ENCRYPTED_SESSION_ABT")
    /\ mode = "Application"
    /\ IF r.len = 0 THEN drop_session /\ RespondWith("REQUEST_OK")
                    ELSE UNCHANGED chanVars /\ RespondWith("GEN_ERR")
    /\ UNCHANGED <<bootVars, storeVars, histVars>>

SLEEP_KIND_SLEEP == 5
SLEEP_MODE_EN == 0

Sleep(r) ==
    /\ Accept(r, "SLEEP")
    /\ mode = "Application"
    /\ IF r.len # 1 \/ r.arg # SLEEP_KIND_SLEEP
         THEN RespondWith("GEN_ERR") /\ UNCHANGED <<chanVars, active_config>>
         ELSE /\ active_config' = <<Config>>
              /\ IF <<SLEEP_MODE, SLEEP_MODE_EN>> \in Config
                   THEN RespondWith("RESP_DISABLED") /\ UNCHANGED chanVars
                   ELSE RespondWith("REQUEST_OK") /\ drop_session
    /\ UNCHANGED <<mode, alarm_fresh, spect, storeVars, histVars>>

-----------------------------------------------------------------------------
(***************************************************************************)
(* The secure channel.                                                     *)
(***************************************************************************)
HANDSHAKE_REQ_LEN == 33

PairedWith(i) == i \in DOMAIN dev.pairing /\ dev.pairing[i].state = "Written"

OpenSession(pkey) ==
    session' = [sid |-> keygen + 1, pkey |-> pkey, nonce_cmd |-> 0, nonce_res |-> 0]

Handshake(r) ==
    /\ Accept(r, "HANDSHAKE")
    /\ mode = "Application"
    /\ IF r.len # HANDSHAKE_REQ_LEN
         THEN RespondWith("GEN_ERR") /\ UNCHANGED <<chanVars, mode, alarm_fresh, keygen>>
       ELSE IF r.arg > PAIRING_SLOT_MAX /\ bad_pairing_index_alarms
         THEN /\ drop_session
              /\ mode' = "Alarm" /\ alarm_fresh' = TRUE
              /\ Respond(<<>>)
              /\ UNCHANGED keygen
       ELSE IF PairedWith(r.arg)
         THEN /\ keygen < MaxSessions
              /\ ClearPacket
              /\ OpenSession(r.arg)
              /\ keygen' = keygen + 1
              /\ RespondWith("REQUEST_OK")
              /\ UNCHANGED <<mode, alarm_fresh>>
         ELSE /\ drop_session
              /\ RespondWith("HSK_ERR")
              /\ UNCHANGED <<mode, alarm_fresh, keygen>>
    /\ UNCHANGED <<active_config, spect, storeVars, consumed>>

\* AES-GCM opens the packet: it is complete, made with the keys of the session, and its
\* turn has come.
Opens(packet) ==
    /\ packet.of # None
    /\ packet.parts = Chunks(packet.of.cmd.len)
    /\ packet.of.sid = session.sid
    /\ packet.of.nonce = session.nonce_cmd

ACK == build_response("REQUEST_OK")

\* Mutant: neither direction moves on.
step_no_nonce == UNCHANGED session

\* Mutant: the nonce of the responses moves on twice.
step_response_twice ==
    session' = [sid |-> session.sid, pkey |-> session.pkey,
                nonce_cmd |-> session.nonce_cmd + 1, nonce_res |-> session.nonce_res + 2]

\* unwrap_l3_request and wrap_l3_response move on their direction's nonce.
step_nonces ==
    session' = [sid |-> session.sid, pkey |-> session.pkey,
                nonce_cmd |-> session.nonce_cmd + 1, nonce_res |-> session.nonce_res + 1]

\* A complete packet of the session is decrypted, executed, saved and answered.
RunCommand(c) ==
    LET o == dispatch(dev, Config, session.pkey, spect, c)
    IN  /\ active_config' = <<Config>>
        /\ dev' = o.reply.dev
        /\ spect' = o.spect
        /\ IF c.len > 0 /\ mutates_store(c.id) THEN disk' \in persist(disk, o.reply.dev) ELSE UNCHANGED disk
        /\ consumed' = consumed \cup {<<session.sid, session.nonce_cmd>>}
        /\ ClearPacket
        /\ IF o.kind = "GenErr" \/ session.nonce_res = MaxNonce
             THEN session' = None /\ Respond(<<ACK, build_response("GEN_ERR")>>)
             ELSE /\ step_nonces
                  /\ Respond(ResultFrames(session.sid, session.nonce_res, o.reply.len))

\* One Encrypted_Cmd_Req carrying part i of packet pkt, n bytes that begin with the
\* size field hdr.
EncryptedCmd(pkt, i, n, hdr) ==
    LET packet == Gather(pkt, i, n)
        expected == IF l3_packet.len = 0 THEN PacketLen(hdr) ELSE l3_expected
        Refuse(st) == drop_session /\ Respond(<<ACK, build_response(st)>>)
        Quiet == UNCHANGED <<active_config, spect, storeVars, consumed>>
    IN  /\ FrameDone
        /\ mode = "Application"
        /\ IF session = None
             THEN RespondWith("NO_SESSION") /\ ClearPacket /\ UNCHANGED session /\ Quiet
           ELSE IF l3_packet.len = 0 /\ n < L3_SIZE_LEN
             THEN RespondWith("GEN_ERR") /\ UNCHANGED chanVars /\ Quiet
           ELSE IF packet.len < expected
             THEN /\ l3_packet' = packet /\ l3_expected' = expected
                  /\ RespondWith("REQUEST_CONT")
                  /\ UNCHANGED session /\ Quiet
           ELSE IF packet.len > expected
             THEN Refuse("GEN_ERR") /\ Quiet
           ELSE IF Opens(packet) /\ session.nonce_cmd < MaxNonce
             THEN RunCommand(pkt.cmd)
             ELSE Refuse("TAG_ERR") /\ Quiet
        /\ UNCHANGED <<mode, alarm_fresh, keygen>>

\* Encrypted_Cmd_Req in Maintenance mode has no handler.
EncryptedCmdUnsupported ==
    /\ FrameDone
    /\ mode = "Maintenance"
    /\ RespondWith("UNKNOWN_ERR")
    /\ UNCHANGED <<chanVars, bootVars, storeVars, histVars>>

\* The packets hosts can send: made with the keys of any session so far, replayed,
\* delayed or ahead of their turn.
Packets == [sid : 1..keygen, nonce : 0..MaxNonce, cmd : Commands]

SendChunk ==
    \/ \E pkt \in Packets : \E i \in 1..Chunks(pkt.cmd.len) :
         LET n == ChunkLen(pkt.cmd.len, i)
         IN  \E hdr \in Headers(i, n, pkt.cmd.len) : EncryptedCmd(pkt, i, n, hdr)
    \/ \E n \in StraySizes : \E hdr \in {0, n} : EncryptedCmd(None, 0, n, hdr)

-----------------------------------------------------------------------------
(***************************************************************************)
(* Power and process.                                                      *)
(***************************************************************************)
\* Chip::new: the volatile state of a chip that was just powered.
PowerOn ==
    /\ mode' = "Application" /\ alarm_fresh' = FALSE
    /\ phase' = "Idle" /\ drained' = FALSE /\ cs' = {}
    /\ queue' = <<>> /\ last_response' = None /\ busy_left' = 0
    /\ drop_session
    /\ active_config' = <<>> /\ spect' = FALSE

\* POWER_ON, POWER_OFF or RESET_TARGET from any connection.
power_cycle ==
    /\ PowerOn
    /\ UNCHANGED <<storeVars, histVars>>

\* The simulator process dies and is started again on its store file, which it
\* refuses to load when it is torn.
Restart ==
    /\ disk # Torn
    /\ PowerOn
    /\ dev' = disk
    /\ UNCHANGED <<disk, histVars>>

\* The simulator is started with TROPIC01_SIM_FRESH.
Reprovision ==
    /\ PowerOn
    /\ dev' = Provision /\ disk' = Provision
    /\ UNCHANGED histVars

Request(r) ==
    \/ Resend(r) \/ GetInfo(r) \/ GetLog(r) \/ Startup(r) \/ Unsupported(r)
    \/ SessionAbort(r) \/ Sleep(r) \/ Handshake(r)

Next ==
    \/ csn_low \/ csn_high \/ Poll \/ RequestHead \/ ClockOut
    \/ IgnoredInAlarm \/ BadCrc
    \/ \E r \in Requests : Request(r)
    \/ SendChunk \/ EncryptedCmdUnsupported
    \/ power_cycle \/ Restart \/ Reprovision

Spec == Init /\ [][Next]_vars

-----------------------------------------------------------------------------
(***************************************************************************)
(* Properties.                                                             *)
(***************************************************************************)
FrameType ==
    [status : {"REQUEST_OK", "REQUEST_CONT", "RESULT_OK", "RESULT_CONT", "RESP_DISABLED",
               "HSK_ERR", "NO_SESSION", "TAG_ERR", "CRC_ERR", "UNKNOWN_ERR", "GEN_ERR"},
     sid : Nat, nonce : Nat, part : Nat]

SessionType ==
    [sid : 1..MaxSessions, pkey : 0..255, nonce_cmd : 0..MaxNonce, nonce_res : 0..MaxNonce]

ASSUME NoneAssumption == None \notin SessionType /\ None \notin FrameType

\* A secure channel is open only in Application mode; chunks of a packet are held only for
\* an open channel, and never as many as the packet needs: no error path, mode change or
\* reset leaves chunks behind that would be taken for the start of the next packet.
ChannelClean ==
    /\ session # None => mode = "Application"
    /\ l3_packet.len > 0 => session # None /\ l3_packet.len < l3_expected
    /\ l3_packet.len = 0 => l3_expected = 0

\* Both directions of an open channel have used the same number of nonces, so
\* wrap_l3_response never finds its counter exhausted after a command took effect.
NoncesInStep == session # None => session.nonce_cmd = session.nonce_res

\* The packet number the channel accepts next was never decrypted before, in this session
\* or in an earlier one: a packet the host, or anyone, sends twice is refused.
NoReplay ==
    session # None =>
      /\ session.sid = keygen
      /\ <<session.sid, session.nonce_cmd>> \notin consumed

\* g is the frame after f in the answer to one request.
Follows(f, g) ==
    IF g.part <= 1 THEN f.status = "REQUEST_OK" /\ f.part = 0
    ELSE /\ f.status = "RESULT_CONT" /\ f.part = g.part - 1
         /\ f.sid = g.sid /\ f.nonce = g.nonce

\* The frames to fetch are replays of the frame fetched last, followed by the rest of the
\* answer to one request: in order, to its end, and starting right after the frame fetched
\* last whenever part of that answer was fetched.  Resend_Req never skips, repeats or
\* reorders the chunks of a result.
ResponsesInOrder ==
    \E k \in 0..Len(queue) :
      LET rest == SubSeq(queue, k + 1, Len(queue))
      IN  /\ \A i \in 1..k : queue[i] = last_response
          /\ \A i \in 1..(Len(rest) - 1) : Follows(rest[i], rest[i + 1])
          /\ rest # <<>> => /\ rest[Len(rest)].status # "RESULT_CONT"
                            /\ rest[1].part >= 1 =>
                                  last_response # None /\ Follows(last_response, rest[1])

\* A change of the device needs a packet of the open channel that was not decrypted
\* before; anything else a host sends leaves the device alone.  (Restarting the simulator
\* on its file or reprovisioning it replaces the device and resets the chip.)
ChangesNeedFreshPacket ==
    [][dev' # dev =>
         \/ \E n \in 0..MaxNonce : session # None /\ consumed' \ consumed = {<<session.sid, n>>}
         \/ phase' = "Idle" /\ session' = None]_vars

\* A command that changed the device is answered: the channel stays open and the result, under
\* the number of the command, waits to be fetched to its end.  Neither a refusal at L2 nor an
\* exhausted response nonce (chip.rs closes the session on both) loses the answer of a change.
ChangesAreAnswered ==
    [][dev' # dev /\ phase' # "Idle" =>
         /\ session' # None /\ session'.sid = session.sid
         /\ queue' # <<>>
         /\ LET last == queue'[Len(queue')]
            IN  last.status = "RESULT_OK" /\ last.sid = session.sid /\ last.nonce = session.nonce_cmd]_vars

\* The chip implements the device of TropicDevice.  The chip reads the configuration when
\* it first needs it; a device that had read it at boot would have read the same.
Device == INSTANCE TropicDevice WITH cfg <- Config
ImplementsDevice == Device!DSpec
=============================================================================
