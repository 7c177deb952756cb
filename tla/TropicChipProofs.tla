--------------------------- MODULE TropicChipProofs ---------------------------
(***************************************************************************)
(* Proofs about TropicChip, for every personality, every set of commands   *)
(* and requests and every value of the bounds.                             *)
(***************************************************************************)
EXTENDS TropicChip, TropicL3Proofs, SequenceTheorems

-----------------------------------------------------------------------------
(***************************************************************************)
(* The secure channel.  ChannelInv is inductive: it adds to the properties *)
(* the types they need and, for NoReplay, that every packet number used so *)
(* far is below the one the channel expects next.                          *)
(***************************************************************************)
ChannelType ==
    /\ session \in SessionType \cup {None}
    /\ keygen \in 0..MaxSessions
    /\ l3_packet.len \in Nat
    /\ l3_expected \in Nat

ConsumedBelow ==
    /\ consumed \subseteq (1..keygen) \X Nat
    /\ session # None =>
         \A n \in Nat : <<keygen, n>> \in consumed => n < session.nonce_cmd

ChannelInv ==
    /\ ChannelType
    /\ ConsumedBelow
    /\ ChannelClean
    /\ NoncesInStep
    /\ session # None => session.sid = keygen

\* The channel invariant holds at power-up.
LEMMA ChannelInit == Init => ChannelInv
  BY BoundsAssumption, NoneAssumption
  DEF Init, ChannelInv, ChannelType, ConsumedBelow, ChannelClean, NoncesInStep, NoPacket

\* A step that touches neither the channel nor the mode.
LEMMA ChannelUntouched ==
  ASSUME ChannelInv, UNCHANGED <<chanVars, mode, histVars>>
  PROVE  ChannelInv'
  BY DEF ChannelInv, ChannelType, ConsumedBelow, ChannelClean, NoncesInStep, chanVars, histVars

\* A step that closes the channel, whatever it does to the mode.
LEMMA ChannelDropped ==
  ASSUME ChannelInv, drop_session, UNCHANGED histVars
  PROVE  ChannelInv'
  BY NoneAssumption
  DEF ChannelInv, ChannelType, ConsumedBelow, ChannelClean, NoncesInStep, drop_session,
      ClearPacket, NoPacket, histVars

\* A handshake opens a session that no consumed packet belongs to.
LEMMA ChannelHandshake ==
  ASSUME ChannelInv, NEW r \in Requests, Handshake(r)
  PROVE  ChannelInv'
  <1>1. CASE r.len # HANDSHAKE_REQ_LEN
    BY <1>1, ChannelUntouched DEF Handshake, chanVars, histVars
  <1>2. CASE /\ r.len = HANDSHAKE_REQ_LEN
             /\ r.arg > PAIRING_SLOT_MAX /\ bad_pairing_index_alarms
    BY <1>2, ChannelDropped DEF Handshake, histVars
  <1>3. CASE /\ r.len = HANDSHAKE_REQ_LEN
             /\ ~(r.arg > PAIRING_SLOT_MAX /\ bad_pairing_index_alarms)
             /\ PairedWith(r.arg)
    <2>1. /\ keygen < MaxSessions /\ keygen' = keygen + 1
          /\ ClearPacket /\ OpenSession(r.arg)
          /\ mode = "Application" /\ mode' = mode /\ consumed' = consumed
      BY <1>3 DEF Handshake
    <2>2. r.arg \in 0..255
      BY RequestsAssumption DEF RequestType
    <2>3. session' \in SessionType /\ session' # None /\ session'.sid = keygen'
          /\ session'.nonce_cmd = 0 /\ session'.nonce_res = 0
      BY <2>1, <2>2, BoundsAssumption, NoneAssumption
      DEF OpenSession, SessionType, ChannelInv, ChannelType
    <2>4. ConsumedBelow'
      BY <2>1, <2>3, BoundsAssumption DEF ChannelInv, ChannelType, ConsumedBelow
    <2> QED
      BY <2>1, <2>3, <2>4, BoundsAssumption
      DEF ChannelInv, ChannelType, ChannelClean, NoncesInStep, ClearPacket, NoPacket
  <1>4. CASE /\ r.len = HANDSHAKE_REQ_LEN
             /\ ~(r.arg > PAIRING_SLOT_MAX /\ bad_pairing_index_alarms)
             /\ ~PairedWith(r.arg)
    BY <1>4, ChannelDropped DEF Handshake, histVars
  <1> QED
    BY <1>1, <1>2, <1>3, <1>4

\* Every L2 request keeps the channel invariant.
LEMMA ChannelRequest ==
  ASSUME ChannelInv, NEW r \in Requests, Request(r)
  PROVE  ChannelInv'
  <1>1. CASE Resend(r) \/ GetInfo(r) \/ GetLog(r) \/ Unsupported(r)
    BY <1>1, ChannelUntouched DEF Resend, GetInfo, GetLog, Unsupported, bootVars
  <1>2. CASE Startup(r)
    BY <1>2, ChannelUntouched, ChannelDropped DEF Startup, reboot
  <1>3. CASE SessionAbort(r)
    BY <1>3, ChannelUntouched, ChannelDropped DEF SessionAbort, bootVars
  <1>4. CASE Sleep(r)
    BY <1>4, ChannelUntouched, ChannelDropped DEF Sleep
  <1>5. CASE Handshake(r)
    BY <1>5, ChannelHandshake
  <1> QED
    BY <1>1, <1>2, <1>3, <1>4, <1>5 DEF Request

\* A command that ran used the nonce the channel expected, and moved it on or closed the
\* channel.
LEMMA ChannelRun ==
  ASSUME ChannelInv, NEW c, session # None, session.nonce_cmd < MaxNonce, RunCommand(c),
         mode = "Application", UNCHANGED <<mode, keygen>>
  PROVE  ChannelInv'
  <1>1. /\ session \in SessionType /\ session.sid = keygen
        /\ session.nonce_cmd \in Nat /\ session.nonce_res = session.nonce_cmd
        /\ keygen \in 1..MaxSessions
    BY BoundsAssumption DEF ChannelInv, ChannelType, NoncesInStep, SessionType
  <1>2. /\ l3_packet' = NoPacket /\ l3_expected' = 0
        /\ consumed' = consumed \cup {<<keygen, session.nonce_cmd>>}
    BY <1>1 DEF RunCommand, ClearPacket
  <1>3. consumed' \subseteq (1..keygen) \X Nat
    BY <1>1, <1>2 DEF ChannelInv, ConsumedBelow
  <1>4. CASE session' = None
    BY <1>1, <1>2, <1>3, <1>4
    DEF ChannelInv, ChannelType, ConsumedBelow, ChannelClean, NoncesInStep, NoPacket
  <1>5. CASE step_nonces
    <2>1. session' \in SessionType /\ session' # None
      BY <1>1, <1>5, BoundsAssumption, NoneAssumption DEF SessionType, step_nonces
    <2>2. session'.sid = keygen /\ session'.nonce_cmd = session.nonce_cmd + 1
          /\ session'.nonce_res = session'.nonce_cmd
      BY <1>1, <1>5 DEF SessionType, step_nonces
    <2>3. ConsumedBelow'
      BY <1>1, <1>2, <1>3, <2>2 DEF ChannelInv, ConsumedBelow
    <2> QED
      BY <1>1, <1>2, <2>1, <2>2, <2>3
      DEF ChannelInv, ChannelType, ChannelClean, NoncesInStep, NoPacket
  <1> QED
    BY <1>4, <1>5 DEF RunCommand

\* A chunk adds its length to what was gathered.
LEMMA GatherLen ==
  ASSUME NEW pkt, NEW i, NEW n \in Nat, l3_packet.len \in Nat
  PROVE  Gather(pkt, i, n).len = l3_packet.len + n
  BY DEF Gather

\* Gathering chunks and running a packet keep the channel invariant.
LEMMA ChannelEncrypted ==
  ASSUME ChannelInv, NEW pkt, NEW i, NEW n \in Nat, NEW hdr \in Nat, EncryptedCmd(pkt, i, n, hdr)
  PROVE  ChannelInv'
  <1> DEFINE packet == Gather(pkt, i, n)
             expected == IF l3_packet.len = 0 THEN PacketLen(hdr) ELSE l3_expected
  <1>0. /\ packet.len \in Nat /\ packet.len = l3_packet.len + n
        /\ expected \in Nat
    BY GatherLen DEF ChannelInv, ChannelType, PacketLen, L3_SIZE_LEN, L3_TAG_LEN
  <1>1. CASE session = None
    BY <1>1, ChannelDropped DEF EncryptedCmd, drop_session, histVars
  <1>2. CASE session # None /\ l3_packet.len = 0 /\ n < L3_SIZE_LEN
    BY <1>2, ChannelUntouched DEF EncryptedCmd, chanVars, histVars
  <1>3. CASE session # None /\ ~(l3_packet.len = 0 /\ n < L3_SIZE_LEN) /\ packet.len < expected
    <2>1. /\ l3_packet' = packet /\ l3_expected' = expected
          /\ UNCHANGED <<session, mode, keygen, consumed>>
      BY <1>3 DEF EncryptedCmd
    <2>2. packet.len > 0
      BY <1>0, <1>3 DEF ChannelInv, ChannelType, L3_SIZE_LEN
    <2> QED
      BY <1>0, <1>3, <2>1, <2>2
      DEF ChannelInv, ChannelType, ConsumedBelow, ChannelClean, NoncesInStep
  <1>4. CASE /\ session # None /\ ~(l3_packet.len = 0 /\ n < L3_SIZE_LEN)
             /\ ~(packet.len < expected)
             /\ packet.len > expected \/ ~(Opens(packet) /\ session.nonce_cmd < MaxNonce)
    <2>1. drop_session /\ UNCHANGED <<keygen, consumed>>
      BY <1>4 DEF EncryptedCmd
    <2> QED
      BY <2>1, ChannelDropped DEF histVars
  <1>5. CASE /\ session # None /\ ~(l3_packet.len = 0 /\ n < L3_SIZE_LEN)
             /\ ~(packet.len < expected) /\ ~(packet.len > expected)
             /\ Opens(packet) /\ session.nonce_cmd < MaxNonce
    <2>1. RunCommand(pkt.cmd) /\ mode = "Application" /\ UNCHANGED <<mode, keygen>>
      BY <1>5 DEF EncryptedCmd
    <2> QED
      BY <1>5, <2>1, ChannelRun
  <1> QED
    BY <1>1, <1>2, <1>3, <1>4, <1>5

\* The length of a chunk is a number.
LEMMA ChunkLenNat ==
  ASSUME NEW size \in Nat, NEW i \in 1..Chunks(size)
  PROVE  ChunkLen(size, i) \in Nat
  <1>1. \A x \in Nat : 252 * ((x \div 252) - 1) <= x /\ x \div 252 \in Nat
    OBVIOUS
  <1>2. PacketLen(size) + 251 \in Nat
    BY DEF PacketLen, L3_SIZE_LEN, L3_TAG_LEN
  <1>3. 252 * (Chunks(size) - 1) <= PacketLen(size) /\ Chunks(size) \in Nat
    BY <1>2 DEF Chunks, PacketLen, MAX_L2_DATA_SIZE, L3_SIZE_LEN, L3_TAG_LEN
  <1> QED
    BY <1>3 DEF ChunkLen, MAX_L2_DATA_SIZE, PacketLen, L3_SIZE_LEN, L3_TAG_LEN

\* Every step of the chip keeps the channel invariant.
LEMMA ChannelNext == ChannelInv /\ [Next]_vars => ChannelInv'
  <1> SUFFICES ASSUME ChannelInv, [Next]_vars
               PROVE  ChannelInv'
    OBVIOUS
  <1>1. CASE csn_low \/ csn_high \/ Poll \/ RequestHead \/ ClockOut
    BY <1>1, ChannelUntouched DEF csn_low, csn_high, Poll, RequestHead, ClockOut, bootVars
  <1>2. CASE IgnoredInAlarm \/ BadCrc \/ EncryptedCmdUnsupported
    BY <1>2, ChannelUntouched DEF IgnoredInAlarm, BadCrc, EncryptedCmdUnsupported, bootVars
  <1>3. CASE \E r \in Requests : Request(r)
    BY <1>3, ChannelRequest
  <1>4. CASE SendChunk
    <2>1. CASE \E pkt \in Packets : \E i \in 1..Chunks(pkt.cmd.len) :
                 LET n == ChunkLen(pkt.cmd.len, i)
                 IN  \E hdr \in Headers(i, n, pkt.cmd.len) : EncryptedCmd(pkt, i, n, hdr)
      <3>0. PICK pkt \in Packets : \E i \in 1..Chunks(pkt.cmd.len) :
                 \E hdr \in Headers(i, ChunkLen(pkt.cmd.len, i), pkt.cmd.len) :
                    EncryptedCmd(pkt, i, ChunkLen(pkt.cmd.len, i), hdr)
        BY <2>1
      <3>1. PICK i \in 1..Chunks(pkt.cmd.len) :
                 \E hdr \in Headers(i, ChunkLen(pkt.cmd.len, i), pkt.cmd.len) :
                    EncryptedCmd(pkt, i, ChunkLen(pkt.cmd.len, i), hdr)
        BY <3>0
      <3>2. pkt.cmd.len \in Nat
        BY <3>1, CommandsAssumption DEF Packets, CommandType
      <3>3. ChunkLen(pkt.cmd.len, i) \in Nat
        BY <3>1, <3>2, ChunkLenNat
      <3> QED
        BY <3>1, <3>2, <3>3, ChannelEncrypted DEF Headers
    <2>2. CASE \E n \in StraySizes : \E hdr \in {0, n} : EncryptedCmd(None, 0, n, hdr)
      BY <2>2, BoundsAssumption, ChannelEncrypted
    <2> QED
      BY <1>4, <2>1, <2>2 DEF SendChunk
  <1>5. CASE power_cycle \/ Restart \/ Reprovision
    BY <1>5, ChannelDropped DEF power_cycle, Restart, Reprovision, PowerOn
  <1>6. CASE UNCHANGED vars
    BY <1>6, ChannelUntouched DEF vars, bootVars
  <1> QED
    BY <1>1, <1>2, <1>3, <1>4, <1>5, <1>6 DEF Next

\* ChannelClean, NoncesInStep and NoReplay hold in every reachable state: the secure
\* channel of chip.rs and session.rs holds no chunks, nonces or keys that a later packet
\* could be confused with, and decrypts no packet number twice.
THEOREM ChannelSafe == Spec => [](ChannelClean /\ NoncesInStep /\ NoReplay)
  <1>1. ChannelInv => ChannelClean /\ NoncesInStep /\ NoReplay
    BY DEF ChannelInv, ChannelType, ConsumedBelow, NoReplay, SessionType
  <1> QED
    BY <1>1, ChannelInit, ChannelNext, PTL DEF Spec

\* Every chunk the chip has gathered belongs to the open channel and is part of a packet
\* that is not complete yet.
THEOREM ChannelStaysClean == Spec => []ChannelClean
  BY ChannelSafe, PTL

-----------------------------------------------------------------------------
(***************************************************************************)
(* The device behind the channel stays well formed.                        *)
(***************************************************************************)
DeviceInv ==
    /\ DeviceType(dev)
    /\ disk = Torn \/ DeviceType(disk)
    /\ spect \in BOOLEAN

\* A step that leaves the device alone and may clear the flag keeps it well formed.
LEMMA DeviceUntouched ==
  ASSUME DeviceInv, UNCHANGED storeVars, spect' = spect \/ spect' = FALSE
  PROVE  DeviceInv'
  BY DEF DeviceInv, storeVars

\* What a command leaves behind, whichever command it was.
LEMMA DeviceRun ==
  ASSUME DeviceInv, NEW c \in Commands, RunCommand(c)
  PROVE  DeviceInv'
  <1> DEFINE o == dispatch(dev, Config, session.pkey, spect, c)
  <1>1. DeviceType(o.reply.dev) /\ o.spect \in BOOLEAN
    BY CommandsAssumption, DispatchOk, SpectOk DEF DeviceInv, ReplyOk
  <1>2. /\ dev' = o.reply.dev /\ spect' = o.spect
        /\ disk' = disk \/ disk' = Torn \/ disk' = o.reply.dev
    BY DEF RunCommand, persist
  <1> QED
    BY <1>1, <1>2 DEF DeviceInv


\* Only the last chunk of a packet completes one: bytes of no packet never do.
LEMMA LastChunkOfPacket ==
  ASSUME ChannelInv, NEW pkt, NEW i, NEW n \in Nat, NEW hdr, Opens(Gather(pkt, i, n)),
         ~(l3_packet.len = 0 /\ n < L3_SIZE_LEN),
         ~(Gather(pkt, i, n).len < (IF l3_packet.len = 0 THEN PacketLen(hdr) ELSE l3_expected))
  PROVE  pkt # None
  <1>1. CASE l3_packet.len = 0
    <2>1. n # 0
      BY <1>1 DEF L3_SIZE_LEN
    <2> QED
      BY <2>1 DEF Gather, Opens
  <1>2. CASE l3_packet.len # 0
    <2>1. n # 0
      BY <1>2, GatherLen DEF ChannelInv, ChannelType, ChannelClean
    <2> QED
      BY <2>1 DEF Gather, Opens
  <1> QED
    BY <1>1, <1>2

\* A chunk that runs no command leaves the device alone, and one that does is the last
\* chunk of a packet.
LEMMA ChunkEffect ==
  ASSUME ChannelInv, NEW pkt, NEW i, NEW n \in Nat, NEW hdr, EncryptedCmd(pkt, i, n, hdr)
  PROVE  \/ UNCHANGED <<active_config, spect, storeVars, consumed>>
         \/ RunCommand(pkt.cmd) /\ session # None /\ pkt # None
  <1> DEFINE packet == Gather(pkt, i, n)
             expected == IF l3_packet.len = 0 THEN PacketLen(hdr) ELSE l3_expected
  <1>1. \/ UNCHANGED <<active_config, spect, storeVars, consumed>>
        \/ /\ RunCommand(pkt.cmd) /\ session # None /\ Opens(packet)
           /\ ~(l3_packet.len = 0 /\ n < L3_SIZE_LEN) /\ ~(packet.len < expected)
    BY DEF EncryptedCmd
  <1> QED
    BY <1>1, LastChunkOfPacket

\* The chunks hosts send: of a packet with a command of the hosts, or of no packet.
LEMMA ChunkSent ==
  ASSUME SendChunk
  PROVE  \E pkt, i : \E n, hdr \in Nat :
            /\ pkt # None => pkt \in Packets /\ pkt.cmd \in Commands
            /\ EncryptedCmd(pkt, i, n, hdr)
  <1>1. CASE \E pkt \in Packets : \E i \in 1..Chunks(pkt.cmd.len) :
               LET n == ChunkLen(pkt.cmd.len, i)
               IN  \E hdr \in Headers(i, n, pkt.cmd.len) : EncryptedCmd(pkt, i, n, hdr)
    <2>1. PICK pkt \in Packets : \E i \in 1..Chunks(pkt.cmd.len) :
               \E hdr \in Headers(i, ChunkLen(pkt.cmd.len, i), pkt.cmd.len) :
                  EncryptedCmd(pkt, i, ChunkLen(pkt.cmd.len, i), hdr)
      BY <1>1
    <2>2. PICK i \in 1..Chunks(pkt.cmd.len) :
               \E hdr \in Headers(i, ChunkLen(pkt.cmd.len, i), pkt.cmd.len) :
                  EncryptedCmd(pkt, i, ChunkLen(pkt.cmd.len, i), hdr)
      BY <2>1
    <2>3. pkt.cmd \in Commands /\ pkt.cmd.len \in Nat
      BY CommandsAssumption DEF Packets, CommandType
    <2>4. ChunkLen(pkt.cmd.len, i) \in Nat
      BY <2>3, ChunkLenNat
    <2>5. PICK hdr \in Headers(i, ChunkLen(pkt.cmd.len, i), pkt.cmd.len) :
               EncryptedCmd(pkt, i, ChunkLen(pkt.cmd.len, i), hdr)
      BY <2>2
    <2>6. hdr \in Nat
      BY <2>3, <2>4 DEF Headers
    <2> QED
      BY <2>3, <2>4, <2>5, <2>6
  <1>2. CASE \E n \in StraySizes : \E hdr \in {0, n} : EncryptedCmd(None, 0, n, hdr)
    <2>1. PICK n \in StraySizes : \E hdr \in {0, n} : EncryptedCmd(None, 0, n, hdr)
      BY <1>2
    <2>2. n \in Nat /\ 0 \in Nat
      BY BoundsAssumption
    <2>3. PICK hdr \in {0, n} : EncryptedCmd(None, 0, n, hdr)
      BY <2>1
    <2> QED
      BY <2>2, <2>3
  <1> QED
    BY <1>1, <1>2 DEF SendChunk

\* Every step of the chip other than a command and a restart leaves the device alone.
LEMMA StepEffect ==
  ASSUME [Next]_vars
  PROVE  \/ UNCHANGED storeVars /\ (spect' = spect \/ spect' = FALSE)
         \/ SendChunk
         \/ PowerOn /\ dev' = disk /\ disk # Torn /\ disk' = disk
         \/ PowerOn /\ dev' = Provision /\ disk' = Provision
  <1>1. CASE csn_low \/ csn_high \/ Poll \/ RequestHead \/ ClockOut
    BY <1>1 DEF csn_low, csn_high, Poll, RequestHead, ClockOut, bootVars
  <1>2. CASE IgnoredInAlarm \/ BadCrc \/ EncryptedCmdUnsupported
    BY <1>2 DEF IgnoredInAlarm, BadCrc, EncryptedCmdUnsupported, bootVars
  <1>3. ASSUME NEW r \in Requests, Request(r)
        PROVE  UNCHANGED storeVars /\ (spect' = spect \/ spect' = FALSE)
    BY <1>3 DEF Request, Resend, GetInfo, GetLog, Startup, Unsupported, SessionAbort, Sleep,
                Handshake, bootVars, reboot
  <1>4. CASE power_cycle \/ Restart \/ Reprovision
    BY <1>4 DEF power_cycle, Restart, Reprovision, PowerOn
  <1>5. CASE UNCHANGED vars
    BY <1>5 DEF vars, bootVars
  <1> QED
    BY <1>1, <1>2, <1>3, <1>4, <1>5 DEF Next

\* The device in memory and the store file stay well formed behind the link layers.
LEMMA DeviceNext == ChannelInv /\ DeviceInv /\ [Next]_vars => DeviceInv'
  <1> SUFFICES ASSUME ChannelInv, DeviceInv, [Next]_vars PROVE DeviceInv'
    OBVIOUS
  <1>1. CASE UNCHANGED storeVars /\ (spect' = spect \/ spect' = FALSE)
    BY <1>1, DeviceUntouched
  <1>2. CASE SendChunk
    <2>1. PICK pkt, i : \E n, hdr \in Nat :
                 /\ pkt # None => pkt \in Packets /\ pkt.cmd \in Commands
                 /\ EncryptedCmd(pkt, i, n, hdr)
      BY <1>2, ChunkSent
    <2> QED
      BY <2>1, ChunkEffect, DeviceUntouched, DeviceRun
  <1>3. CASE PowerOn /\ dev' = disk /\ disk # Torn /\ disk' = disk
    BY <1>3 DEF PowerOn, DeviceInv
  <1>4. CASE PowerOn /\ dev' = Provision /\ disk' = Provision
    BY <1>4, ProvisionOk DEF PowerOn, DeviceInv
  <1> QED
    BY <1>1, <1>2, <1>3, <1>4, StepEffect

\* The device in memory and in the file is well formed in every reachable state.
LEMMA DeviceAlwaysOk == Spec => [](ChannelInv /\ DeviceInv)
  <1>1. Init => DeviceInv
    BY ProvisionOk DEF Init, DeviceInv
  <1> QED
    BY <1>1, ChannelInit, ChannelNext, DeviceNext, PTL DEF Spec

\* The device only changes by a packet of the open channel whose number was not decrypted
\* before, or by a restart or reprovisioning that closes the channel.
THEOREM OnlyFreshPacketsChange == Spec => ChangesNeedFreshPacket
  <1>1. ASSUME ChannelInv, [Next]_vars, dev' # dev
        PROVE  \/ \E n \in 0..MaxNonce : session # None /\ consumed' \ consumed = {<<session.sid, n>>}
               \/ phase' = "Idle" /\ session' = None
    <2>1. CASE SendChunk
      <3>1. PICK pkt, i : \E n, hdr \in Nat :
                   /\ pkt # None => pkt \in Packets /\ pkt.cmd \in Commands
                   /\ EncryptedCmd(pkt, i, n, hdr)
        BY <2>1, ChunkSent
      <3>2. RunCommand(pkt.cmd) /\ session # None
        BY <1>1, <3>1, ChunkEffect DEF storeVars
      <3>3. consumed' = consumed \cup {<<session.sid, session.nonce_cmd>>}
        BY <3>2 DEF RunCommand
      <3>4. /\ session.nonce_cmd \in 0..MaxNonce
            /\ <<session.sid, session.nonce_cmd>> \notin consumed
        BY <1>1, <3>2, BoundsAssumption DEF ChannelInv, ChannelType, ConsumedBelow, SessionType
      <3> QED
        BY <3>2, <3>3, <3>4
    <2>2. CASE PowerOn
      BY <2>2 DEF PowerOn, drop_session
    <2> QED
      BY <1>1, <2>1, <2>2, StepEffect DEF storeVars
  <1>2. ChannelInv /\ [Next]_vars
          => [dev' # dev =>
                \/ \E n \in 0..MaxNonce : session # None /\ consumed' \ consumed = {<<session.sid, n>>}
                \/ phase' = "Idle" /\ session' = None]_vars
    BY <1>1
  <1> QED
    BY <1>2, DeviceAlwaysOk, PTL DEF Spec, ChangesNeedFreshPacket

-----------------------------------------------------------------------------
(***************************************************************************)
(* The response queue.  The invariant is ResponsesInOrder with the types   *)
(* of the frames, written over the positions of the queue: k replays of    *)
(* the frame fetched last, then the rest of one answer.                    *)
(***************************************************************************)
InOrder(q, last, k) ==
    /\ \A i \in 1..k : q[i] = last
    /\ \A i \in (k + 1)..(Len(q) - 1) : Follows(q[i], q[i + 1])
    /\ k < Len(q) => /\ q[Len(q)].status # "RESULT_CONT"
                     /\ q[k + 1].part >= 1 => last # None /\ Follows(last, q[k + 1])

QueueInv ==
    /\ queue \in Seq(FrameType)
    /\ last_response \in FrameType \cup {None}
    /\ \E k \in 0..Len(queue) : InOrder(queue, last_response, k)

\* A whole answer to one request, from its first frame to its last.
IsAnswer(frames) ==
    /\ frames \in Seq(FrameType)
    /\ \A i \in 1..(Len(frames) - 1) : Follows(frames[i], frames[i + 1])
    /\ frames # <<>> => frames[Len(frames)].status # "RESULT_CONT" /\ frames[1].part = 0

\* The invariant is the property.
LEMMA QueueInvSuffices == QueueInv => ResponsesInOrder
  <1> SUFFICES ASSUME QueueInv PROVE ResponsesInOrder
    OBVIOUS
  <1>1. PICK k \in 0..Len(queue) : InOrder(queue, last_response, k)
    BY DEF QueueInv
  <1> DEFINE rest == SubSeq(queue, k + 1, Len(queue))
  <1>2. /\ Len(queue) \in Nat /\ k \in Nat /\ k <= Len(queue)
        /\ queue \in Seq(FrameType)
    BY <1>1 DEF QueueInv
  <1>3. /\ rest \in Seq(FrameType) /\ Len(rest) = Len(queue) - k
        /\ \A i \in 1..Len(rest) : rest[i] = queue[k + i]
    BY <1>2, SubSeqProperties
  <1> HIDE DEF rest
  <1>4. /\ \A i \in 1..k : queue[i] = last_response
        /\ \A i \in (k + 1)..(Len(queue) - 1) : Follows(queue[i], queue[i + 1])
        /\ k < Len(queue) =>
             /\ queue[Len(queue)].status # "RESULT_CONT"
             /\ queue[k + 1].part >= 1 =>
                  last_response # None /\ Follows(last_response, queue[k + 1])
    BY <1>1 DEF InOrder
  <1>5. ASSUME NEW i \in 1..(Len(rest) - 1)
        PROVE  Follows(rest[i], rest[i + 1])
    <2>1. /\ i \in 1..Len(rest) /\ i + 1 \in 1..Len(rest)
          /\ k + i \in (k + 1)..(Len(queue) - 1) /\ k + (i + 1) = (k + i) + 1
      BY <1>2, <1>3
    <2> QED
      BY <1>3, <1>4, <2>1
  <1>6. ASSUME rest # <<>>
        PROVE  /\ rest[Len(rest)].status # "RESULT_CONT"
               /\ rest[1].part >= 1 => last_response # None /\ Follows(last_response, rest[1])
    <2>1. Len(rest) # 0
      BY <1>3, <1>6, EmptySeq
    <2>2. /\ k < Len(queue) /\ 1 \in 1..Len(rest) /\ Len(rest) \in 1..Len(rest)
          /\ k + Len(rest) = Len(queue)
      BY <1>2, <1>3, <2>1
    <2> QED
      BY <1>3, <1>4, <2>2
  <1>7. /\ \A i \in 1..k : queue[i] = last_response
        /\ \A i \in 1..(Len(rest) - 1) : Follows(rest[i], rest[i + 1])
        /\ rest # <<>> => /\ rest[Len(rest)].status # "RESULT_CONT"
                          /\ rest[1].part >= 1 =>
                                last_response # None /\ Follows(last_response, rest[1])
    BY <1>4, <1>5, <1>6
  <1> QED
    BY <1>1, <1>7 DEF ResponsesInOrder, rest

\* A step that leaves the queue and the frame fetched last alone.
LEMMA QueueUntouched ==
  ASSUME QueueInv, UNCHANGED <<queue, last_response>>
  PROVE  QueueInv'
  BY DEF QueueInv

\* The answer to a new request replaces what was not fetched.
LEMMA QueueAnswered ==
  ASSUME QueueInv, NEW frames, IsAnswer(frames), Respond(frames)
  PROVE  QueueInv'
  <1>1. queue' = frames /\ last_response' = last_response
    BY DEF Respond
  <1>2. Len(frames) \in Nat /\ (0 < Len(frames) => frames # <<>>)
    BY DEF IsAnswer
  <1>3. InOrder(frames, last_response, 0)
    BY <1>2 DEF InOrder, IsAnswer
  <1> QED
    BY <1>1, <1>2, <1>3 DEF QueueInv, IsAnswer

\* One plain frame is a whole answer, and so are an acknowledgement and an error.
LEMMA PlainAnswers ==
  ASSUME NEW st \in {"REQUEST_OK", "REQUEST_CONT", "RESP_DISABLED", "HSK_ERR", "NO_SESSION",
                     "TAG_ERR", "CRC_ERR", "UNKNOWN_ERR", "GEN_ERR"}
  PROVE  /\ IsAnswer(<<build_response(st)>>)
         /\ IsAnswer(<<ACK, build_response(st)>>)
         /\ IsAnswer(<<>>)
  <1> DEFINE f == build_response(st)
  <1>1. /\ f \in FrameType /\ f.status # "RESULT_CONT" /\ f.part = 0
        /\ ACK \in FrameType /\ ACK.status = "REQUEST_OK" /\ ACK.part = 0
    BY DEF FrameType, build_response, ACK
  <1>2. Follows(ACK, f)
    BY <1>1 DEF Follows
  <1> HIDE DEF f
  <1>3. IsAnswer(<<f>>)
    BY <1>1 DEF IsAnswer
  <1>4. IsAnswer(<<ACK, f>>)
    BY <1>1, <1>2 DEF IsAnswer
  <1>5. IsAnswer(<<>>)
    BY DEF IsAnswer
  <1> QED
    BY <1>3, <1>4, <1>5 DEF f

\* A result takes at least one chunk.
LEMMA ChunksPositive ==
  ASSUME NEW size \in Nat
  PROVE  Chunks(size) \in Nat /\ Chunks(size) >= 1
  <1>1. \A x \in Nat : x >= 252 => x \div 252 >= 1 /\ x \div 252 \in Nat
    OBVIOUS
  <1> QED
    BY <1>1 DEF Chunks, PacketLen, MAX_L2_DATA_SIZE, L3_SIZE_LEN, L3_TAG_LEN

\* The acknowledgement and the chunks of a result are a whole answer.
LEMMA ResultAnswer ==
  ASSUME NEW sid \in Nat, NEW nonce \in Nat, NEW size \in Nat
  PROVE  IsAnswer(ResultFrames(sid, nonce, size))
  <1> DEFINE n == Chunks(size)
             chunk(i) == [status |-> IF i = n THEN "RESULT_OK" ELSE "RESULT_CONT",
                          sid |-> sid, nonce |-> nonce, part |-> i]
             chunks == [i \in 1..n |-> chunk(i)]
             frames == <<ACK>> \o chunks
  <1>1. n \in Nat /\ n >= 1
    BY ChunksPositive
  <1>2. ResultFrames(sid, nonce, size) = frames
    BY DEF ResultFrames, ACK
  <1> HIDE DEF n
  <1>3. \A i \in 1..n : /\ chunk(i) \in FrameType
                        /\ chunk(i).status = (IF i = n THEN "RESULT_OK" ELSE "RESULT_CONT")
                        /\ chunk(i).sid = sid /\ chunk(i).nonce = nonce /\ chunk(i).part = i
    BY <1>1 DEF FrameType
  <1>4. ACK \in FrameType /\ ACK.status = "REQUEST_OK" /\ ACK.part = 0
    BY DEF FrameType, build_response, ACK
  <1> HIDE DEF chunk
  <1>5. chunks \in Seq(FrameType) /\ Len(chunks) = n /\ \A i \in 1..n : chunks[i] = chunk(i)
    BY <1>1, <1>3
  <1> HIDE DEF chunks
  <1>6. /\ frames \in Seq(FrameType) /\ Len(frames) = n + 1
        /\ frames[1] = ACK /\ \A i \in 2..(n + 1) : frames[i] = chunk(i - 1)
    BY <1>1, <1>4, <1>5
  <1> HIDE DEF frames
  <1>7. ASSUME NEW i \in 1..n
        PROVE  Follows(frames[i], frames[i + 1])
    <2>1. frames[i + 1] = chunk(i)
      BY <1>1, <1>6
    <2>2. CASE i = 1
      BY <1>1, <1>3, <1>4, <1>6, <2>1, <2>2 DEF Follows
    <2>3. CASE i # 1
      <3>1. frames[i] = chunk(i - 1) /\ i - 1 \in 1..n /\ i - 1 # n /\ ~(i <= 1)
        BY <1>1, <1>6, <2>3
      <3> QED
        BY <1>3, <2>1, <3>1 DEF Follows
    <2> QED
      BY <2>2, <2>3
  <1>8. frames[Len(frames)].status # "RESULT_CONT" /\ frames[1].part = 0
    <2>1. frames[Len(frames)] = chunk(n) /\ n \in 1..n
      BY <1>1, <1>6
    <2> QED
      BY <1>3, <1>4, <1>6, <2>1
  <1>9. Len(frames) - 1 = n
    BY <1>1, <1>6
  <1>10. IsAnswer(frames)
    BY <1>6, <1>7, <1>8, <1>9 DEF IsAnswer
  <1> QED
    BY <1>2, <1>10

\* A frame clocked out to its end leaves the queue and becomes the one to replay.
LEMMA QueueFetched ==
  ASSUME QueueInv, queue # <<>>, last_response' = Head(queue), queue' = Tail(queue)
  PROVE  QueueInv'
  <1>1. PICK k \in 0..Len(queue) : InOrder(queue, last_response, k)
    BY DEF QueueInv
  <1> DEFINE q == Tail(queue)
             n == Len(queue)
             first == Head(queue)
  <1>2. /\ queue \in Seq(FrameType) /\ n \in Nat /\ n # 0 /\ k \in Nat /\ k <= n
        /\ first = queue[1] /\ first \in FrameType
        /\ q \in Seq(FrameType) /\ Len(q) = n - 1
        /\ \A i \in 1..(n - 1) : q[i] = queue[i + 1]
    <2>1. queue \in Seq(FrameType) /\ n \in Nat /\ k \in Nat /\ k <= n
      BY <1>1 DEF QueueInv
    <2>2. n # 0
      BY <2>1, EmptySeq
    <2> QED
      BY <2>1, <2>2
  <1>3. first # None
    BY <1>2, NoneAssumption
  <1> HIDE DEF q, first, n
  <1>4. CASE k = 0
    <2>1. \A i \in 1..(Len(q) - 1) : Follows(q[i], q[i + 1])
      <3> TAKE i \in 1..(Len(q) - 1)
      <3>1. /\ i + 1 \in 1..(n - 1) /\ i \in 1..(n - 1)
            /\ i + 1 \in (k + 1)..(n - 1)
        BY <1>2, <1>4
      <3> QED
        BY <1>1, <1>2, <3>1 DEF InOrder, n
    <2>2. 0 < Len(q) => q[Len(q)].status # "RESULT_CONT" /\ Follows(first, q[1])
      <3> SUFFICES ASSUME 0 < Len(q) PROVE q[Len(q)].status # "RESULT_CONT" /\ Follows(first, q[1])
        OBVIOUS
      <3>1. /\ n - 1 \in 1..(n - 1) /\ 1 \in 1..(n - 1) /\ (n - 1) + 1 = n /\ k < n
            /\ 1 \in (k + 1)..(n - 1)
        BY <1>2, <1>4
      <3>2. q[Len(q)] = queue[n] /\ q[1] = queue[1 + 1]
        BY <1>2, <3>1
      <3> QED
        BY <1>1, <1>2, <3>1, <3>2 DEF InOrder, n
    <2>3. InOrder(q, first, 0)
      BY <1>2, <1>3, <2>1, <2>2 DEF InOrder
    <2> QED
      BY <1>2, <2>3 DEF QueueInv, q, first
  <1>5. CASE k # 0
    <2>1. first = last_response
      BY <1>1, <1>2, <1>5 DEF InOrder
    <2>2. \A i \in 1..(k - 1) : q[i] = first
      <3> TAKE i \in 1..(k - 1)
      <3>1. i + 1 \in 1..k /\ i \in 1..(n - 1)
        BY <1>2, <1>5
      <3> QED
        BY <1>1, <1>2, <2>1, <3>1 DEF InOrder
    <2>3. \A i \in ((k - 1) + 1)..(Len(q) - 1) : Follows(q[i], q[i + 1])
      <3> TAKE i \in ((k - 1) + 1)..(Len(q) - 1)
      <3>1. i + 1 \in (k + 1)..(n - 1) /\ i + 1 \in 1..(n - 1) /\ i \in 1..(n - 1)
        BY <1>2, <1>5
      <3> QED
        BY <1>1, <1>2, <3>1 DEF InOrder, n
    <2>4. ASSUME k - 1 < Len(q)
          PROVE  /\ q[Len(q)].status # "RESULT_CONT"
                 /\ q[(k - 1) + 1].part >= 1 => first # None /\ Follows(first, q[(k - 1) + 1])
      <3>1. /\ k < n /\ n - 1 \in 1..(n - 1) /\ k \in 1..(n - 1) /\ (k - 1) + 1 = k
            /\ (n - 1) + 1 = n
        BY <1>2, <1>5, <2>4
      <3>2. q[Len(q)] = queue[n] /\ q[k] = queue[k + 1]
        BY <1>2, <3>1
      <3> QED
        BY <1>1, <1>3, <2>1, <3>1, <3>2 DEF InOrder, n
    <2>5. InOrder(q, first, k - 1) /\ k - 1 \in 0..Len(q)
      BY <1>2, <1>5, <2>2, <2>3, <2>4 DEF InOrder
    <2> QED
      BY <1>2, <2>5 DEF QueueInv, q, first
  <1> QED
    BY <1>4, <1>5

\* Resend_Req puts one more replay in front.
LEMMA QueueReplayed ==
  ASSUME QueueInv, last_response # None, queue' = <<last_response>> \o queue,
         UNCHANGED last_response
  PROVE  QueueInv'
  <1>1. PICK k \in 0..Len(queue) : InOrder(queue, last_response, k)
    BY DEF QueueInv
  <1> DEFINE q == <<last_response>> \o queue
             n == Len(queue)
  <1>2. /\ n \in Nat /\ k \in Nat /\ k <= n
        /\ q \in Seq(FrameType) /\ Len(q) = n + 1
        /\ q[1] = last_response /\ \A i \in 1..n : q[i + 1] = queue[i]
    BY <1>1 DEF QueueInv
  <1> HIDE DEF q, n
  <1>3. \A i \in 1..(k + 1) : q[i] = last_response
    <2> TAKE i \in 1..(k + 1)
    <2>1. i = 1 \/ (i - 1 \in 1..k /\ i - 1 \in 1..n /\ (i - 1) + 1 = i)
      BY <1>2
    <2> QED
      BY <1>1, <1>2, <2>1 DEF InOrder
  <1>4. \A i \in ((k + 1) + 1)..(Len(q) - 1) : Follows(q[i], q[i + 1])
    <2> TAKE i \in ((k + 1) + 1)..(Len(q) - 1)
    <2>1. /\ i - 1 \in (k + 1)..(n - 1) /\ i - 1 \in 1..n /\ i \in 1..n
          /\ (i - 1) + 1 = i
      BY <1>2
    <2>2. q[i] = queue[i - 1] /\ q[i + 1] = queue[(i - 1) + 1]
      BY <1>2, <2>1
    <2> QED
      BY <1>1, <2>1, <2>2 DEF InOrder, n
  <1>5. ASSUME k + 1 < Len(q)
        PROVE  /\ q[Len(q)].status # "RESULT_CONT"
               /\ q[(k + 1) + 1].part >= 1 =>
                     last_response # None /\ Follows(last_response, q[(k + 1) + 1])
    <2>1. k < n /\ n \in 1..n /\ k + 1 \in 1..n
      BY <1>2, <1>5
    <2>2. q[Len(q)] = queue[n] /\ q[(k + 1) + 1] = queue[k + 1]
      BY <1>2, <2>1
    <2> QED
      BY <1>1, <2>1, <2>2 DEF InOrder, n
  <1>6. InOrder(q, last_response, k + 1) /\ k + 1 \in 0..Len(q)
    BY <1>2, <1>3, <1>4, <1>5 DEF InOrder
  <1> QED
    BY <1>2, <1>6 DEF QueueInv, q

\* Answers of one plain frame, or of an acknowledgement and an error, keep the order.
LEMMA QueueAnsweredPlain ==
  ASSUME QueueInv,
         NEW st \in {"REQUEST_OK", "REQUEST_CONT", "RESP_DISABLED", "HSK_ERR", "NO_SESSION",
                     "TAG_ERR", "CRC_ERR", "UNKNOWN_ERR", "GEN_ERR"},
         RespondWith(st) \/ Respond(<<ACK, build_response(st)>>) \/ Respond(<<>>)
  PROVE  QueueInv'
  <1>1. CASE RespondWith(st)
    BY <1>1, PlainAnswers, QueueAnswered DEF RespondWith
  <1>2. CASE Respond(<<ACK, build_response(st)>>)
    BY <1>2, PlainAnswers, QueueAnswered
  <1>3. CASE Respond(<<>>)
    BY <1>3, PlainAnswers, QueueAnswered
  <1> QED
    BY <1>1, <1>2, <1>3

\* Every L2 request keeps the order.
LEMMA QueueRequest ==
  ASSUME QueueInv, NEW r \in Requests, Request(r)
  PROVE  QueueInv'
  <1>1. CASE Resend(r)
    BY <1>1, QueueReplayed, QueueAnsweredPlain DEF Resend
  <1>2. CASE GetInfo(r)
    <2>1. (IF r.len = 2 THEN get_info(r) ELSE "GEN_ERR") \in {"REQUEST_OK", "GEN_ERR"}
      BY DEF get_info
    <2> QED
      BY <1>2, <2>1, QueueAnsweredPlain DEF GetInfo
  <1>3. CASE GetLog(r)
    BY <1>3, QueueAnsweredPlain DEF GetLog
  <1>4. CASE Startup(r)
    BY <1>4, QueueAnsweredPlain DEF Startup
  <1>5. CASE Unsupported(r)
    BY <1>5, QueueAnsweredPlain DEF Unsupported
  <1>6. CASE SessionAbort(r)
    BY <1>6, QueueAnsweredPlain DEF SessionAbort
  <1>7. CASE Sleep(r)
    BY <1>7, QueueAnsweredPlain DEF Sleep
  <1>8. CASE Handshake(r)
    BY <1>8, QueueAnsweredPlain DEF Handshake
  <1> QED
    BY <1>1, <1>2, <1>3, <1>4, <1>5, <1>6, <1>7, <1>8 DEF Request

\* A chunk is answered by one frame, by an error, or by the whole result of its command.
LEMMA QueueEncrypted ==
  ASSUME ChannelInv, DeviceInv, QueueInv, NEW pkt, NEW i, NEW n \in Nat, NEW hdr,
         pkt # None => pkt.cmd \in Commands, EncryptedCmd(pkt, i, n, hdr)
  PROVE  QueueInv'
  <1>1. CASE RunCommand(pkt.cmd) /\ session # None /\ pkt # None
    <2> DEFINE c == pkt.cmd
               o == dispatch(dev, Config, session.pkey, spect, c)
               frames == ResultFrames(session.sid, session.nonce_res, o.reply.len)
    <2>1. o.reply.len \in Nat
      BY <1>1, CommandsAssumption, DispatchOk DEF DeviceInv, ReplyOk
    <2>2. session.sid \in Nat /\ session.nonce_res \in Nat
      BY <1>1, BoundsAssumption DEF ChannelInv, ChannelType, SessionType
    <2>3. IsAnswer(frames)
      BY <2>1, <2>2, ResultAnswer
    <2>4. Respond(<<ACK, build_response("GEN_ERR")>>) \/ Respond(frames)
      BY <1>1 DEF RunCommand
    <2> HIDE DEF frames
    <2> QED
      BY <2>3, <2>4, QueueAnswered, QueueAnsweredPlain
  <1>2. CASE ~(RunCommand(pkt.cmd) /\ session # None /\ pkt # None)
    <2>1. \/ \E st \in {"NO_SESSION", "GEN_ERR", "REQUEST_CONT"} : RespondWith(st)
          \/ \E st \in {"GEN_ERR", "TAG_ERR"} : Respond(<<ACK, build_response(st)>>)
          \/ RunCommand(pkt.cmd) /\ session # None /\ Opens(Gather(pkt, i, n))
               /\ ~(l3_packet.len = 0 /\ n < L3_SIZE_LEN)
               /\ ~(Gather(pkt, i, n).len < (IF l3_packet.len = 0 THEN PacketLen(hdr) ELSE l3_expected))
      BY DEF EncryptedCmd
    <2>2. ASSUME RunCommand(pkt.cmd), session # None, Opens(Gather(pkt, i, n)),
                 ~(l3_packet.len = 0 /\ n < L3_SIZE_LEN),
                 ~(Gather(pkt, i, n).len < (IF l3_packet.len = 0 THEN PacketLen(hdr) ELSE l3_expected))
          PROVE  pkt # None
      BY <2>2, LastChunkOfPacket
    <2> QED
      BY <1>2, <2>1, <2>2, QueueAnsweredPlain
  <1> QED
    BY <1>1, <1>2

\* Every step of the chip keeps the order of the responses.
LEMMA QueueNext == ChannelInv /\ DeviceInv /\ QueueInv /\ [Next]_vars => QueueInv'
  <1> SUFFICES ASSUME ChannelInv, DeviceInv, QueueInv, [Next]_vars PROVE QueueInv'
    OBVIOUS
  <1>1. CASE csn_low \/ Poll \/ RequestHead \/ ClockOut
    BY <1>1, QueueUntouched DEF csn_low, Poll, RequestHead, ClockOut, rspVars
  <1>2. CASE csn_high
    BY <1>2, QueueUntouched, QueueFetched DEF csn_high
  <1>3. CASE IgnoredInAlarm
    BY <1>3, QueueUntouched DEF IgnoredInAlarm, rspVars
  <1>4. CASE BadCrc \/ EncryptedCmdUnsupported
    BY <1>4, QueueAnsweredPlain DEF BadCrc, EncryptedCmdUnsupported
  <1>5. CASE \E r \in Requests : Request(r)
    BY <1>5, QueueRequest
  <1>6. CASE SendChunk
    <2>1. PICK pkt, i : \E n, hdr \in Nat :
                 /\ pkt # None => pkt \in Packets /\ pkt.cmd \in Commands
                 /\ EncryptedCmd(pkt, i, n, hdr)
      BY <1>6, ChunkSent
    <2> QED
      BY <2>1, QueueEncrypted
  <1>7. CASE power_cycle \/ Restart \/ Reprovision
    <2>1. queue' = <<>> /\ last_response' = None
      BY <1>7 DEF power_cycle, Restart, Reprovision, PowerOn
    <2> QED
      BY <2>1 DEF QueueInv, InOrder
  <1>8. CASE UNCHANGED vars
    BY <1>8, QueueUntouched DEF vars, rspVars
  <1> QED
    BY <1>1, <1>2, <1>3, <1>4, <1>5, <1>6, <1>7, <1>8 DEF Next

\* Replays and the chunks of a result come in order and to their end, however two hosts
\* interleave requests, polls, fetches and Resend_Req.
THEOREM ResponsesStayInOrder == Spec => []ResponsesInOrder
  <1>1. Init => QueueInv
    BY DEF Init, QueueInv, InOrder
  <1> QED
    BY <1>1, DeviceAlwaysOk, QueueNext, QueueInvSuffices, PTL DEF Spec

-----------------------------------------------------------------------------
(***************************************************************************)
(* The answer of a change.                                                 *)
(***************************************************************************)
\* What the answer to a change is.
AnsweredChange ==
    /\ session' # None /\ session'.sid = session.sid
    /\ queue' # <<>>
    /\ LET last == queue'[Len(queue')]
       IN  last.status = "RESULT_OK" /\ last.sid = session.sid /\ last.nonce = session.nonce_cmd

\* The last frame of a result.
LEMMA ResultEnds ==
  ASSUME NEW sid, NEW nonce, NEW size \in Nat, NEW q, q = ResultFrames(sid, nonce, size)
  PROVE  /\ q # <<>> /\ q[Len(q)].status = "RESULT_OK"
         /\ q[Len(q)].sid = sid /\ q[Len(q)].nonce = nonce
  <1> DEFINE n == Chunks(size)
             chunk(i) == [status |-> IF i = n THEN "RESULT_OK" ELSE "RESULT_CONT",
                          sid |-> sid, nonce |-> nonce, part |-> i]
             chunks == [i \in 1..n |-> chunk(i)]
             frames == <<ACK>> \o chunks
  <1>1. n \in Nat /\ n >= 1
    BY ChunksPositive
  <1>2. q = frames
    BY DEF ResultFrames, ACK
  <1> HIDE DEF n
  <1>3. chunk(n).status = "RESULT_OK" /\ chunk(n).sid = sid /\ chunk(n).nonce = nonce
    OBVIOUS
  <1> HIDE DEF chunk
  <1>4. chunks \in Seq({chunk(i) : i \in 1..n}) /\ Len(chunks) = n /\ chunks[n] = chunk(n)
    BY <1>1
  <1> HIDE DEF chunks
  <1>5. Len(frames) = n + 1 /\ frames[n + 1] = chunk(n) /\ frames # <<>>
    BY <1>1, <1>4
  <1> QED
    BY <1>2, <1>3, <1>5

\* A command refused at L2 leaves the device as it was.
LEMMA RefusedUnchanged ==
  ASSUME NEW d, NEW cfg, NEW pkey, NEW sp, NEW c, dispatch(d, cfg, pkey, sp, c).kind = "GenErr"
  PROVE  dispatch(d, cfg, pkey, sp, c).reply.dev = d
  BY DEF dispatch, Result, GenErr, Code, Reply

\* A command that ran changed nothing, or is answered: the response nonce is that of the
\* command, which was not the last.
LEMMA RunAnswered ==
  ASSUME ChannelInv, DeviceInv, NEW c \in Commands, session # None, session.nonce_cmd < MaxNonce,
         RunCommand(c), dev' # dev
  PROVE  AnsweredChange
  <1> DEFINE o == dispatch(dev, Config, session.pkey, spect, c)
             frames == ResultFrames(session.sid, session.nonce_res, o.reply.len)
  <1>1. o.reply.len \in Nat
    BY CommandsAssumption, DispatchOk DEF DeviceInv, ReplyOk
  <1>2. session.nonce_res = session.nonce_cmd /\ session.nonce_res # MaxNonce
    BY BoundsAssumption DEF ChannelInv, ChannelType, NoncesInStep, SessionType
  <1>3. o.kind # "GenErr"
    <2>1. dev' = o.reply.dev
      BY DEF RunCommand
    <2> QED
      BY <2>1, RefusedUnchanged
  <1>4. step_nonces /\ queue' = frames
    BY <1>2, <1>3 DEF RunCommand, Respond
  <1>5. session' # None /\ session'.sid = session.sid
    <2>1. session' \in SessionType
      BY <1>2, <1>4, BoundsAssumption DEF step_nonces, ChannelInv, ChannelType, SessionType
    <2> QED
      BY <1>4, <2>1, NoneAssumption DEF step_nonces
  <1> HIDE DEF o
  <1>6. /\ queue' # <<>> /\ queue'[Len(queue')].status = "RESULT_OK"
        /\ queue'[Len(queue')].sid = session.sid /\ queue'[Len(queue')].nonce = session.nonce_res
    BY <1>1, <1>4, ResultEnds
  <1> QED
    BY <1>2, <1>5, <1>6 DEF AnsweredChange

\* A command that changed the device leaves the channel open and its result waiting, whatever
\* the host sends and however far the nonces have come (session.rs, chip.rs).
THEOREM ChangesKeepTheirAnswer == Spec => ChangesAreAnswered
  <1>1. ASSUME ChannelInv, DeviceInv, [Next]_vars, dev' # dev, phase' # "Idle"
        PROVE  AnsweredChange
    <2>1. SendChunk
      BY <1>1, StepEffect DEF storeVars, PowerOn
    <2>2. PICK pkt, i : \E n, hdr \in Nat :
                 /\ pkt # None => pkt \in Packets /\ pkt.cmd \in Commands
                 /\ EncryptedCmd(pkt, i, n, hdr)
      BY <2>1, ChunkSent
    <2>3. PICK n \in Nat, hdr \in Nat : EncryptedCmd(pkt, i, n, hdr)
      BY <2>2
    <2>4. RunCommand(pkt.cmd) /\ session # None /\ pkt # None
      BY <1>1, <2>3, ChunkEffect DEF storeVars
    <2>5. session.nonce_cmd < MaxNonce
      BY <1>1, <2>3 DEF EncryptedCmd, storeVars
    <2> QED
      BY <1>1, <2>2, <2>4, <2>5, RunAnswered
  <1>2. ChannelInv /\ DeviceInv /\ [Next]_vars => [dev' # dev /\ phase' # "Idle" => AnsweredChange]_vars
    BY <1>1
  <1>3. (Spec => [][dev' # dev /\ phase' # "Idle" => AnsweredChange]_vars)
    BY <1>2, DeviceAlwaysOk, PTL DEF Spec
  <1> QED
    BY <1>3 DEF ChangesAreAnswered, AnsweredChange

-----------------------------------------------------------------------------
(***************************************************************************)
(* The chip implements TropicDevice.  The operators of TropicL3 that the   *)
(* instance Device brings along have the same definitions as the chip's    *)
(* own; the prover keeps the two apart, so their equality is proved first, *)
(* from the constants up to dispatch.                                      *)
(***************************************************************************)
\* The personality of the device is the personality of the chip.
LEMMA SamePersonality ==
  /\ Device!strict_l3_sizes <=> strict_l3_sizes
  /\ Device!eddsa_empty_message_unsigned <=> eddsa_empty_message_unsigned
  /\ Device!r_mem_slot_max = r_mem_slot_max
  /\ Device!default_r_config_start_up = default_r_config_start_up
  /\ Device!default_i_config_start_up = default_i_config_start_up
  BY DEF FirmwareV2, strict_l3_sizes, eddsa_empty_message_unsigned, r_mem_slot_max,
         default_r_config_start_up, default_i_config_start_up,
         Device!FirmwareV2, Device!strict_l3_sizes, Device!eddsa_empty_message_unsigned,
         Device!r_mem_slot_max, Device!default_r_config_start_up,
         Device!default_i_config_start_up

\* The limits and registers of the device are those of the chip.
LEMMA SameLimits ==
  /\ Device!START_UP = START_UP
  /\ Device!PAIRING_SLOT_MAX = PAIRING_SLOT_MAX /\ Device!ECC_SLOT_MAX = ECC_SLOT_MAX
  /\ Device!R_MEM_SLOT_MAX = R_MEM_SLOT_MAX /\ Device!MCOUNTER_MAX = MCOUNTER_MAX
  /\ Device!MACANDD_SLOT_MAX = MACANDD_SLOT_MAX
  /\ Device!CONFIG_OBJECT_SIZE = CONFIG_OBJECT_SIZE
  /\ Device!FACTORY_KEY = FACTORY_KEY /\ Device!GENERATED_KEY = GENERATED_KEY
  BY DEF START_UP, PAIRING_SLOT_MAX, ECC_SLOT_MAX, R_MEM_SLOT_MAX, MCOUNTER_MAX,
         MACANDD_SLOT_MAX, CONFIG_OBJECT_SIZE, FACTORY_KEY, GENERATED_KEY,
         Device!START_UP, Device!PAIRING_SLOT_MAX, Device!ECC_SLOT_MAX, Device!R_MEM_SLOT_MAX,
         Device!MCOUNTER_MAX, Device!MACANDD_SLOT_MAX, Device!CONFIG_OBJECT_SIZE,
         Device!FACTORY_KEY, Device!GENERATED_KEY

\* The privilege registers of the device are those of the chip.
LEMMA SameRegisters == Device!UAP = UAP
  BY DEF UAP, Device!UAP

\* The sizes a command may have are the same.
LEMMA SameSizes == Device!Sizes = Sizes
  BY SamePersonality
  DEF Sizes, PING_MAX, EDDSA_MSG_MAX, Device!Sizes, Device!PING_MAX, Device!EDDSA_MSG_MAX

\* The helpers of the handlers are the same.
LEMMA SameHelpers ==
  /\ Device!Empty = Empty
  /\ \A f, x, v : Device!Insert(f, x, v) = Insert(f, x, v)
  /\ \A f, x : Device!Remove(f, x) = Remove(f, x)
  /\ \A r, size, d : Device!Reply(r, size, d) = Reply(r, size, d)
  /\ \A r, d : Device!Code(r, d) = Code(r, d)
  /\ \A k : Device!ValidScalar(k) <=> ValidScalar(k)
  /\ \A n : Device!from_wire_id(n) = from_wire_id(n)
  /\ \A z, a : Device!Erased(z, a) <=> Erased(z, a)
  /\ \A c : Device!es_lenient(c) = es_lenient(c)
  /\ \A id : Device!is_spect(id) <=> is_spect(id)
  /\ \A id : Device!mutates_store(id) <=> mutates_store(id)
  BY DEF Empty, Insert, Remove, Reply, Code, ValidScalar, from_wire_id, Erased, es_lenient,
         is_spect, mutates_store,
         Device!Empty, Device!Insert, Device!Remove, Device!Reply, Device!Code,
         Device!ValidScalar, Device!from_wire_id, Device!Erased, Device!es_lenient,
         Device!is_spect, Device!mutates_store

\* The provisioned device, the store file and the configuration are the same.
LEMMA SameStore ==
  /\ Device!Provision = Provision
  /\ Device!Torn = Torn
  /\ \A d : Device!effective_config(d) = effective_config(d)
  /\ \A old, d : Device!persist(old, d) = persist(old, d)
  <1>1. Device!Provision = Provision
    BY SamePersonality, SameLimits, SameHelpers, Zenon DEF Provision, Device!Provision
  <1>2. Device!Torn = Torn
    BY SameHelpers, Zenon DEF Torn, Device!Torn
  <1>3. \A d : Device!effective_config(d) = effective_config(d)
    BY Zenon DEF effective_config, Device!effective_config
  <1>4. \A old, d : Device!persist(old, d) = persist(old, d)
    BY <1>2, Zenon DEF persist, Device!persist
  <1> QED
    BY <1>1, <1>2, <1>3, <1>4

\* The privilege checks are the same.
LEMMA SameChecks ==
  /\ \A z, pkey, addr, pos : Device!allowed(z, pkey, addr, pos) <=> allowed(z, pkey, addr, pos)
  /\ \A z, pkey, c, max, group, addr :
        Device!SlotAllowed(z, pkey, c, max, group, addr) <=> SlotAllowed(z, pkey, c, max, group, addr)
  /\ \A z, pkey, c, addr :
        /\ Device!config_addr(z, pkey, c, addr) = config_addr(z, pkey, c, addr)
        /\ Device!r_mem_slot(z, pkey, c, addr) <=> r_mem_slot(z, pkey, c, addr)
        /\ Device!ecc_slot(z, pkey, c, addr) <=> ecc_slot(z, pkey, c, addr)
        /\ Device!mcounter_index(z, pkey, c, addr) <=> mcounter_index(z, pkey, c, addr)
  <1>1. \A z, pkey, addr, pos : Device!allowed(z, pkey, addr, pos) <=> allowed(z, pkey, addr, pos)
    BY DEF allowed, Device!allowed
  <1>2. \A z, pkey, c, max, group, addr :
          Device!SlotAllowed(z, pkey, c, max, group, addr) <=> SlotAllowed(z, pkey, c, max, group, addr)
    BY <1>1, Zenon DEF SlotAllowed, Device!SlotAllowed
  <1>3. \A z, pkey, c, addr : Device!config_addr(z, pkey, c, addr) = config_addr(z, pkey, c, addr)
    BY <1>1, SameLimits DEF config_addr, Device!config_addr
  <1>4. \A z, pkey, c, addr : Device!r_mem_slot(z, pkey, c, addr) <=> r_mem_slot(z, pkey, c, addr)
    BY <1>2, SameLimits, Zenon DEF r_mem_slot, Device!r_mem_slot
  <1>5. \A z, pkey, c, addr : Device!ecc_slot(z, pkey, c, addr) <=> ecc_slot(z, pkey, c, addr)
    BY <1>2, SameLimits, Zenon DEF ecc_slot, Device!ecc_slot
  <1>6. \A z, pkey, c, addr :
          Device!mcounter_index(z, pkey, c, addr) <=> mcounter_index(z, pkey, c, addr)
    BY <1>2, SameLimits, Zenon DEF mcounter_index, Device!mcounter_index
  <1> QED
    BY <1>1, <1>2, <1>3, <1>4, <1>5, <1>6

\* The pairing-key commands of the device.
LEMMA SameKeys ==
  ASSUME NEW d, NEW z, NEW pkey, NEW c
  PROVE  /\ Device!pairing_key_write(d, z, pkey, c) = pairing_key_write(d, z, pkey, c)
         /\ Device!pairing_key_read(d, z, pkey, c) = pairing_key_read(d, z, pkey, c)
         /\ Device!pairing_key_invalidate(d, z, pkey, c) = pairing_key_invalidate(d, z, pkey, c)
  <1>1. Device!pairing_key_write(d, z, pkey, c) = pairing_key_write(d, z, pkey, c)
    BY SameRegisters, SameLimits, SameHelpers, SameChecks
    DEF pairing_key_write, Device!pairing_key_write
  <1>2. Device!pairing_key_read(d, z, pkey, c) = pairing_key_read(d, z, pkey, c)
    BY SameRegisters, SameLimits, SameHelpers, SameChecks
    DEF pairing_key_read, Device!pairing_key_read
  <1>3. Device!pairing_key_invalidate(d, z, pkey, c) = pairing_key_invalidate(d, z, pkey, c)
    BY SameRegisters, SameLimits, SameHelpers, SameChecks
    DEF pairing_key_invalidate, Device!pairing_key_invalidate
  <1> QED
    BY <1>1, <1>2, <1>3

\* The configuration, ping and random commands of the device.
LEMMA SameConfigHandlers ==
  ASSUME NEW d, NEW z, NEW pkey, NEW c
  PROVE  /\ Device!ping(d, z, pkey, c) = ping(d, z, pkey, c)
         /\ Device!random(d, z, pkey, c) = random(d, z, pkey, c)
         /\ Device!r_config_write(d, z, pkey, c) = r_config_write(d, z, pkey, c)
         /\ \A addr : Device!config_read(d, z, pkey, c, addr) = config_read(d, z, pkey, c, addr)
         /\ Device!r_config_erase(d, z, pkey) = r_config_erase(d, z, pkey)
         /\ Device!i_config_write(d, z, pkey, c) = i_config_write(d, z, pkey, c)
  <1>1. Device!ping(d, z, pkey, c) = ping(d, z, pkey, c)
    BY SameRegisters, SameLimits, SameHelpers, SameChecks, SamePersonality
    DEF ping, Device!ping
  <1>2. Device!random(d, z, pkey, c) = random(d, z, pkey, c)
    BY SameRegisters, SameLimits, SameHelpers, SameChecks, SamePersonality
    DEF random, Device!random
  <1>3. Device!r_config_write(d, z, pkey, c) = r_config_write(d, z, pkey, c)
    BY SameRegisters, SameLimits, SameHelpers, SameChecks, SamePersonality
    DEF r_config_write, Device!r_config_write
  <1>4. \A addr : Device!config_read(d, z, pkey, c, addr) = config_read(d, z, pkey, c, addr)
    BY SameRegisters, SameLimits, SameHelpers, SameChecks, SamePersonality
    DEF config_read, Device!config_read
  <1>5. Device!r_config_erase(d, z, pkey) = r_config_erase(d, z, pkey)
    BY SameRegisters, SameLimits, SameHelpers, SameChecks, SamePersonality
    DEF r_config_erase, Device!r_config_erase
  <1>6. Device!i_config_write(d, z, pkey, c) = i_config_write(d, z, pkey, c)
    BY SameRegisters, SameLimits, SameHelpers, SameChecks, SamePersonality
    DEF i_config_write, Device!i_config_write
  <1> QED
    BY <1>1, <1>2, <1>3, <1>4, <1>5, <1>6

\* The user-data commands of the device.
LEMMA SameMemoryHandlers ==
  ASSUME NEW d, NEW z, NEW pkey, NEW c
  PROVE  /\ Device!r_mem_write(d, z, pkey, c) = r_mem_write(d, z, pkey, c)
         /\ Device!r_mem_read(d, z, pkey, c) = r_mem_read(d, z, pkey, c)
         /\ Device!r_mem_erase(d, z, pkey, c) = r_mem_erase(d, z, pkey, c)
  <1>1. Device!r_mem_write(d, z, pkey, c) = r_mem_write(d, z, pkey, c)
    BY SameRegisters, SameLimits, SameHelpers, SameChecks, SamePersonality
    DEF r_mem_write, Device!r_mem_write
  <1>2. Device!r_mem_read(d, z, pkey, c) = r_mem_read(d, z, pkey, c)
    BY SameRegisters, SameLimits, SameHelpers, SameChecks, SamePersonality
    DEF r_mem_read, Device!r_mem_read
  <1>3. Device!r_mem_erase(d, z, pkey, c) = r_mem_erase(d, z, pkey, c)
    BY SameRegisters, SameLimits, SameHelpers, SameChecks, SamePersonality
    DEF r_mem_erase, Device!r_mem_erase
  <1> QED
    BY <1>1, <1>2, <1>3

\* The key and signature commands of the device.
LEMMA SameKeyHandlers ==
  ASSUME NEW d, NEW z, NEW pkey, NEW c
  PROVE  /\ Device!ecc_generate(d, z, pkey, c) = ecc_generate(d, z, pkey, c)
         /\ Device!ecc_store(d, z, pkey, c) = ecc_store(d, z, pkey, c)
         /\ Device!ecc_read(d, z, pkey, c) = ecc_read(d, z, pkey, c)
         /\ Device!ecc_erase(d, z, pkey, c) = ecc_erase(d, z, pkey, c)
         /\ Device!ecdsa_sign(d, z, pkey, c) = ecdsa_sign(d, z, pkey, c)
         /\ Device!eddsa_sign(d, z, pkey, c) = eddsa_sign(d, z, pkey, c)
  <1>1. Device!ecc_generate(d, z, pkey, c) = ecc_generate(d, z, pkey, c)
    BY SameRegisters, SameLimits, SameHelpers, SameChecks, SamePersonality
    DEF ecc_generate, Device!ecc_generate
  <1>2. Device!ecc_store(d, z, pkey, c) = ecc_store(d, z, pkey, c)
    BY SameRegisters, SameLimits, SameHelpers, SameChecks, SamePersonality
    DEF ecc_store, Device!ecc_store
  <1>3. Device!ecc_read(d, z, pkey, c) = ecc_read(d, z, pkey, c)
    BY SameRegisters, SameLimits, SameHelpers, SameChecks, SamePersonality
    DEF ecc_read, Device!ecc_read
  <1>4. Device!ecc_erase(d, z, pkey, c) = ecc_erase(d, z, pkey, c)
    BY SameRegisters, SameLimits, SameHelpers, SameChecks, SamePersonality
    DEF ecc_erase, Device!ecc_erase
  <1>5. Device!ecdsa_sign(d, z, pkey, c) = ecdsa_sign(d, z, pkey, c)
    BY SameRegisters, SameLimits, SameHelpers, SameChecks, SamePersonality
    DEF ecdsa_sign, Device!ecdsa_sign
  <1>6. Device!eddsa_sign(d, z, pkey, c) = eddsa_sign(d, z, pkey, c)
    BY SameRegisters, SameLimits, SameHelpers, SameChecks, SamePersonality
    DEF eddsa_sign, Device!eddsa_sign
  <1> QED
    BY <1>1, <1>2, <1>3, <1>4, <1>5, <1>6

\* The counter and MAC-and-Destroy commands of the device.
LEMMA SameCounterHandlers ==
  ASSUME NEW d, NEW z, NEW pkey, NEW c
  PROVE  /\ Device!mcounter_init(d, z, pkey, c) = mcounter_init(d, z, pkey, c)
         /\ Device!mcounter_update(d, z, pkey, c) = mcounter_update(d, z, pkey, c)
         /\ Device!mcounter_get(d, z, pkey, c) = mcounter_get(d, z, pkey, c)
         /\ Device!mac_and_destroy(d, z, pkey, c) = mac_and_destroy(d, z, pkey, c)
  <1>1. Device!mcounter_init(d, z, pkey, c) = mcounter_init(d, z, pkey, c)
    BY SameRegisters, SameLimits, SameHelpers, SameChecks, SamePersonality
    DEF mcounter_init, Device!mcounter_init
  <1>2. Device!mcounter_update(d, z, pkey, c) = mcounter_update(d, z, pkey, c)
    BY SameRegisters, SameLimits, SameHelpers, SameChecks, SamePersonality
    DEF mcounter_update, Device!mcounter_update
  <1>3. Device!mcounter_get(d, z, pkey, c) = mcounter_get(d, z, pkey, c)
    BY SameRegisters, SameLimits, SameHelpers, SameChecks, SamePersonality
    DEF mcounter_get, Device!mcounter_get
  <1>4. Device!mac_and_destroy(d, z, pkey, c) = mac_and_destroy(d, z, pkey, c)
    BY SameRegisters, SameLimits, SameHelpers, SameChecks, SamePersonality
    DEF mac_and_destroy, Device!mac_and_destroy
  <1> QED
    BY <1>1, <1>2, <1>3, <1>4

\* A command does the same to the device of TropicDevice as to the chip's.
LEMMA SameDispatch ==
  ASSUME NEW d, NEW z, NEW pkey, NEW s \in BOOLEAN, NEW c
  PROVE  Device!dispatch(d, z, pkey, s, c) = dispatch(d, z, pkey, s, c)
  <1>1. Device!Execute(d, z, pkey, c) = Execute(d, z, pkey, c)
    BY SameRegisters, SameHelpers, SameKeys, SameConfigHandlers, SameMemoryHandlers,
       SameKeyHandlers, SameCounterHandlers
    DEF Execute, Device!Execute
  <1>2. /\ \A r, b : Device!Result(r, b) = Result(r, b)
        /\ \A b : Device!GenErr(d, b) = GenErr(d, b)
    BY SameHelpers, Zenon DEF Result, GenErr, Device!Result, Device!GenErr
  <1>3. (Device!known(c) <=> known(c)) /\ (Device!size_ok(c) <=> size_ok(c))
    BY SameSizes, Zenon DEF known, size_ok, Device!known, Device!size_ok
  <1>4. (s \/ Device!is_spect(c.id)) = (s \/ is_spect(c.id))
    BY SameHelpers
  <1>5. Device!es_lenient(c) = es_lenient(c) /\ (Device!is_spect(c.id) <=> is_spect(c.id))
    BY SameHelpers
  <1>6. \A r, size : /\ Device!Reply(r, size, d) = Reply(r, size, d)
                     /\ Device!Code(r, d) = Code(r, d)
    BY SameHelpers
  <1>7. Device!strict_l3_sizes <=> strict_l3_sizes
    BY SamePersonality
  <1>8. CASE c.len = 0
    BY <1>2, <1>6, <1>8, Zenon DEF dispatch, Device!dispatch
  <1>9. CASE c.len # 0 /\ ~known(c)
    BY <1>2, <1>3, <1>6, <1>9, Zenon DEF dispatch, Device!dispatch
  <1>10. CASE c.len # 0 /\ known(c) /\ ~size_ok(c) /\ strict_l3_sizes
    <2>1. dispatch(d, z, pkey, s, c) = GenErr(d, s \/ is_spect(c.id))
      BY <1>10, Zenon DEF dispatch
    <2>2. Device!dispatch(d, z, pkey, s, c) = Device!GenErr(d, s \/ Device!is_spect(c.id))
      BY <1>3, <1>7, <1>10, Zenon DEF Device!dispatch
    <2> QED
      BY <1>2, <1>4, <2>1, <2>2, Zenon
  <1>11. CASE c.len # 0 /\ known(c) /\ ~size_ok(c) /\ ~strict_l3_sizes /\ es_lenient(c) # "EXECUTE"
    BY <1>2, <1>3, <1>5, <1>6, <1>7, <1>11, Zenon DEF dispatch, Device!dispatch
  <1>12. CASE /\ c.len # 0 /\ known(c)
              /\ size_ok(c) \/ (~strict_l3_sizes /\ es_lenient(c) = "EXECUTE")
    <2>1. CASE s /\ ~is_spect(c.id)
      BY <1>2, <1>3, <1>5, <1>6, <1>7, <1>12, <2>1, Zenon DEF dispatch, Device!dispatch
    <2>2. CASE ~(s /\ ~is_spect(c.id))
      BY <1>1, <1>2, <1>3, <1>5, <1>7, <1>12, <2>2, Zenon DEF dispatch, Device!dispatch
    <2> QED
      BY <2>1, <2>2
  <1> QED
    BY <1>8, <1>9, <1>10, <1>11, <1>12

-----------------------------------------------------------------------------
\* A secure channel is only open for a pairing slot of the device.
SlotInv == session # None => session.pkey \in 0..PAIRING_SLOT_MAX

\* Every step keeps the pairing slot of the open channel in range.
LEMMA SlotNext == ChannelInv /\ DeviceInv /\ SlotInv /\ [Next]_vars => SlotInv'
  <1> SUFFICES ASSUME ChannelInv, DeviceInv, SlotInv, [Next]_vars PROVE SlotInv'
    OBVIOUS
  <1>1. CASE UNCHANGED session \/ session' = None
    BY <1>1 DEF SlotInv
  <1>2. CASE csn_low \/ csn_high \/ Poll \/ RequestHead \/ ClockOut
    BY <1>1, <1>2 DEF csn_low, csn_high, Poll, RequestHead, ClockOut, chanVars
  <1>3. CASE IgnoredInAlarm \/ BadCrc \/ EncryptedCmdUnsupported
    BY <1>1, <1>3 DEF IgnoredInAlarm, BadCrc, EncryptedCmdUnsupported, chanVars
  <1>4. ASSUME NEW r \in Requests, Request(r)
        PROVE  SlotInv'
    <2>1. CASE Resend(r) \/ GetInfo(r) \/ GetLog(r) \/ Unsupported(r)
      BY <1>1, <2>1 DEF Resend, GetInfo, GetLog, Unsupported, chanVars
    <2>2. CASE Startup(r) \/ SessionAbort(r) \/ Sleep(r)
      BY <1>1, <2>2 DEF Startup, SessionAbort, Sleep, reboot, drop_session, chanVars
    <2>3. CASE Handshake(r)
      <3>1. CASE UNCHANGED session \/ session' = None
        BY <1>1, <3>1
      <3>2. CASE PairedWith(r.arg) /\ OpenSession(r.arg)
        <4>1. session'.pkey = r.arg
          BY <3>2 DEF OpenSession
        <4>2. r.arg \in 0..PAIRING_SLOT_MAX
          BY <3>2 DEF PairedWith, DeviceInv, DeviceType, Slots
        <4> QED
          BY <4>1, <4>2 DEF SlotInv
      <3> QED
        BY <2>3, <3>1, <3>2 DEF Handshake, drop_session, chanVars
    <2> QED
      BY <1>4, <2>1, <2>2, <2>3 DEF Request
  <1>5. CASE SendChunk
    <2>1. PICK pkt, i : \E n, hdr \in Nat : EncryptedCmd(pkt, i, n, hdr)
      BY <1>5, ChunkSent
    <2>2. UNCHANGED session \/ session' = None \/ (session # None /\ step_nonces)
      BY <2>1 DEF EncryptedCmd, RunCommand, drop_session, chanVars
    <2>3. CASE session # None /\ step_nonces
      <3>1. session'.pkey = session.pkey
        BY <2>3 DEF step_nonces
      <3> QED
        BY <2>3, <3>1 DEF SlotInv
    <2> QED
      BY <1>1, <2>2, <2>3
  <1>6. CASE power_cycle \/ Restart \/ Reprovision
    BY <1>1, <1>6 DEF power_cycle, Restart, Reprovision, PowerOn, drop_session
  <1>7. CASE UNCHANGED vars
    BY <1>1, <1>7 DEF vars, chanVars
  <1> QED
    BY <1>2, <1>3, <1>4, <1>5, <1>6, <1>7 DEF Next

\* A step that leaves the device, the flag and the configuration in force alone is a
\* stuttering step of the device.
LEMMA DeviceStutters ==
  ASSUME UNCHANGED <<storeVars, spect>>, active_config' = active_config \/ active_config' = <<Config>>
  PROVE  UNCHANGED Device!dvars
  <1>1. Config' = Config
    <2>1. CASE active_config' = active_config
      BY <2>1 DEF Config, storeVars
    <2>2. CASE active_config' = <<Config>>
      BY <2>2 DEF Config
    <2> QED
      BY <2>1, <2>2
  <1> QED
    BY <1>1 DEF Device!dvars, storeVars

\* Start-up of the firmware, by a request or by power, is a boot of the device.
LEMMA BootsDevice ==
  ASSUME UNCHANGED storeVars, spect' = FALSE, active_config' = <<>>
  PROVE  Device!Boot
  <1>1. Config' = effective_config(dev)
    BY DEF Config, storeVars
  <1> QED
    BY <1>1, SameStore DEF Device!Boot, storeVars

\* A packet that runs is a command of its session's pairing slot.
LEMMA RunsCommand ==
  ASSUME DeviceInv, SlotInv, session # None, NEW c \in Commands, RunCommand(c)
  PROVE  Device!DNext
  <1>1. session.pkey \in 0..Device!PAIRING_SLOT_MAX
    BY SameLimits DEF SlotInv
  <1>2. Device!dispatch(dev, Config, session.pkey, spect, c)
          = dispatch(dev, Config, session.pkey, spect, c)
    BY SameDispatch DEF DeviceInv
  <1>3. Config' = Config
    BY DEF RunCommand, Config
  <1> DEFINE o == dispatch(dev, Config, session.pkey, spect, c)
  <1>4. /\ dev' = o.reply.dev /\ spect' = o.spect
        /\ IF c.len > 0 /\ mutates_store(c.id) THEN disk' \in persist(disk, o.reply.dev)
                                                ELSE UNCHANGED disk
    BY DEF RunCommand
  <1> HIDE DEF o
  <1>5. Device!Command(session.pkey, c)
    BY <1>2, <1>3, <1>4, SameHelpers, SameStore DEF Device!Command, o
  <1> QED
    BY <1>1, <1>5 DEF Device!DNext

\* Every step of the chip is a step of the device or a stuttering step.
LEMMA StepImplements ==
  ASSUME ChannelInv, DeviceInv, SlotInv, [Next]_vars
  PROVE  [Device!DNext]_(Device!dvars)
  <1>1. CASE csn_low \/ csn_high \/ Poll \/ RequestHead \/ ClockOut
    BY <1>1, DeviceStutters DEF csn_low, csn_high, Poll, RequestHead, ClockOut, bootVars
  <1>2. CASE IgnoredInAlarm \/ BadCrc \/ EncryptedCmdUnsupported
    BY <1>2, DeviceStutters DEF IgnoredInAlarm, BadCrc, EncryptedCmdUnsupported, bootVars
  <1>3. ASSUME NEW r \in Requests, Request(r)
        PROVE  [Device!DNext]_(Device!dvars)
    <2>1. CASE Startup(r)
      BY <2>1, DeviceStutters, BootsDevice DEF Startup, reboot, Device!DNext
    <2>2. CASE Sleep(r)
      BY <2>2, DeviceStutters DEF Sleep
    <2>3. CASE Resend(r) \/ GetInfo(r) \/ GetLog(r) \/ Unsupported(r) \/ SessionAbort(r)
               \/ Handshake(r)
      BY <2>3, DeviceStutters
      DEF Resend, GetInfo, GetLog, Unsupported, SessionAbort, Handshake, bootVars
    <2> QED
      BY <1>3, <2>1, <2>2, <2>3 DEF Request
  <1>4. CASE SendChunk
    <2>1. PICK pkt, i : \E n, hdr \in Nat :
                 /\ pkt # None => pkt \in Packets /\ pkt.cmd \in Commands
                 /\ EncryptedCmd(pkt, i, n, hdr)
      BY <1>4, ChunkSent
    <2>2. \/ UNCHANGED <<active_config, spect, storeVars, consumed>>
          \/ RunCommand(pkt.cmd) /\ session # None /\ pkt # None
      BY <2>1, ChunkEffect
    <2> QED
      BY <2>1, <2>2, DeviceStutters, RunsCommand
  <1>5. CASE power_cycle
    BY <1>5, BootsDevice DEF power_cycle, PowerOn, Device!DNext
  <1>6. CASE Restart
    <2>1. Config' = effective_config(disk)
      BY <1>6 DEF Restart, PowerOn, Config
    <2>2. Device!Restart
      BY <1>6, <2>1, SameStore DEF Restart, PowerOn, Device!Restart
    <2> QED
      BY <2>2 DEF Device!DNext
  <1>7. CASE Reprovision
    <2>1. Config' = effective_config(Provision)
      BY <1>7 DEF Reprovision, PowerOn, Config
    <2>2. Device!Reprovision
      BY <1>7, <2>1, SameStore DEF Reprovision, PowerOn, Device!Reprovision
    <2> QED
      BY <2>2 DEF Device!DNext
  <1>8. CASE UNCHANGED vars
    BY <1>8, DeviceStutters DEF vars, bootVars
  <1> QED
    BY <1>1, <1>2, <1>3, <1>4, <1>5, <1>6, <1>7, <1>8 DEF Next

\* The chip with its link layers, secure channel and lazily read configuration implements
\* the device that reads its configuration at boot and runs one command at a time.
THEOREM ChipImplementsDevice == Spec => ImplementsDevice
  <1>1. Init => Device!DInit
    BY SameStore DEF Init, Config, Device!DInit
  <1>2. Init => SlotInv
    BY DEF Init, SlotInv
  <1>3. ChannelInv /\ DeviceInv /\ SlotInv /\ [Next]_vars => [Device!DNext]_(Device!dvars)
    BY StepImplements
  <1> QED
    BY <1>1, <1>2, <1>3, DeviceAlwaysOk, SlotNext, PTL DEF Spec, ImplementsDevice, Device!DSpec
=============================================================================
