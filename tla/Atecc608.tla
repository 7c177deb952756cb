------------------------------- MODULE Atecc608 -------------------------------
(***************************************************************************)
(* The ATECC608A simulator: a device of config, OTP and data zones that    *)
(* every TCP connection shares, and a volatile session per connection,     *)
(* with TempKey and a running SHA-256 (atecc608-sim/src).                  *)
(*                                                                         *)
(* The unit of memory is the 4-byte word of the protocol.  A word is a     *)
(* pair of a tag and a number: what a host wrote, or the i-th word of the  *)
(* k-th random key.  A P-256 key is named by its scalar, and a signature,  *)
(* public key or shared secret by the scalar it was computed from.         *)
(***************************************************************************)
EXTENDS DeviceServer

CONSTANTS
    NUM_SLOTS,      \* 16
    SLOT_SIZE,      \* words in a slot, 18
    OTP_SIZE,       \* words in the OTP zone, 16
    BLOCK,          \* words in a 32-byte block, 8
    LockBlock,      \* the block of the config zone that holds the lock bytes, 2
    LockWord,       \* the word of that block with LockValue and LockConfig, 5
    Packets,        \* the packets that hosts send
    StoreFiles,     \* devices that a file prepared beforehand may hold
    AteccKeys,      \* bound on the keys generated
    MaxStream       \* bound on the words of a running hash

ASSUME AteccAssumption ==
    /\ {NUM_SLOTS, SLOT_SIZE, OTP_SIZE, BLOCK} \subseteq Nat \ {0, 1}
    /\ {LockBlock, LockWord, AteccKeys, MaxStream} \subseteq Nat

VARIABLES
    mine,       \* history: per connection, the digest and stream its host loaded
    uses        \* history: the scalars that answers used, per slot, while it was sealed

avars == <<server, mine, uses>>

Slots == 0..(NUM_SLOTS - 1)
Zero == <<"zero", 0>>
Ones == <<"ones", 0>>
Zeros(n) == [i \in 1..n |-> Zero]

(***************************************************************************)
(* The device (object_store).                                              *)
(***************************************************************************)
default_device ==
    [config |-> [lock |-> [config |-> TRUE, data |-> TRUE], slots |-> {}, rest |-> Zero],
     otp |-> Zeros(OTP_SIZE),
     slots |-> [s \in Slots |-> <<>>]]

\* A device is a record of its three zones, and the locks are two flags and a set of slots.
IsDevice(d) ==
    /\ d = [config |-> d.config, otp |-> d.otp, slots |-> d.slots]
    /\ d.config = [lock |-> d.config.lock, slots |-> d.config.slots, rest |-> d.config.rest]
    /\ d.config.lock \in [config : BOOLEAN, data : BOOLEAN]
    /\ d.slots = [s \in Slots |-> d.slots[s]]

\* A prepared file holds a device, and a write to the config zone writes two flags.
ASSUME InputsAssumption ==
    /\ \A d \in StoreFiles : IsDevice(d)
    /\ \A cmd \in Packets : cmd.config.lock \in [config : BOOLEAN, data : BOOLEAN]

config_locked(d) == d.config.lock.config
data_locked(d) == d.config.lock.data
slot_locked(d, s) == s \in d.config.slots

\* The locks of a device, and the slots whose contents they freeze.
Locks(d) ==
    {<<z, 0>> : z \in {y \in {"config", "data"} : d.config.lock[y]}}
        \cup {<<"slot", s>> : s \in d.config.slots}
Sealed(d, s) == config_locked(d) /\ data_locked(d) /\ slot_locked(d, s)

(***************************************************************************)
(* The session of a connection (session.rs).                               *)
(***************************************************************************)
NoDigest == <<>>
new_session == [open |-> TRUE, tempkey |-> NoDigest, sha |-> {}]
volatile_reset_tempkey(se) == [se EXCEPT !.tempkey = NoDigest]
volatile_reset(se) == [se EXCEPT !.tempkey = NoDigest, !.sha = {}]

(***************************************************************************)
(* Command handlers: the device, the session and the answer they leave.    *)
(***************************************************************************)
Out(d, se, status, body) == [device |-> d, session |-> se, status |-> status, body |-> body]
Fail(d, se, status) == Out(d, se, status, <<>>)
Done(d, se) == Out(d, se, "SUCCESS", <<>>)

\* The first word of a block or a single word of it.
Offset(cmd) == cmd.block * BLOCK + IF cmd.wide THEN 0 ELSE cmd.offset
Length(cmd) == IF cmd.wide THEN BLOCK ELSE 1
Overlay(words, off, data) ==
    [i \in 1..(IF Len(words) < off + Len(data) THEN off + Len(data) ELSE Len(words)) |->
        IF i \in (off + 1)..(off + Len(data)) THEN data[i - off]
        ELSE IF i <= Len(words) THEN words[i] ELSE Zero]

handle_read(d, se, cmd) ==
    LET size == IF cmd.zone = "data" THEN SLOT_SIZE ELSE OTP_SIZE
        words == IF cmd.zone = "data" THEN d.slots[cmd.slot] ELSE d.otp
    IN  IF cmd.zone \notin {"config", "otp", "data"} \/ cmd.slot \notin Slots
           THEN Fail(d, se, "PARSE_ERROR")
        ELSE IF cmd.zone = "config" THEN Out(d, se, "SUCCESS", d.config)
        ELSE IF Offset(cmd) + Length(cmd) > size THEN Fail(d, se, "PARSE_ERROR")
        ELSE Out(d, se, "SUCCESS",
                 [i \in 1..Length(cmd) |->
                    IF Offset(cmd) + i <= Len(words) THEN words[Offset(cmd) + i] ELSE Zero])

\* A write to an unlocked config zone may reach the lock bytes and the SlotLocked word.
write_config(d, cmd) ==
    LET reaches(w) == cmd.block = LockBlock /\ (cmd.wide \/ cmd.offset = w)
    IN  [d EXCEPT !.config =
            [lock  |-> IF reaches(LockWord) THEN cmd.config.lock ELSE @.lock,
             slots |-> IF reaches(LockWord + 1) THEN cmd.config.slots ELSE @.slots,
             rest  |-> IF cmd.block # LockBlock THEN cmd.config.rest ELSE @.rest]]

handle_write(d, se, cmd) ==
    IF cmd.encrypted THEN Fail(d, se, "EXECUTION_ERROR")
    ELSE IF Len(cmd.data) # Length(cmd) THEN Fail(d, se, "PARSE_ERROR")
    ELSE CASE cmd.zone = "config" ->
                IF config_locked(d) THEN Fail(d, se, "EXECUTION_ERROR")
                ELSE Done(write_config(d, cmd), se)
           [] cmd.zone = "otp" ->
                IF data_locked(d) THEN Fail(d, se, "EXECUTION_ERROR")
                ELSE IF Offset(cmd) + Length(cmd) > OTP_SIZE THEN Fail(d, se, "PARSE_ERROR")
                ELSE Done([d EXCEPT !.otp = Overlay(@, Offset(cmd), cmd.data)], se)
           [] cmd.zone = "data" ->
                IF cmd.slot \notin Slots THEN Fail(d, se, "PARSE_ERROR")
                ELSE IF data_locked(d) /\ slot_locked(d, cmd.slot)
                THEN Fail(d, se, "EXECUTION_ERROR")
                ELSE IF Offset(cmd) + Length(cmd) > SLOT_SIZE THEN Fail(d, se, "PARSE_ERROR")
                ELSE Done([d EXCEPT !.slots[cmd.slot] = Overlay(@, Offset(cmd), cmd.data)], se)
           [] OTHER -> Fail(d, se, "PARSE_ERROR")

handle_lock(d, se, cmd) ==
    CASE cmd.mode = 0 ->
            IF config_locked(d) THEN Fail(d, se, "EXECUTION_ERROR")
            ELSE Done([d EXCEPT !.config.lock.config = TRUE], se)
      [] cmd.mode = 1 ->
            IF data_locked(d) THEN Fail(d, se, "EXECUTION_ERROR")
            ELSE Done([d EXCEPT !.config.lock.data = TRUE], se)
      [] cmd.mode = 2 ->
            IF cmd.slot \notin Slots THEN Fail(d, se, "PARSE_ERROR")
            ELSE IF slot_locked(d, cmd.slot) THEN Fail(d, se, "EXECUTION_ERROR")
            ELSE Done([d EXCEPT !.config.slots = @ \cup {cmd.slot}], se)
      [] OTHER -> Fail(d, se, "PARSE_ERROR")

\* The scalar in a slot: the first block, once the slot is that long.  P-256 refuses zero and
\* what exceeds its order, which begins with a word of ones and a word of zeros.
HasScalar(d, s) == Len(d.slots[s]) >= BLOCK
slot_scalar(d, s) == SubSeq(d.slots[s], 1, BLOCK)
ValidScalar(k) == k # Zeros(BLOCK) /\ ~(k[1] = Ones /\ k[2] # Zero)
Usable(d, s) == HasScalar(d, s) /\ ValidScalar(slot_scalar(d, s))

RandomKey(n) == [i \in 1..BLOCK |-> <<"key", n * BLOCK + i>>]

\* A key generation that leaves the locks to Write.
genkey_in_locked_slot(d, se, cmd) ==
    IF cmd.mode = 4
    THEN Out([d EXCEPT !.slots[cmd.slot] = Overlay(@, 0, RandomKey(minted))], se,
             "SUCCESS", RandomKey(minted))
    ELSE IF ~Usable(d, cmd.slot) THEN Fail(d, se, "EXECUTION_ERROR")
    ELSE Out(d, se, "SUCCESS", slot_scalar(d, cmd.slot))

handle_genkey(d, se, cmd) ==
    CASE cmd.slot \notin Slots -> Fail(d, se, "PARSE_ERROR")
      [] cmd.slot \in Slots /\ cmd.mode = 4 ->
            IF slot_locked(d, cmd.slot) THEN Fail(d, se, "EXECUTION_ERROR")
            ELSE Out([d EXCEPT !.slots[cmd.slot] = Overlay(@, 0, RandomKey(minted))], se,
                     "SUCCESS", RandomKey(minted))
      [] cmd.slot \in Slots /\ cmd.mode = 0 ->
            IF ~Usable(d, cmd.slot) THEN Fail(d, se, "EXECUTION_ERROR")
            ELSE Out(d, se, "SUCCESS", slot_scalar(d, cmd.slot))
      [] OTHER -> Fail(d, se, "PARSE_ERROR")

handle_nonce(d, se, cmd) ==
    IF cmd.mode # 3 \/ Len(cmd.data) # BLOCK THEN Fail(d, se, "PARSE_ERROR")
    ELSE Done(d, [se EXCEPT !.tempkey = cmd.data])

handle_sign(d, se, cmd) ==
    IF ~cmd.external THEN Fail(d, se, "EXECUTION_ERROR")
    ELSE IF cmd.slot \notin Slots THEN Fail(d, se, "PARSE_ERROR")
    ELSE IF se.tempkey = NoDigest \/ ~Usable(d, cmd.slot) THEN Fail(d, se, "EXECUTION_ERROR")
    ELSE Out(d, se, "SUCCESS", slot_scalar(d, cmd.slot))

\* A signature names the scalar and the digest it was made with.
handle_verify(d, se, cmd) ==
    IF cmd.mode # 2 THEN Fail(d, se, "EXECUTION_ERROR")
    ELSE IF ~cmd.complete THEN Fail(d, se, "PARSE_ERROR")
    ELSE IF se.tempkey = NoDigest THEN Fail(d, se, "EXECUTION_ERROR")
    ELSE IF ~cmd.on_curve THEN Fail(d, se, "PARSE_ERROR")
    ELSE IF cmd.signature = [key |-> cmd.key, digest |-> se.tempkey] THEN Done(d, se)
    ELSE Fail(d, se, "MISCOMPARE")

handle_ecdh(d, se, cmd) ==
    IF cmd.mode # 0 THEN Fail(d, se, "EXECUTION_ERROR")
    ELSE IF cmd.slot \notin Slots \/ ~cmd.complete THEN Fail(d, se, "PARSE_ERROR")
    ELSE IF ~Usable(d, cmd.slot) THEN Fail(d, se, "EXECUTION_ERROR")
    ELSE IF ~cmd.on_curve THEN Fail(d, se, "PARSE_ERROR")
    ELSE Out(d, se, "SUCCESS", slot_scalar(d, cmd.slot))

\* The running hash is the set of at most one sequence: what it has absorbed.
handle_sha(d, se, cmd) ==
    CASE cmd.mode = 0 -> Done(d, [se EXCEPT !.sha = {<<>>}])
      [] cmd.mode = 1 ->
            IF se.sha = {} THEN Fail(d, se, "EXECUTION_ERROR")
            ELSE Done(d, [se EXCEPT !.sha = {h \o cmd.data : h \in @}])
      [] cmd.mode = 2 ->
            IF se.sha = {} THEN Fail(d, se, "EXECUTION_ERROR")
            ELSE Out(d, [se EXCEPT !.sha = {}], "SUCCESS", {h \o cmd.data : h \in se.sha})
      [] cmd.mode = 3 -> Out(d, se, "SUCCESS", {cmd.data})
      [] OTHER -> Fail(d, se, "PARSE_ERROR")

handle_info(d, se, cmd) ==
    IF cmd.mode # 0 THEN Fail(d, se, "PARSE_ERROR") ELSE Out(d, se, "SUCCESS", d.config.rest)

dispatch(d, se, cmd) ==
    CASE cmd.op = "malformed" -> Fail(d, se, "PARSE_ERROR")
      [] cmd.op = "bad_crc" -> Fail(d, se, "CRC_ERROR")
      [] cmd.op = "Info" -> handle_info(d, se, cmd)
      [] cmd.op = "Random" -> Done(d, se)
      [] cmd.op = "Read" -> handle_read(d, se, cmd)
      [] cmd.op = "Write" -> handle_write(d, se, cmd)
      [] cmd.op = "Lock" -> handle_lock(d, se, cmd)
      [] cmd.op = "Sha" -> handle_sha(d, se, cmd)
      [] cmd.op = "Nonce" -> handle_nonce(d, se, cmd)
      [] cmd.op = "GenKey" -> handle_genkey(d, se, cmd)
      [] cmd.op = "Sign" -> handle_sign(d, se, cmd)
      [] cmd.op = "Verify" -> handle_verify(d, se, cmd)
      [] cmd.op = "Ecdh" -> handle_ecdh(d, se, cmd)
      [] OTHER -> Fail(d, se, "PARSE_ERROR")

(***************************************************************************)
(* The server (bin/tcp_server.rs).                                         *)
(***************************************************************************)
Nothing == [digest |-> NoDigest, stream |-> {}]

\* What the host of a connection has loaded once a command succeeds.
Loaded(m, cmd) ==
    CASE cmd.op = "Nonce" -> [m EXCEPT !.digest = cmd.data]
      [] cmd.op = "Sha" /\ cmd.mode = 0 -> [m EXCEPT !.stream = {<<>>}]
      [] cmd.op = "Sha" /\ cmd.mode = 1 -> [m EXCEPT !.stream = {h \o cmd.data : h \in @}]
      [] cmd.op = "Sha" /\ cmd.mode = 2 -> [m EXCEPT !.stream = {}]
      [] OTHER -> m

Draws(cmd) == cmd.op = "GenKey" /\ cmd.mode = 4
UsesKey(cmd) == cmd.op \in {"GenKey", "Sign", "Ecdh"}

\* read_and_dispatch: under the mutex the command is dispatched and the device saved.
read_and_dispatch(c, cmd) ==
    LET r == dispatch(device, session[c], cmd)
    IN  /\ alive /\ session[c].open
        /\ Draws(cmd) => minted < AteccKeys
        /\ cmd.op = "Sha" /\ cmd.mode = 1 => \A h \in session[c].sha : Len(h) < MaxStream
        /\ minted' = IF Draws(cmd) /\ r.status = "SUCCESS" THEN minted + 1 ELSE minted
        /\ \/ /\ Answered(c, r)
              /\ mine' = IF r.status = "SUCCESS" THEN [mine EXCEPT ![c] = Loaded(@, cmd)] ELSE mine
              /\ uses' =
                  IF persistent /\ UsesKey(cmd) /\ r.status = "SUCCESS" /\ Sealed(r.device, cmd.slot)
                  THEN [uses EXCEPT ![cmd.slot] = @ \cup {r.body}] ELSE uses
           \/ /\ Unsaved(c, r)
              /\ mine' = [mine EXCEPT ![c] = Nothing] /\ UNCHANGED uses
           \/ /\ DiesSaving(c, r)
              /\ mine' = [x \in Conns |-> Nothing] /\ UNCHANGED uses

AteccConnect(c) == Connect(c, new_session) /\ UNCHANGED <<mine, uses>>
AteccDisconnect(c) == Disconnect(c) /\ mine' = [mine EXCEPT ![c] = Nothing] /\ UNCHANGED uses
AteccCrash == Crash /\ mine' = [x \in Conns |-> Nothing] /\ UNCHANGED uses

\* Word address 0x01; wake and idle change nothing.
Sleep(c) ==
    /\ session[c].open
    /\ session' = [session EXCEPT ![c] = volatile_reset(@)]
    /\ mine' = [mine EXCEPT ![c] = Nothing]
    /\ UNCHANGED <<device, persistent, alive, file, minted, known, uses>>

\* main: a server without a file, or load_or_init.
AteccStart ==
    /\ StartFresh(default_device) \/ Load \/ (Create(default_device) /\ UNCHANGED minted)
    /\ UNCHANGED <<mine, uses>>

AteccHistory == mine = [c \in Conns |-> Nothing] /\ uses = [s \in Slots |-> {}]
AteccInit == chip = "ATECC608" /\ ServerInit({Missing} \cup {Saved(d) : d \in StoreFiles}) /\ AteccHistory

AteccNext ==
    /\ chip = "ATECC608" /\ UNCHANGED chip
    /\ \/ \E c \in Conns : AteccConnect(c) \/ AteccDisconnect(c) \/ Sleep(c)
       \/ \E c \in Conns, cmd \in Packets : read_and_dispatch(c, cmd)
       \/ AteccCrash \/ AteccStart

AteccSpec == AteccInit /\ [][AteccNext]_avars
-----------------------------------------------------------------------------
\* A session holds the digest and the stream that its own host loaded since it connected or
\* last slept, whatever other hosts do to theirs and whichever saves fail: Sign and Verify
\* never use another host's digest, or one from before a sleep.
SessionIsOwn ==
    \A c \in Conns : chip = "ATECC608" /\ session[c].open =>
        session[c].tempkey = mine[c].digest /\ session[c].sha = mine[c].stream

\* A slot that is sealed (config and data zones locked, and its own lock set) has one key for
\* good: every public key, signature and shared secret that any host is answered for it comes
\* from the same scalar, across failed saves, crashes and restarts of a server with a file.
SealedKeyIsOne == \A s \in Slots : Cardinality(uses[s]) <= 1

\* Once the config zone is locked, a lock that was in force when any host was answered is in
\* force at every later answer: no command, failed save, crash or restart opens it again.
AnsweredLocksLast ==
    [][chip = "ATECC608" =>
        \A d \in known, e \in known' : config_locked(d) => Locks(d) \subseteq Locks(e)]_known
=============================================================================
