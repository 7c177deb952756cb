# Verification of the wolfSSL simulators

This directory is a TLA+ development kept beside the wolfSSL hardware simulators
(`src/`). It models the simulators' state machines, model-checks them with TLC on small
instances and proves the properties that matter most with TLAPS for every value of the
constants.

## 1. The system

The repository holds six independent simulators. Four are *secure elements behind TCP*: a
server process owns one device, every connection talks to it in frames, and the device's
objects live in a JSON file. Two are *microcontrollers*: a CPU emulator runs firmware
against models of the cryptographic peripherals.

| simulator | source | state | hard behaviour |
|---|---|---|---|
| TROPIC01 | `TROPIC01Sim/tropic01-sim/src` | one chip shared by all connections: SPI phase, response queue, mode, secure channel with nonces, gathered packet chunks, cached configuration; device file | interleaved hosts inside one SPI transaction, multi-chunk packets and results, resend, replay, alarm latch, lazily cached configuration, failed and torn saves |
| SE050 | `SE050Sim/se050-sim/src` | per connection: T=1 sequence numbers, APDU reassembly, SCP03 state, chunks to send; shared: objects with policies, curves, crypto objects, SCP keys and the SCP-required flag | connections sharing objects, channels that outlive a key rotation, chained answers against resets, policy recorded after its object |
| ATECC608 | `ATECC608Sim/atecc608-sim/src` | per connection: TempKey, SHA context; shared: zones, locks, key slots | idle, sleep and wake, one-way locks, a key regenerated under another connection |
| STSAFE-A120 | `STSAFEA120Sim/stsafe-a120-sim/src` | shared: key slots, zones | ephemeral key slot shared by connections and saved |
| STM32 | `STM32Sim/stm32-sim` | CPU bus and the HASH, CRYP/AES, PKA, RNG, RCC registers | context save and restore, GCM phases, register write orders, flags the firmware polls |
| PIC32MZ | `PIC32MZSim/pic32mz-sim` | crypto-engine registers, buffer-descriptor chain in memory, polling callback | descriptors handed over while the engine sweeps the chain |

What makes each correct:

* **TROPIC01** - a command takes effect only if a fresh packet of the open channel carried
  it and the configuration in force at boot granted it; what was revoked stays revoked;
  write-once objects are written once; the answer is delivered whole and in order; the
  file holds what the device holds.
* **SE050** - no command takes effect outside the channel once the channel is required;
  host and card counters agree; an answer belongs to the command it follows; a policy
  attached at creation is never lost.
* **ATECC608, STSAFE** - locks are one-way, volatile state belongs to its connection and
  dies when it should, what was answered survives restarts, the device keeps its identity.
* **STM32, PIC32MZ** - a message fed in pieces, with saves and restores in between, gives
  the digest of the message; a register protocol the driver follows never hangs.

## 2. Plan and its state

1. TROPIC01 (done): `TropicL3` (commands as pure operators), `TropicDevice` (the abstract
   specification: atomic commands on a persistent device), `TropicChip` (link, channel and
   server; implements `TropicDevice`), `TropicHost` (the chip composed with a host). Proved:
   every safety property of the runs, and the refinement.
2. SE050 (done): `Se050Store` and `Se050Crypto` (handlers as pure operators), `Se050Service`
   (atomic commands on a persistent store), `Se050Objects` (the service of these handlers: the
   abstract specification), `Se050Streams` (what the hosts feed into running contexts),
   `Se050Card` (T=1 link, SCP03 channel and connections; implements the service). Proved: every
   safety property of the runs, and the refinement.
3. ATECC608 and STSAFE-A120 (done): `DeviceServer` (the server they have in common), `Atecc608`,
   `StsafeA120`, and `SecureElements`, which composes them. Proved: every property of the run.
4. The crypto peripherals of the two microcontrollers (done): `Pic32Crypto`, `Stm32Hash`,
   `Stm32Cryp`, and `CryptoPeripherals`, which composes them. Proved: every safety
   property of the run. The PKA of the STM32 is left out (section 7).
5. Only model-checked: the two liveness properties `EveryRequestEnds` and `StreamProgress`, for
   the reason at the end of section 7.

## 3. TROPIC01

### Modules and their correspondence to the code

* **`TropicL3`** - `handlers/l3.rs`, with `personality.rs`, `object_store`. `dispatch`
  is the function of the same name: size checks with their two firmware generations, the
  SPECT size error left behind by an earlier command, and one operator per command. A
  configuration register is the set of its zero bits (so AND is union and "granted" is
  "not in the set"); slot maps are partial functions; keys, MACs and data are numbers,
  user data its length.
* **`TropicDevice`** - the promise to applications: `Command` (any session, any
  command), `Boot`, `Restart` on the file, `Reprovision`. The configuration is read at
  boot. A save may be complete, refused, or torn (`SaveOutcomes`): `fs::write` truncates
  first and `load_or_init` refuses what it cannot parse.
* **`TropicChip`** - `chip.rs`, `session.rs`, `bin/tcp_server.rs`. One variable per field
  of `Chip`; `csn_low`, `csn_high`, `Poll`, `RequestHead`, `ClockOut` are the bytes of an
  SPI transaction, cut where the code's behaviour changes; one action per L2 request;
  `EncryptedCmd` is the chunk gathering of `encrypted_cmd` and `RunCommand` its tail
  (decrypt, dispatch, save, encrypt, queue). Every TCP frame is handled under one mutex,
  so the actions are atomic and any order of them is an interleaving of connections.
  Channel keys are a session number; a genuine packet is its keys, nonce and command, and
  hosts may send any packet of any session so far, in any order and as often as they like,
  as well as chunks of no packet at all. `keygen` and `consumed` are history variables.
* **`TropicHost`** - the chip driven by the exchange of the simulator's tests
  (`exchange`, `read_frame`), which is libtropic's, with power loss at any moment.
* **`MCTropicDevice`, `MCTropicChip`, `MCTropicHost`** - the command and request sets of
  the runs.

### Runs

| run | question | bounds |
|---|---|---|
| `tropic_device_config` | pairing keys and configuration: write-once, privileges, permanence of revocation, with torn files | FW 0.1.2; 17 commands on the privilege registers of the commands themselves, so that rights really disappear; slots and addresses on both sides of each limit |
| `tropic_device_memory` | keys, data, counters, MAC-and-Destroy: file currency, usable keys, write-once, privileges, counters | FW 2.2.0; 34 commands with wrong sizes, last slots and first invalid slots; counters up to 2 reach 0 and the forbidden value |
| `tropic_chip_link` | link layer: chunks, state of the channel, order of frames | one session, 2-chunk requests and results, one busy poll, up to 4 queued frames, all L2 requests well and badly formed |
| `tropic_chip_channel` | channel: replays, changes and their answers up to the last nonce; refinement of `TropicDevice` | two sessions, nonces exhausted after 2 packets, a command that changes the configuration in force, one that breaks the pairing, one of a wrong size |
| `tropic_host` | the host always gets its whole answer | 2 busy polls, 3 polls allowed |

`MaxQueue`, `MaxSessions` and `MaxNonce` bound what the code leaves unbounded (or bounds by
2^32): queue growth needs only one replay in front of a partly fetched result; two sessions
are enough for every confusion between an old and a new one; two nonces reach exhaustion
with a packet before it. The link and channel runs split what would be a product: the
first has every request and one command, the second few requests and several commands.

Fairness: `TropicHost` assumes weak fairness of the host's own next step, since a host
program keeps running and the server answers each TCP frame before reading the next. The
chip itself has no spontaneous steps, and power loss is not fair.

Deadlock checking is on in every run.

### A note on a comment

The header of `chip.rs` (line 28) says CHIP_STATUS is 0x03 on the transaction that raised the
alarm. The status byte leaves the chip on the first byte of a transaction, before the request
that raises the alarm is complete, so that transaction shows 0x01 and the next one 0x03; the
unit test expects the latter, and the model has it so.

### Theorems

All for every set of commands and requests, every personality, every bound.

* `TropicL3Proofs!DispatchOk` - whatever the command, a well-formed device stays well
  formed. One lemma per family of handlers (`Insert`, `Remove` and register updates
  preserve the slot maps); the dispatcher is a case split over the command IDs.
* `TropicDeviceProofs!DeviceTypeCorrect` (`DTypeOK`) - by `DispatchOk`; inductive as it
  stands.
* `TropicDeviceProofs!FileIsCurrent` (`SavedUnlessWriteFailed`) - rests on the lemma
  that a command not listed by `mutates_store` returns the device it was given.
* `TropicDeviceProofs!RevocationHolds` (`RevocationIsPermanent`) - rests on the lemma
  that no command removes a zero bit from I-Config.
* `TropicDeviceProofs!OnlyGrantedChanges` (`ChangesAreAllowed`) and `CountersCountDown`
  (`CountersOnlyCountDown`) - one lemma per family of handlers (`PairingIsLawful`,
  `ConfigIsLawful`, `RMemIsLawful`, `EccIsLawful`, `CountersAreLawful`): it overwrites nothing
  that is written once and acts only with the privilege of the session's slot, from any
  well-formed device.
* `TropicDeviceProofs!KeysStayUsable` (`StoredKeysUsable`) - the inductive invariant
  `KeysInv` says the same of the file, from which a restart takes the device.
* `TropicChipProofs!ChannelSafe` (`ChannelClean`, `NoncesInStep`, `NoReplay`; the first alone
  is `ChannelStaysClean`) - the
  inductive invariant adds that the open session is the last one keyed, that no packet of a
  session still to come was consumed, and that every packet consumed in the open session
  has a nonce below the one awaited: without these `NoReplay` is not preserved by a handshake or
  by the acceptance of a packet.
* `TropicChipProofs!OnlyFreshPacketsChange` (`ChangesNeedFreshPacket`) - an action property,
  from the same invariant: of all the steps only `RunCommand` after a decryption, a restart and
  a reprovisioning touch the device.
* `TropicChipProofs!ChangesKeepTheirAnswer` (`ChangesAreAnswered`) - an action property, from the
  channel and the device invariant. The code steps the two nonces separately and closes the session
  when either is exhausted; they are in step, so the response nonce of a command that was accepted
  is not exhausted, and a command that changes the device is neither refused nor left unanswered.
* `TropicChipProofs!ResponsesStayInOrder` (`ResponsesInOrder`) - the inductive invariant
  `QueueInv`: the queue is some copies of the last frame fetched (one for every Resend_Req),
  followed by the rest of one answer, in order, to its last frame. A frame that is fetched is
  then either a copy or the successor of the last one; a request replaces the whole queue.
* `TropicChipProofs!ChipImplementsDevice` (`ImplementsDevice`) - each step of the chip is a
  `Command`, `Boot`, `Restart` or `Reprovision` of `TropicDevice`, or none of its steps. The
  configuration in force maps to the cached one if there is a cache and otherwise to what the
  device would read now. A command cannot change what the next would read, since `RunCommand`
  fills the cache before it dispatches; a command's session has a pairing slot of the device
  (`SlotInv`).
* `TropicHostProofs!ExchangesAreWhole` (`ExchangeIsWhole`) - the inductive invariant `HostInv`:
  from the written request to the end of the exchange the queue is a whole answer
  (`WholeAnswer`: by the host's own rule there is more after every frame but the last), the
  chip's phase fits the byte that the host sends next, and polls done plus busy polls left are
  at most `BusyPolls`. It needs `QueueInv` and the channel invariant for the answers that the
  chip queues, and `MaxPolls > BusyPolls`, which is what a driver's retry limit is for.

Assumptions are those stated with the constants (`Commands \subseteq CommandType` and so
on), which TLC evaluates in every run.

Only model-checked: liveness (`EveryRequestEnds`). `DTypeOK`, `NoncesInStep` and
`ChangesNeedFreshPacket` are proved and are in no run.

## 4. SE050

### Modules and their correspondence to the code

* **`Se050Store`** - `object_store`, `policy.rs`, `applet.rs` and the handlers that write,
  read and delete (`object_mgmt`, `ec`, `rsa`, `aes`, `curve`, `management`). A handler is
  an operator of its name that takes the store and one parsed command and returns the store
  it leaves, the status word and the data, with the checks in the order of the code. The
  store is a record with the fields of `ObjectStore`. `Written` is the shared tail of the
  writing handlers: insert, then record the metadata if the object is new.
* **`Se050Crypto`** - the cryptographic handlers (`ec`, `rsa`, `aes`, `digest`, `mac`,
  `crypto_obj`) and `dispatch.rs`. Results are terms: a block cipher, a hash and a MAC are
  free constructors, and chaining, buffering and counter blocks are modelled as the code does
  them, so that two computations are equal exactly when they process the same data in the
  same way. `Final` takes the context out of the store before anything else, as the code does.
  Where a handler panics (a stored scalar of the wrong length) its status is `Panic`.
* **`Se050Service`** - `ObjectStore::save`, `load`, the mutex of `bin/tcp_server.rs` and the
  admission check of `t1.rs`: `Command` (any command, plain or over a channel), `PutKey`,
  `Restart`, `Crash` (the process dies between the two saves of a creation). A thread that
  panics poisons the mutex (`alive`), after which only a restart helps. A save may be
  complete, refused or torn; its result is ignored and a file that does not parse is no file.
  The hosts hold the lock for a whole command, so commands are atomic and any order of them
  is an interleaving of connections. What a command does to the store is a parameter.
* **`Se050Objects`** - the service with the commands of `dispatch.rs`, and its properties.
* **`Se050Streams`** - the same with a history of what went into every running context and
  what came out (`log`, `last`), so that a streamed result can be compared with the one-shot
  result.
* **`Se050Card`** - `t1.rs`, `scp03/`, `handlers/session.rs` and the connections of
  `bin/tcp_server.rs`. One link per connection: the send sequence number, the pieces of an
  unfinished APDU, the channel (`Idle`, `Pending`, `Active` as in `Scp03State`), the selected
  domain and the chunks still to be sent. `handle_i_frame`, `handle_s_request` and
  `Unanswered` are the frames of `process_frame`; each ends in `Answered`, the server's loop
  that writes one queued frame per frame received. A session is a number whose keys belong to
  whoever holds the key set in force at its INITIALIZE UPDATE; a wrapped APDU verifies at one
  position of the MAC chain of one session. Hosts may deliver any APDU on the wire on any
  connection, any number of times, whole or in two frames, and forge. `executed` is history.
  An INITIALIZE UPDATE comes whole, with a challenge of the wrong length (which drops the channel)
  or as an APDU that does not parse (which is refused before it gets there and keeps it). The
  command counter, 32 bits in the code, is a natural number: it does not wrap in a session; the
  status words with which a malformed PUT KEY is refused are one.
  The store has no file here (`Se050Objects` has it). `ImplementsObjects` instantiates
  `Se050Service` without a file: every frame is one of its `Command`s or `PutKey`s, or none of
  its steps. The constants `OverChannel`
  and `InPlain` say which commands hosts send over a channel and which without; the run keeps
  them apart, so that a plain command let through under the SCP requirement is no abstract step.
* **`MCSe050Objects`, `MCSe050Streams`, `MCSe050Card`** - the commands of the runs.

Identifiers are model values and `NoId` stands for a missing or malformed TLV; an optional
value is a set with at most one element; secrets are a length and an opaque value; a policy
is the sequence of its entries, each a set of permissions.

### Runs

| run | question | bounds |
|---|---|---|
| `se050_policy` | can a policy be left behind, replaced or bypassed by a write or a delete? | 45 commands on two identifiers with four policies (one malformed, one empty), every object type but RSA, lenient ECDH; torn files, crashes inside creations, a panic |
| `se050_lifecycle` | counters, staged RSA imports, curves, reset, the SCP requirement and the file | 49 commands; counters of 1 and 2 bytes of four values, so that they wrap and hold values wider than they are; components of two RSA keys in one object; curves on both sides of the limit of 17; strict ECDH |
| `se050_streams` | is a streamed result the one-shot result? | one cipher object in each of the three modes beside a digest or MAC object, up to 5 bytes per context in blocks of 2 (two full blocks and a rest), both directions, the key replaced or deleted underneath |
| `se050_card` | does the link and the channel in front of the store keep what they promise, and implement `Se050Objects`? | two connections, one of a host that splits, repeats, mixes and abandons frames, one of a host that reads its answers to the end; two sessions, two wrapped commands, a long and a body-less answer, two security levels, a rotation of the keys, the SCP requirement; applet 7.2 |
| `se050_creation` | does a created object always have its metadata? (violated, see below) | as `se050_policy` |

Two identifiers are enough because every handler touches the object it names and at most one
other (the target of ECDH); a byte of four values and a block of two bytes keep every case of
wrapping and of cutting off the block boundary. The streams run has no file, since crypto
objects are not saved. Deadlock checking is on in every run.

### A disagreement between comment and code

`se050_creation` - metadata is "attached when a secure object is created", but the object
is saved before its metadata. A process that ends in between comes back with an object
that allows everything and can never be given a policy.

### Notes on what the model shows

The properties are stated around these behaviours of the code, which the model has and no run
singles out:

* `policy_allows` is documented with "Once a policy is attached, an omitted permission is a
  denial", but `handle_ecdh` never asks it about its target: an HMAC key without WRITE gets a
  new value (an exception of `PolicyIsEnforced`).
* A comment in `rsa.rs` says that a missing WRITE denies a replacement once "a public-only N+E
  set is complete". The key part of the arriving command decides what complete means, so a
  key-pair component command still replaces the modulus (the other exception).
* On the SE052F a public-only RSA key can be imported in two commands, each of which passes
  the check; the first use of a private key of the wrong length panics, and poisons the mutex.
* The counter rules of legacy SCP03 (applet 3.1.1) in `advance_counter` are wider than the
  comments at `scp03/mod.rs` 102-105 and 395-399. `Se050Card` has them, but the run is of
  applet 7.2, and `ResponseIcvFresh` is stated for applets newer than 3.1.1 only.
* The SCP requirement is "Persisted, matching the boot-persistent flag on real silicon"
  (`object_store/mod.rs` 80-81). A write that stops halfway is ignored and a file that does not
  parse is read as no file, so after an interrupted save and a restart the card takes plain
  commands: `Se050Lifecycle.cfg` with "torn" among the `SaveOutcomes` violates `ScpRequiredSticks`
  after three steps. The property is checked, and proved, for saves that succeed.
* A reset (`handle_s_request`) clears the responder; the chunks queued by the server for the
  connection survive it. A host that reads its answers to the end never meets one
  (`PoliteHostInStep`); one that resets in the middle of an answer does.
* `iseq_rcv` only numbers acknowledgements and log lines, so the model does not keep it.
  `iseq_snd` only numbers the answers: it is kept for the hosts that read answers to the end,
  and the frames for the other one all have the number 0.
  Chained commands are wrapped ones; a chain that lacks its first half is one of the outcomes
  its bytes can give (`garbled`).

### Theorems

`Se050ObjectsProofs`, for every set of commands, every applet generation, every size of a
byte and a block and every outcome of a save:

* `StoreTypeCorrect` (`OTypeOK`), `NoOrphans` (`NoOrphanMetadata`) and `MetadataSafe`
  (`MetadataIsImmutable`) - from the inductive invariant `IInv`: the store in memory and the
  one in the file are well formed and have no orphaned metadata. The file has to be in it
  because a restart or a crash takes the next store from there, and the step of a creation
  has to be known to remove no object, because the store between its two saves (new object,
  old metadata) may become the file.
* `PolicyHolds` (`PolicyIsEnforced`) - every handler changes at most the object it names
  (`OnlyWrites`), and each one looks at the policy before it does; the two exceptions of the
  property are the two ways around that check.
* `FileFollowsStore` (`FileIsCurrent`) - every handler that changes a saved field ends in a
  save, and a handler that fails, or is not among those, changes at most the crypto objects.
* `ScpRequirementHolds` (`ScpRequiredSticks`) - under the assumption that the store has a
  file and that writing it works, which is necessary: a torn file loses the requirement.
* `CountersStepByOne` (`CountersCount`) - `CountersInv`: every counter, in memory and in the
  file, has a number as its value and a size of one to eight bytes. A counter may hold more than
  its size can show, so the proof is about remainders: what a reader sees of the successor is
  the successor of what he sees (`SuccessorSeen`), and the cut to eight bytes does not reach it.
* `CurvesKeep` (`CurvesKeepParameters`) - what a handler does to the curve table.
* `MetadataComplete` (`ObjectsHaveMetadata`) - under the assumptions that the process does not
  die between the two saves of a creation and that no write is refused. `se050_creation` shows
  that the first is necessary; a torn file does no harm, because it is read as no file.
* `ContextsBelong` (`ContextsMatchCryptoObjects`) - `ContextsOk`: the kinds and algorithms of
  contexts and crypto objects agree, both tables are empty after a load, and deleting a crypto
  object takes its context with it.
* `CiphersLoseNothing` (`NothingLostInCipher`) - `StreamsInv`: there is an entry of the history
  for every running context, and it accounts for what is pending (`Accounted`). Every handler
  drops contexts, starts one with nothing pending, or continues one (`Drops`, `Starts`,
  `Continues`); in the last case the whole blocks of what was pending and what arrives come out.
* `StreamsAreOneShot` (`StreamIsOneShot`) - for inputs of every length. `OneShotInv`: a running
  digest or MAC has gathered exactly what the history says was fed; a running cipher is in step
  with one pass over it (`Tracks`, `InStep`), that is, the pass over the whole blocks so far ends
  in the context's chain value and gives the blocks that came out; and unless the history has
  noted a change, the key is still the one of the store (`SameKey`). Cipher and chain are
  recursive functions, so there are lemmas by induction on the number of blocks: a pass over
  two parts is the pass over the first followed by the pass over the second from where the first
  ended, in every mode and direction. The last, partial block is the Final's own.

The argument goes from the handlers up: `OneShotsKeepStore` and `ReadsKeepStore` (the store
is returned as it was), `ContextsAreVolatile` (only crypto objects change), `WritesAreOk`,
`EcdhIsOk`, `DeleteIsOk`, `CurvesAreOk`, `DeleteAllIsOk`, `SetPlatformScpIsOk`, and
`DispatchOk`, the case split over the command names. Assumptions, besides those on applet, byte
and block: counters are written with numbers (`CounterAssumption`), what is fed into a context is
a string of bytes (`DataAssumption`), and more bytes hold more values (`WidthAssumption`, a fact
of arithmetic that the provers lack, since they know nothing of exponentiation).

`Se050CardProofs`, for every number of connections and sessions, every set of commands and every
applet, under `CardAssumption`:

* `ChainIsOrder` (`WrappedOnceInOrder`) and `VectorsAreFresh` (`ResponseIcvFresh`) - from
  `ChainInv`: the chain position of an open channel is one more than the number of commands
  executed in its session, no session is open on two connections, what is left of an APDU in a
  link came from the wire, and each executed command was at its position of the chain with
  that position as its vector. Without the second part a command could be accepted on each of
  two connections.
* `RotationNeedsKeys` (`RotationNeedsKeysInForce`) - an action property from the same invariant.
* `PoliteHosts` (`PoliteHostInStep`) - `PoliteInv`: between two answers nothing is queued and the
  next number is the card's; in the middle of one exactly its second frame is queued.
* `CardImplementsObjects` (`ImplementsObjects`) - each frame is a command of the service, a
  rotation or neither, by cases of `process_apdu` (`ProcessServes`); what hosts wrap are commands
  of `OverChannel` (`WireInv`).

Proved and in no run: `OTypeOK`. Every safety property of the runs is proved.

## 5. ATECC608 and STSAFE-A120

### Modules and their correspondence to the code

* **`DeviceServer`** - what the two `bin/tcp_server.rs` and `object_store/mod.rs` have in
  common: a thread and a volatile session per connection, the device behind a mutex, and the
  file. A command of a chip is an outcome (device, session, answer) that ends in one of three
  ways: `Answered` (saved, then answered), `Unsaved` (the save fails, the connection ends, the
  device in memory keeps the change, the file is the old one or torn) and `DiesSaving`.
  The STSAFE server releases the lock before it writes the answer to the socket, so `Answered`
  stands for the order in which commands are executed, not for that in which answers arrive.
  `Crash`, `StartFresh` (no file), `Load`, `Create` and the connections are the rest. `known`
  is the device at the last answer, a history variable.
* **`Atecc608`** - `dispatch.rs`, `session.rs`, `handlers/`. One operator per handler, with
  its checks in order; memory in words of four bytes, with a slot and an OTP zone of a few
  words; the lock bytes of the config zone are their meaning: `lock.rs` sets them, and
  `write_config`, which refuses everything once the zone is locked, writes them like any other
  byte before. A slot has a usable key only when all its words make a scalar, also
  when a host wrote it word by word. Wake and idle do nothing, sleep is `volatile_reset`.
  The simulator ships locked; the run also starts from a prepared unlocked store file.
* **`StsafeA120`** - `dispatch.rs`, `frame.rs`, `handlers/`. Keys are numbered in the order
  they are drawn; sealed and extended commands are refused as the code does.
* **`SecureElements`** - either binary, chosen in the initial state.

### Run

`secure_elements`: two hosts (symmetric), two slots, one generated key beside those that hosts
write, for the ATECC608; three keys and the two slots 0 and 0xFF for the STSAFE. Every save may
succeed, fail or be torn, and the process may end at any point. It shows that

* TempKey and the SHA stream of a connection are what its own host put there (`SessionIsOwn`);
* a sealed slot answers with one key for good (`SealedKeyIsOne`), and locks that were in force
  at an answer are in force at every later one (`AnsweredLocksLast`) - the order "save, then
  answer" is what makes both true, and a server that found its file torn does not start;
* answers about a lasting STSAFE slot, that is any but 0xFF, never go back to an older key
  (`KeysNeverRevert`) and a file has one identity (`IdentityIsOne`).

The ephemeral slot is an exception because comment and code disagree about it. `session.rs` of the
STSAFE (24-29) calls the ephemeral key "Per-connection volatile state" that later `Establish Key`
calls against slot 0xFF use; under that statement two connections that take turns would make the
answers about slot 0xFF go back. The code never fills the field of the session: `keypair.rs` (71)
puts the key into slot 0xFF of the shared, saved device, and after two connections drew one in turn
the first establishes its key with that of the second. The model has what the code does, and no
property takes either side.

Deadlock checking is on: a server whose file is torn can still be started without a file.

### Theorems

`SecureElementsProofs`, for any number of hosts, slots, keys and words, and every packet:

* `SealedKeys` (`SealedKeyIsOne`) and `LocksLast` (`AnsweredLocksLast`, an action property) - from
  `AteccDeviceInv`: a saved file and, while a server with a file runs, the device keep the locks
  and sealed keys of the last answer (`Kept`), and every answer about a sealed slot was about
  the key it had in the last answer. One lemma per handler says that it keeps what is locked.
  The file is in the invariant because a restart takes the device from it, and a torn one is not
  among the files that can be loaded.
* `SessionsAreOwn` (`SessionIsOwn`) - `SessionInv`: an open session holds what its host loaded,
  and a closed one nothing, so that the next host of that connection starts empty.
* `NoOlderKeys` (`KeysNeverRevert`, an action property) and `OneIdentity` (`IdentityIsOne`) - from
  `StsafeDeviceInv`: the file and the device are later states of the device of the last answer,
  whose keys are no older than any that was shown and whose serial number is the only one shown.

Assumptions: the constants are numbers of a sensible size, prepared store files hold devices and
a packet's lock bytes are lock bytes (`InputsAssumption`). Every property of the run is proved.

## 6. Crypto peripherals of the STM32 and the PIC32MZ

### Modules and their correspondence to the code

The drivers are in wolfSSL and not in the repository; they are modelled from the register
protocol that the simulators' comments and tests describe, and marked external.

* **`Pic32Crypto`** - `ce/mod.rs`, `ce/polling.rs`, `ce/bd.rs`, `ce/algo.rs` and the tick
  registry of `core/src/peripheral.rs`. `WriteCecon` is the write of CECON with its atomic lanes:
  `Swrst`, `arm` (a stream) or `start` (a chain that has run when the write returns). `Tick` is
  one call of the block hook: every registered callback sweeps its chain. A message is the
  sequence of the positions of its bytes, so that a digest shows which bytes were hashed and
  in which order. The firmware lays out descriptors, fills them while the engine sweeps, and
  may leave or reset at any point. Its security associations, sources and results lie in mapped
  memory, so the errors of `process_bd` for others are not there; those of the descriptors are.
* **`Stm32Hash`** - `hash/mod.rs` and `hash/v1.rs`: the hasher and the HMAC phases, the
  look-ahead word, DCAL with NBLW, the single snapshot, and the guess of `write_cr` between a
  new digest and a context being loaded. The driver keeps several contexts and loads, feeds,
  saves, reads, finishes or frees them, one operation at a time under its hardware mutex.
* **`Stm32Cryp`** - `cryp/mod.rs`, `cryp/gcm.rs` and the two register layouts `v1.rs` and
  `v2.rs`. The engine has copies of the configuration, the key and the IV; `commit_config`,
  `write_key` and `write_iv` are when they are refreshed. AES and GHASH are free terms, so that
  two outputs are equal exactly when they were computed in the same way. CR may be written at
  any time, also with the same algorithm, with FFLUSH, or with an algorithm that the simulator
  takes for ECB; keys and IVs before or after enabling, but before the data. The last block of
  the header and of the payload of a GCM message may be padded, and the length block of the driver
  (`LengthBlock`) does not count the padding. The counters of CTR (128 bits) and GCM (32 bits) are
  one operator, as they differ after 2^32 blocks only.
* **`CryptoPeripherals`** - one of the three, chosen in the initial state; they share nothing.

### Run

`crypto_peripherals`. PIC32MZ: three descriptors with buffers of two bytes; streams that wrap
the ring, are empty, end in padding, are refused, loop on one descriptor, leave the memory or
have no address; chains of every kind of algorithm, and broken ones; three registrations.
STM32 HASH: two contexts, two algorithms, plain and HMAC, two full words and a tail of none or
three bytes. STM32 AES: blocks of two words, four words per job, three blocks in the hash of
GCM, padding of no or one word, the key sizes 128, 192 and 256. Three registrations are one more than a stale callback
needs; two contexts are enough to confuse one with another; two blocks show every chaining.
It shows that

* a stream digests exactly its message (`DigestIsMessage`), a chain started after a reset is
  undisturbed by a callback of an earlier stream (`SingleUndisturbed`), and a supported stream
  goes on (`StreamProgress`);
* a context that is alone on the peripheral gets its own digest, however often it is saved,
  loaded and read, and whatever came before (`DigestIsOwn`);
* the engine of the AES peripheral computes with what the registers say, in any order of the
  writes (`EngineInStep`), and gives what the mode of operation defines, with nothing left of
  an earlier job (`OutputIsReference`); a tag takes the driver's lengths, and nothing is said of the tag of a message with a padded
  block (see the notes below).

Fairness: weak fairness of `Tick`, since the block hook runs at every translation block as long
as the processor executes anything, also the loop in which the firmware polls. Nothing is
assumed of the firmware. Deadlock checking is on.

### Theorems

`CryptoPeripheralsProofs`:

* `EngineFollowsRegisters` (`EngineInStep`) - for every set of register values, keys and IVs and
  every block size. `CrypInv` adds that the FIFO holds no more words than were fed and that the
  engine's IV is the register's until the first block is complete, since nothing but a processed
  block may move it. It also says that only v1 gets stuck in GCM.
* `OutputsAreReference` (`OutputIsReference`) - for every block size, every length of a message
  and every order of the writes, in ECB, CBC, CTR and GCM (a tag if no block is padded). `OutInv` adds to `CrypInv` what the
  engine has gathered: after `n` whole blocks and `r` words, the FIFO holds exactly these `r`
  words (`Fifo`, `Gathered`), the IV is the one that the mode has after `n` blocks (`IvAfter`),
  and a block that waits is that of block `n` (`IsOut`). Words in order, with none left of an
  earlier job, is what a flush, a disable and a change of the algorithm must keep. The reference
  of CBC is a recursive function; the invariant carries that a chain of `n` blocks exists and
  that every one ends in the engine's IV (`Chained`), and one more block extends both, so no
  induction over the message is needed. For GCM the engine has the key, J0, the counter, the
  hashed blocks and the lengths of the message that the driver is in (`MessageOk`), also while
  another mode is used between two phases.
* `DigestsAreOwn` (`DigestIsOwn`) - for any number of contexts and messages of every length.
  `HashInv`: for a context that is alone the peripheral's snapshot is that context - the
  hasher with exactly the words fed so far behind the key, the look-ahead word, the HMAC phase
  (`Snapshot`) - and with no context in use the next CR is not taken for a load (`Ready`).
  Without the latter, a new context might restore what an earlier one left.

* `ChainsAreUndisturbed` (`SingleUndisturbed`) - for any number of descriptors, registrations and
  callbacks. `EngineInv`: at most one registered callback is live, the one that `polling` names
  (`EngineOk`), and whenever the firmware may rely on the engine - after a reset, or after work
  that ended well - that stream has completed and ERROP is clear (`Quiet`, in `IdleOk`,
  `StreamOk`, `SingleOk`). A completed stream sweeps nothing, so a tick leaves the descriptors
  alone. What the firmware knows of a stream that it left must be in the invariant: the last
  descriptor it gave out is disabled only by the sweep that completes the stream.
* `DigestsAreMessages` (`DigestIsMessage`) - for messages of every length and ticks at any
  moment of the filling. `StreamInv` adds what waits along the chain. As long as the firmware
  has not enabled a descriptor in front of one that waits, there is a function `H` on the
  positions of the chain, from the number of bytes hashed to the number of bytes handed out,
  such that an enabled descriptor holds exactly the bytes from `H[i-1]` to `H[i]` and a disabled
  one none (`Backlog`). A sweep goes along the chain and moves the hashed bytes to where it
  stops: at the end, at the last descriptor of the message, or at a first one that is refused,
  where the stream stays (`InChain`). That the
  firmware never fills a descriptor that the sweep cannot reach is `Closed`: the chain has no
  descriptor twice, so one that is followed as far as there are descriptors contains its own
  successors, by counting. A chain without the first descriptor never begins (`OutOfChain`).

The sweeps, the search for the end of a chain and the rounds of a tick are loops; each is a
recursive function or a fold, of which lemmas say what it is after every step, by induction.

Assumptions: a block has words and the enable bit is a bit (`CrypAssumption`); the engine's sizes
are positive (`EngineConstants`); and of the firmware (`FirmwareConstants`), that its sizes and
addresses are numbers and that a ring has no more descriptors than a stream follows. The last is
needed: `collect_chain` stops after eight descriptors (`polling.rs`), and the firmware would
otherwise fill one that no sweep ever looks at and go on to the next. The ring of wolfSSL's driver
is shorter. Only model-checked: `StreamProgress`.

### Notes on what the model shows

The properties are stated around these behaviours of the code:

* PIC32MZ: a tick goes by the chain and not by age. When the ring has wrapped and a descriptor
  is enabled while one later in the chain still waits, the digest has the bytes in the wrong
  order (`fw.inverted`). Whether that can happen depends on translation blocks: the driver
  waits between two descriptors, which gives the hook time.
* PIC32MZ: the HMAC bit is refused in a stream and ignored in a chain that runs at once, which
  hashes the message alone; ERROP stays set until a reset; the end of a stream raises no
  interrupt. The CLR and INV lanes of CECON are in the model and not in the firmware's script,
  and ciphers are given a message no longer than their buffer.
* STM32 HASH: there is one snapshot. With two contexts in progress the one that is loaded gets
  the snapshot of the one saved last, and a new context that begins after one was given up may
  load what was left. `DigestIsOwn` excludes both.
* STM32 AES: `gcm.rs` (29-33) says that in FINAL "software pushes a 16-byte length block; reads
  tag", and that "the same firmware register sequence yields the same tag". `finalise` (137-147)
  drops the length block and hashes the engine's own count of whole blocks, so a message whose last
  block of header or payload is padded gets another tag than GCM and the hardware give. `RefTag` has
  the lengths of the driver, so `OutputIsReference` without its exception for padded messages is
  violated. v1 that leaves GCM while enabled stays in GCM
  (`job.stuck`). v2 does not raise CCF after the INIT and HEADER phases.

## 7. Not modelled

* Cryptographic primitives, CRC, APDU and TLV encodings, JSON, certificate contents, log output
  and the C conformance and SDK test programs: they have no state of their own that the
  properties could speak of.
* The PKA of the STM32: one START computes one result from a window of RAM within the register
  write. There is no state between two commands but that window, and what is computed is
  arithmetic on big numbers and curves, which the modules would have to take as uninterpreted.
* CPU, bus, chip tables and runners: they wrap the Unicorn emulator. The UART, RNG, RCC and
  debug registers return a constant, a random word or what was written.

Only model-checked: liveness (`EveryRequestEnds`, `StreamProgress`), which is out of reach of the
proofs, as the provers have no rule for fairness. Everything else that a passing run checks has a
theorem.

Induction over data. The induction theorems of the library take an operator, which the provers
cannot instantiate; the proofs use the one about minimal elements of a well-founded relation
instead (`WFMin`), whose parameter is a set. From it follows the lemma `Induction`: a set that
has 0 and with every number the next has them all. Loops and recursive functions are then handled
through the function of their values after each step, of which a claim is a set of numbers.
