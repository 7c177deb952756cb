------------------------- MODULE SecureElementsProofs -------------------------
(***************************************************************************)
(* Theorems about the ATECC608 and the STSAFE-A120 behind their server,    *)
(* for every number of connections, every set of commands and every number *)
(* of keys.                                                                *)
(***************************************************************************)
EXTENDS SecureElements, FiniteSetTheorems, TLAPS

-----------------------------------------------------------------------------
(***************************************************************************)
(* The handlers of the ATECC608.                                           *)
(***************************************************************************)
\* What later commands keep of a device whose state a host has seen: the locks once the config
\* zone is locked, and the contents of a sealed slot.
Kept(d, e) ==
    /\ IsDevice(e)
    /\ config_locked(d) => config_locked(e) /\ Locks(d) \subseteq Locks(e)
    /\ \A s \in Slots : Sealed(d, s) => Sealed(e, s) /\ e.slots[s] = d.slots[s]

\* A device keeps its own state.
LEMMA KeptReflexive == ASSUME NEW d, IsDevice(d) PROVE Kept(d, d)
BY DEF Kept

\* What is kept of a device is kept for good.
LEMMA KeptTransitive ==
    ASSUME NEW d, NEW e, NEW f, Kept(d, e), Kept(e, f)
    PROVE  Kept(d, f)
BY DEF Kept

\* A write to the config zone, which must be unlocked, leaves a device.
LEMMA WriteConfigKeeps ==
    ASSUME NEW d, IsDevice(d), NEW cmd \in Packets, ~config_locked(d)
    PROVE  Kept(d, write_config(d, cmd))
<1> DEFINE e == write_config(d, cmd)
<1>1. IsDevice(e)
  BY InputsAssumption DEF IsDevice, write_config
<1> QED
  BY <1>1 DEF Kept, Sealed

\* A slot that is not sealed may change.
LEMMA SlotWriteKeeps ==
    ASSUME NEW d, IsDevice(d), NEW s \in Slots, NEW words, ~Sealed(d, s)
    PROVE  Kept(d, [d EXCEPT !.slots[s] = words])
<1> DEFINE e == [d EXCEPT !.slots[s] = words]
<1>1. /\ e.config = d.config /\ e.otp = d.otp
      /\ e.slots = [d.slots EXCEPT ![s] = words]
      /\ e = [config |-> e.config, otp |-> e.otp, slots |-> e.slots]
  BY DEF IsDevice
<1> HIDE DEF e
<1>2. IsDevice(e)
  BY <1>1 DEF IsDevice
<1> QED
  BY <1>1, <1>2 DEF Kept, Sealed, Locks, IsDevice, config_locked, data_locked, slot_locked, e

\* Write keeps the locks and the sealed slots.
LEMMA WriteKeeps ==
    ASSUME NEW d, IsDevice(d), NEW se, NEW cmd \in Packets
    PROVE  Kept(d, handle_write(d, se, cmd).device)
<1>1. Kept(d, Fail(d, se, "PARSE_ERROR").device) /\ Kept(d, Fail(d, se, "EXECUTION_ERROR").device)
  BY KeptReflexive DEF Fail, Out
<1>2. \A e : Done(e, se).device = e
  BY DEF Done, Out
<1>3. CASE cmd.zone = "config" /\ ~config_locked(d)
  BY <1>1, <1>2, <1>3, WriteConfigKeeps DEF handle_write
<1>4. CASE cmd.zone = "otp" /\ ~data_locked(d)
  <2> DEFINE e == [d EXCEPT !.otp = Overlay(@, Offset(cmd), cmd.data)]
  <2>1. /\ e.config = d.config /\ e.slots = d.slots
        /\ e = [config |-> e.config, otp |-> e.otp, slots |-> e.slots]
    BY DEF IsDevice
  <2> HIDE DEF e
  <2>2. Kept(d, e)
    BY <2>1 DEF Kept, IsDevice, Sealed, Locks, config_locked, data_locked, slot_locked
  <2> QED
    BY <1>1, <1>2, <1>4, <2>2 DEF handle_write, e
<1>5. CASE cmd.zone = "data" /\ cmd.slot \in Slots /\ ~(data_locked(d) /\ slot_locked(d, cmd.slot))
  <2>1. Kept(d, [d EXCEPT !.slots[cmd.slot] = Overlay(@, Offset(cmd), cmd.data)])
    BY <1>5, SlotWriteKeeps DEF Sealed
  <2> QED
    BY <1>1, <1>2, <1>5, <2>1 DEF handle_write
<1> QED
  BY <1>1, <1>3, <1>4, <1>5 DEF handle_write

\* A device with the same slots and more locks.
LEMMA LockAdded ==
    ASSUME NEW d, IsDevice(d), NEW e, e.slots = d.slots,
           e = [config |-> e.config, otp |-> e.otp, slots |-> e.slots],
           e.config = [lock |-> e.config.lock, slots |-> e.config.slots, rest |-> e.config.rest],
           e.config.lock \in [config : BOOLEAN, data : BOOLEAN],
           \A z \in {"config", "data"} : d.config.lock[z] => e.config.lock[z],
           d.config.slots \subseteq e.config.slots
    PROVE  Kept(d, e)
<1>1. IsDevice(e)
  BY DEF IsDevice
<1>2. Locks(d) \subseteq Locks(e)
  BY DEF Locks
<1>3. /\ config_locked(d) => config_locked(e)
      /\ \A s : Sealed(d, s) => Sealed(e, s)
  BY DEF Sealed, config_locked, data_locked, slot_locked
<1> QED
  BY <1>1, <1>2, <1>3 DEF Kept

\* Replacing a part of a device.
LEMMA Replaced ==
    ASSUME NEW d, IsDevice(d)
    PROVE  /\ \A x : [d EXCEPT !.config = x] = [config |-> x, otp |-> d.otp, slots |-> d.slots]
           /\ \A x : [d.config EXCEPT !.lock = x] =
                     [lock |-> x, slots |-> d.config.slots, rest |-> d.config.rest]
           /\ \A x : [d.config EXCEPT !.slots = x] =
                     [lock |-> d.config.lock, slots |-> x, rest |-> d.config.rest]
           /\ \A x : [d.config.lock EXCEPT !.config = x] = [config |-> x, data |-> d.config.lock.data]
           /\ \A x : [d.config.lock EXCEPT !.data = x] = [config |-> d.config.lock.config, data |-> x]
<1> DEFINE g == d.config
           l == d.config.lock
<1>1. /\ d = [config |-> g, otp |-> d.otp, slots |-> d.slots]
      /\ g = [lock |-> l, slots |-> g.slots, rest |-> g.rest]
      /\ l \in [config : BOOLEAN, data : BOOLEAN]
  BY DEF IsDevice
<1>2. \A x : [d EXCEPT !.config = x] = [config |-> x, otp |-> d.otp, slots |-> d.slots]
  BY <1>1
<1> HIDE DEF g
<1>3. /\ \A x : [g EXCEPT !.lock = x] = [lock |-> x, slots |-> g.slots, rest |-> g.rest]
      /\ \A x : [g EXCEPT !.slots = x] = [lock |-> l, slots |-> x, rest |-> g.rest]
  BY <1>1
<1> HIDE DEF l
<1>4. /\ \A x : [l EXCEPT !.config = x] = [config |-> x, data |-> l.data]
      /\ \A x : [l EXCEPT !.data = x] = [config |-> l.config, data |-> x]
  BY <1>1
<1> QED
  BY <1>2, <1>3, <1>4 DEF g, l

\* Lock only adds a lock.
LEMMA LockKeeps ==
    ASSUME NEW d, IsDevice(d), NEW se, NEW cmd
    PROVE  Kept(d, handle_lock(d, se, cmd).device)
<1>1. Kept(d, Fail(d, se, "PARSE_ERROR").device) /\ Kept(d, Fail(d, se, "EXECUTION_ERROR").device)
  BY KeptReflexive DEF Fail, Out
<1>2. \A e : Done(e, se).device = e
  BY DEF Done, Out
<1>3. \A x : [d EXCEPT !.config = x] = [config |-> x, otp |-> d.otp, slots |-> d.slots]
  BY Replaced
<1>4. \A x : [d.config EXCEPT !.lock = x] =
               [lock |-> x, slots |-> d.config.slots, rest |-> d.config.rest]
  BY Replaced
<1>5. Kept(d, [d EXCEPT !.config.lock.config = TRUE])
  <2> DEFINE l == [config |-> TRUE, data |-> d.config.lock.data]
             g == [lock |-> l, slots |-> d.config.slots, rest |-> d.config.rest]
             e == [config |-> g, otp |-> d.otp, slots |-> d.slots]
  <2>1. [d.config.lock EXCEPT !.config = TRUE] = l
    BY Replaced
  <2>2. [d.config EXCEPT !.lock.config = TRUE] = g
    BY <2>1, <1>4
  <2>3. [d EXCEPT !.config.lock.config = TRUE] = e
    BY <2>1, <2>2, <1>3
  <2>4. /\ e.config = g /\ e.otp = d.otp /\ e.slots = d.slots
        /\ g.lock = l /\ g.slots = d.config.slots /\ g.rest = d.config.rest
    OBVIOUS
  <2>5. /\ l \in [config : BOOLEAN, data : BOOLEAN]
        /\ \A z \in {"config", "data"} : d.config.lock[z] => l[z]
    BY DEF IsDevice
  <2> HIDE DEF e, g, l
  <2>6. e = [config |-> e.config, otp |-> e.otp, slots |-> e.slots]
    BY <2>4 DEF e
  <2>7. e.config = [lock |-> e.config.lock, slots |-> e.config.slots, rest |-> e.config.rest]
    BY <2>4 DEF g
  <2>8. Kept(d, e)
    BY <2>4, <2>5, <2>6, <2>7, LockAdded
  <2> QED
    BY <2>3, <2>8
<1>6. Kept(d, [d EXCEPT !.config.lock.data = TRUE])
  <2> DEFINE l == [config |-> d.config.lock.config, data |-> TRUE]
             g == [lock |-> l, slots |-> d.config.slots, rest |-> d.config.rest]
             e == [config |-> g, otp |-> d.otp, slots |-> d.slots]
  <2>1. [d.config.lock EXCEPT !.data = TRUE] = l
    BY Replaced
  <2>2. [d.config EXCEPT !.lock.data = TRUE] = g
    BY <2>1, <1>4
  <2>3. [d EXCEPT !.config.lock.data = TRUE] = e
    BY <2>1, <2>2, <1>3
  <2>4. /\ e.config = g /\ e.otp = d.otp /\ e.slots = d.slots
        /\ g.lock = l /\ g.slots = d.config.slots /\ g.rest = d.config.rest
    OBVIOUS
  <2>5. /\ l \in [config : BOOLEAN, data : BOOLEAN]
        /\ \A z \in {"config", "data"} : d.config.lock[z] => l[z]
    BY DEF IsDevice
  <2> HIDE DEF e, g, l
  <2>6. e = [config |-> e.config, otp |-> e.otp, slots |-> e.slots]
    BY <2>4 DEF e
  <2>7. e.config = [lock |-> e.config.lock, slots |-> e.config.slots, rest |-> e.config.rest]
    BY <2>4 DEF g
  <2>8. Kept(d, e)
    BY <2>4, <2>5, <2>6, <2>7, LockAdded
  <2> QED
    BY <2>3, <2>8
<1>7. Kept(d, [d EXCEPT !.config.slots = @ \cup {cmd.slot}])
  <2> DEFINE l == d.config.lock
             g == [lock |-> l, slots |-> (d.config.slots \cup {cmd.slot}), rest |-> d.config.rest]
             e == [config |-> g, otp |-> d.otp, slots |-> d.slots]
  <2>1. [d.config EXCEPT !.slots = @ \cup {cmd.slot}] = g
    BY Replaced
  <2>2. [d EXCEPT !.config = g] = e
    BY <2>1, Replaced
  <2>3. [d EXCEPT !.config.slots = @ \cup {cmd.slot}] = e
    BY <2>1, <2>2, Replaced
  <2>4. /\ e.config = g /\ e.otp = d.otp /\ e.slots = d.slots
        /\ g.lock = l /\ g.slots = (d.config.slots \cup {cmd.slot}) /\ g.rest = d.config.rest
    OBVIOUS
  <2>5. /\ l \in [config : BOOLEAN, data : BOOLEAN]
        /\ \A z \in {"config", "data"} : d.config.lock[z] => l[z]
    BY DEF IsDevice
  <2> HIDE DEF e, g, l
  <2>6. e = [config |-> e.config, otp |-> e.otp, slots |-> e.slots]
    BY <2>4 DEF e
  <2>7. e.config = [lock |-> e.config.lock, slots |-> e.config.slots, rest |-> e.config.rest]
    BY <2>4 DEF g
  <2>8. Kept(d, e)
    BY <2>4, <2>5, <2>6, <2>7, LockAdded
  <2> QED
    BY <2>3, <2>8
<1> QED
  BY <1>1, <1>2, <1>5, <1>6, <1>7 DEF handle_lock

\* GenKey replaces the key of an unlocked slot only.
LEMMA GenKeyKeeps ==
    ASSUME NEW d, IsDevice(d), NEW se, NEW cmd
    PROVE  Kept(d, handle_genkey(d, se, cmd).device)
<1>1. Kept(d, Fail(d, se, "PARSE_ERROR").device) /\ Kept(d, Fail(d, se, "EXECUTION_ERROR").device)
  BY KeptReflexive DEF Fail, Out
<1>2. \A e, b : Out(e, se, "SUCCESS", b).device = e
  BY DEF Out
<1>3. CASE cmd.slot \in Slots /\ cmd.mode = 4 /\ ~slot_locked(d, cmd.slot)
  <2>1. Kept(d, [d EXCEPT !.slots[cmd.slot] = Overlay(@, 0, RandomKey(minted))])
    BY <1>3, SlotWriteKeeps DEF Sealed
  <2> QED
    BY <1>2, <1>3, <2>1 DEF handle_genkey
<1>4. Kept(d, d)
  BY KeptReflexive
<1> QED
  BY <1>1, <1>2, <1>3, <1>4 DEF handle_genkey

\* The handlers of the session and of the keys return the device they were given.
LEMMA OthersKeepDevice ==
    ASSUME NEW d, NEW se, NEW cmd
    PROVE  /\ handle_read(d, se, cmd).device = d /\ handle_nonce(d, se, cmd).device = d
           /\ handle_sign(d, se, cmd).device = d /\ handle_verify(d, se, cmd).device = d
           /\ handle_ecdh(d, se, cmd).device = d /\ handle_sha(d, se, cmd).device = d
           /\ handle_info(d, se, cmd).device = d
<1>1. /\ \A x, y, z : Out(d, x, y, z).device = d
      /\ \A x, y : Fail(d, x, y).device = d
      /\ \A x : Done(d, x).device = d
  BY DEF Out, Fail, Done
<1> QED
  BY <1>1 DEF handle_read, handle_nonce, handle_sign, handle_verify, handle_ecdh, handle_sha,
              handle_info

\* No command gives up what is kept of a device.
LEMMA DispatchKeeps ==
    ASSUME NEW d, IsDevice(d), NEW se, NEW cmd \in Packets
    PROVE  Kept(d, dispatch(d, se, cmd).device)
<1>1. Kept(d, d)
  BY KeptReflexive
<1>2. /\ \A x : Fail(d, se, x).device = d
      /\ Done(d, se).device = d
  BY DEF Out, Fail, Done
<1> QED
  BY <1>1, <1>2, WriteKeeps, LockKeeps, GenKeyKeeps, OthersKeepDevice DEF dispatch

\* A command that answers about the key of a sealed slot used the scalar in the slot.
LEMMA SealedKeyUsed ==
    ASSUME NEW d, IsDevice(d), NEW se, NEW cmd \in Packets, UsesKey(cmd), cmd.slot \in Slots,
           dispatch(d, se, cmd).status = "SUCCESS", Sealed(dispatch(d, se, cmd).device, cmd.slot)
    PROVE  /\ dispatch(d, se, cmd).device = d
           /\ dispatch(d, se, cmd).body = slot_scalar(d, cmd.slot)
<1>1. /\ \A x, y : Fail(d, x, y).status = y
      /\ \A e, x, y, z : Out(e, x, y, z).status = y /\ Out(e, x, y, z).device = e
                         /\ Out(e, x, y, z).body = z
  BY DEF Fail, Out
<1>2. CASE cmd.op = "Sign"
  BY <1>1, <1>2 DEF dispatch, handle_sign
<1>3. CASE cmd.op = "Ecdh"
  BY <1>1, <1>3 DEF dispatch, handle_ecdh
<1>4. CASE cmd.op = "GenKey"
  <2>1. dispatch(d, se, cmd) = handle_genkey(d, se, cmd)
    BY <1>4 DEF dispatch
  <2>2. CASE cmd.mode = 4
    <3>1. ~slot_locked(d, cmd.slot)
      BY <1>1, <2>1, <2>2 DEF handle_genkey
    <3> DEFINE e == [d EXCEPT !.slots[cmd.slot] = Overlay(@, 0, RandomKey(minted))]
    <3>2. dispatch(d, se, cmd).device = e
      BY <1>1, <2>1, <2>2, <3>1 DEF handle_genkey
    <3>3. e.config = d.config
      BY DEF IsDevice
    <3> QED
      BY <3>1, <3>2, <3>3 DEF Sealed, slot_locked
  <2>3. CASE cmd.mode # 4
    BY <1>1, <2>1, <2>3 DEF handle_genkey
  <2> QED
    BY <2>2, <2>3
<1> QED
  BY <1>2, <1>3, <1>4 DEF UsesKey

-----------------------------------------------------------------------------
(***************************************************************************)
(* The server of the ATECC608.                                             *)
(***************************************************************************)
\* The inductive invariant of the shared device and its file: they keep what the last answer
\* of a server with a file showed (known), and every answer about the key of a sealed slot
\* (uses) was about the key that slot had in the last answer.  The file comes first: a restart
\* takes the device from there, and a torn file is never loaded.
AteccDeviceInv ==
    /\ file = Missing \/ file = Torn \/ (file = Saved(file.device) /\ IsDevice(file.device))
    /\ alive => IsDevice(device)
    /\ \A d \in known :
         /\ file # Missing
         /\ file.state = "saved" => Kept(d, file.device)
         /\ alive /\ persistent => Kept(d, device)
    /\ uses = [s \in Slots |-> uses[s]]
    /\ \A s \in Slots : \A k \in uses[s] :
         known # {} /\ \A d \in known : Sealed(d, s) /\ slot_scalar(d, s) = k

\* A device prepared in a file, and the default one, are devices.
LEMMA DefaultIsDevice == IsDevice(default_device)
BY DEF IsDevice, default_device

\* The three states of a file differ.
LEMMA FileStates ==
    /\ Missing # Torn /\ Missing.state = "missing" /\ Torn.state = "torn"
    /\ \A d : Saved(d).state = "saved" /\ Saved(d).device = d /\ Saved(d) # Missing /\ Saved(d) # Torn
BY DEF Missing, Torn, Saved

\* The invariant holds when the server is not yet started.
LEMMA AteccDeviceInit == AteccInit => AteccDeviceInv
<1> SUFFICES ASSUME AteccInit PROVE AteccDeviceInv
  OBVIOUS
<1>1. file = Missing \/ file = Torn \/ (file = Saved(file.device) /\ IsDevice(file.device))
  BY FileStates, InputsAssumption DEF AteccInit, ServerInit
<1> QED
  BY <1>1 DEF AteccInit, ServerInit, AteccDeviceInv, AteccHistory

\* Every command keeps it, whether it is saved and answered, the save fails, or the process
\* ends while it saves.
LEMMA AteccDeviceCommand ==
    ASSUME AteccDeviceInv, NEW c \in Conns, NEW cmd \in Packets, read_and_dispatch(c, cmd)
    PROVE  AteccDeviceInv'
<1> DEFINE r == dispatch(device, session[c], cmd)
<1>0. alive /\ IsDevice(device)
  BY DEF read_and_dispatch, AteccDeviceInv
<1>1. Kept(device, r.device) /\ IsDevice(r.device)
  BY <1>0, DispatchKeeps DEF Kept
<1>2. persistent => \A d \in known : Kept(d, r.device)
  BY <1>0, <1>1, KeptTransitive DEF AteccDeviceInv
<1> HIDE DEF r
<1>3. CASE Answered(c, r) /\ ~persistent
  BY <1>1, <1>3 DEF Answered, persist, read_and_dispatch, AteccDeviceInv
<1>4. CASE Answered(c, r) /\ persistent
  <2>1. /\ device' = r.device /\ file' = Saved(r.device) /\ known' = {r.device}
        /\ persistent' = persistent /\ alive' = alive
    BY <1>4 DEF Answered, persist
  <2>2. \A s \in Slots : \A k \in uses[s] : Sealed(r.device, s) /\ slot_scalar(r.device, s) = k
    BY <1>2, <1>4 DEF AteccDeviceInv, Kept, slot_scalar
  <2>3. ASSUME UsesKey(cmd), r.status = "SUCCESS", Sealed(r.device, cmd.slot), cmd.slot \in Slots
        PROVE  r.body = slot_scalar(r.device, cmd.slot)
    BY <1>0, <2>3, SealedKeyUsed DEF r
  <2>4. uses' = [s \in Slots |-> uses'[s]]
    BY DEF AteccDeviceInv, read_and_dispatch
  <2>5. \A s \in Slots : \A k \in uses'[s] : Sealed(r.device, s) /\ slot_scalar(r.device, s) = k
    <3>1. \/ uses' = uses
          \/ /\ UsesKey(cmd) /\ r.status = "SUCCESS" /\ Sealed(r.device, cmd.slot)
             /\ uses' = [uses EXCEPT ![cmd.slot] = @ \cup {r.body}]
      BY DEF read_and_dispatch, r
    <3>2. CASE uses' = uses
      BY <2>2, <3>2
    <3>3. CASE /\ UsesKey(cmd) /\ r.status = "SUCCESS" /\ Sealed(r.device, cmd.slot)
               /\ uses' = [uses EXCEPT ![cmd.slot] = @ \cup {r.body}]
      BY <2>2, <2>3, <3>3 DEF AteccDeviceInv
    <3> QED
      BY <3>1, <3>2, <3>3
  <2> QED
    BY <1>1, <2>1, <2>4, <2>5, FileStates, KeptReflexive DEF AteccDeviceInv
<1>5. CASE Unsaved(c, r) /\ UNCHANGED uses
  BY <1>1, <1>2, <1>5, FileStates DEF Unsaved, AteccDeviceInv
<1>6. CASE DiesSaving(c, r) /\ UNCHANGED uses
  BY <1>1, <1>2, <1>6, FileStates DEF DiesSaving, AteccDeviceInv
<1> QED
  BY <1>3, <1>4, <1>5, <1>6 DEF read_and_dispatch, r

\* Connections, sleeps, crashes and starts keep it.
LEMMA AteccDeviceServer ==
    ASSUME AteccDeviceInv,
           \/ \E c \in Conns : AteccConnect(c) \/ AteccDisconnect(c) \/ Sleep(c)
           \/ AteccCrash \/ AteccStart
    PROVE  AteccDeviceInv'
<1>1. CASE \E c \in Conns : AteccConnect(c) \/ AteccDisconnect(c) \/ Sleep(c)
  BY <1>1 DEF AteccConnect, Connect, AteccDisconnect, Disconnect, Sleep, AteccDeviceInv
<1>2. CASE AteccCrash
  BY <1>2 DEF AteccCrash, Crash, AteccDeviceInv
<1>3. CASE AteccStart
  <2>1. CASE StartFresh(default_device)
    BY <1>3, <2>1, DefaultIsDevice DEF AteccStart, StartFresh, AteccDeviceInv
  <2>2. CASE Load
    BY <1>3, <2>2, FileStates DEF AteccStart, Load, AteccDeviceInv
  <2>3. CASE Create(default_device)
    BY <1>3, <2>3, FileStates, DefaultIsDevice DEF AteccStart, Create, AteccDeviceInv
  <2> QED
    BY <1>3, <2>1, <2>2, <2>3 DEF AteccStart
<1> QED
  BY <1>1, <1>2, <1>3

\* Which of the two chips runs never changes, and the other one uses no key of a slot.
AteccInv ==
    /\ chip = "ATECC608" => AteccDeviceInv
    /\ chip # "ATECC608" => \A s \in Slots : uses[s] = {}

\* The invariant holds initially.
LEMMA AteccInvInit == Init => AteccInv
BY AteccDeviceInit DEF Init, StsafeInit, AteccInit, AteccHistory, AteccInv

\* Every step of the specification keeps the invariant.
LEMMA AteccInvStep == AteccInv /\ [Next]_vars => AteccInv'
<1> SUFFICES ASSUME AteccInv, [Next]_vars PROVE AteccInv'
  OBVIOUS
<1>1. CASE AteccNext
  BY <1>1, AteccDeviceCommand, AteccDeviceServer DEF AteccNext, AteccInv
<1>2. CASE StsafeNext /\ UNCHANGED <<mine, uses>>
  BY <1>2 DEF StsafeNext, AteccInv
<1>3. CASE UNCHANGED vars
  BY <1>3 DEF vars, server, AteccInv, AteccDeviceInv
<1> QED
  BY <1>1, <1>2, <1>3 DEF Next

\* A set all of whose elements are equal has at most one.
LEMMA AtMostOne ==
    ASSUME NEW S, \A x, y \in S : x = y
    PROVE  Cardinality(S) <= 1
<1>1. CASE S = {}
  BY <1>1, FS_EmptySet
<1>2. ASSUME NEW x \in S PROVE Cardinality(S) <= 1
  <2>1. S = {x}
    BY <1>2
  <2> QED
    BY <2>1, FS_Singleton
<1> QED
  BY <1>1, <1>2

\* A sealed slot of the ATECC608 has one key for good: no answer about it, on any connection
\* and across failed saves, crashes and restarts, comes from another scalar (handlers/genkey.rs,
\* sign.rs, ecdh.rs, bin/tcp_server.rs).
THEOREM SealedKeys == Spec => []SealedKeyIsOne
<1>1. AteccInv => SealedKeyIsOne
  <2> SUFFICES ASSUME AteccInv, NEW s \in Slots PROVE Cardinality(uses[s]) <= 1
    BY DEF SealedKeyIsOne
  <2>1. \A x, y \in uses[s] : x = y
    BY DEF AteccInv, AteccDeviceInv
  <2> QED
    BY <2>1, AtMostOne
<1> QED
  BY <1>1, AteccInvInit, AteccInvStep, PTL DEF Spec

\* A lock that was in force at an answer of the ATECC608, once its config zone is locked, is in
\* force at every later one, whatever saves fail and whenever the server is killed and started
\* again (handlers/lock.rs, write_zone.rs, object_store/mod.rs).
THEOREM LocksLast == Spec => AnsweredLocksLast
<1>1. AteccInv /\ [Next]_vars =>
        [chip = "ATECC608" =>
           \A d \in known, e \in known' : config_locked(d) => Locks(d) \subseteq Locks(e)]_known
  <2> SUFFICES ASSUME AteccInv, [Next]_vars, known' # known, chip = "ATECC608",
                      NEW d \in known, NEW e \in known', config_locked(d)
               PROVE  Locks(d) \subseteq Locks(e)
    OBVIOUS
  <2>1. AteccNext
    BY DEF Next, StsafeNext, vars, server
  <2>2. PICK c \in Conns, cmd \in Packets : read_and_dispatch(c, cmd)
    BY <2>1 DEF AteccNext, AteccConnect, Connect, AteccDisconnect, Disconnect, Sleep, AteccCrash,
                Crash, AteccStart, StartFresh, Load, Create
  <2> DEFINE r == dispatch(device, session[c], cmd)
  <2>0. Answered(c, r) \/ Unsaved(c, r) \/ DiesSaving(c, r)
    BY <2>2 DEF read_and_dispatch
  <2> HIDE DEF r
  <2>3. persistent /\ e = r.device /\ alive
    BY <2>0 DEF Answered, Unsaved, DiesSaving
  <2>4. Kept(d, device) /\ IsDevice(device)
    BY <2>3 DEF AteccInv, AteccDeviceInv
  <2>5. Kept(device, r.device)
    BY <2>4, DispatchKeeps DEF r
  <2>6. Kept(d, e)
    BY <2>3, <2>4, <2>5, KeptTransitive
  <2> QED
    BY <2>6 DEF Kept
<1> QED
  BY <1>1, AteccInvInit, AteccInvStep, PTL DEF Spec, AnsweredLocksLast

-----------------------------------------------------------------------------
(***************************************************************************)
(* The sessions of the ATECC608.                                           *)
(***************************************************************************)
\* A session in shape, and the record of what its host loaded into it.
IsSession(se) == se = [open |-> se.open, tempkey |-> se.tempkey, sha |-> se.sha]
Holding(se) == [digest |-> se.tempkey, stream |-> se.sha]

\* A command that fails leaves the session alone; one that succeeds leaves what the host loaded.
LEMMA DispatchSession ==
    ASSUME NEW d, NEW se, IsSession(se), NEW cmd
    PROVE  LET r == dispatch(d, se, cmd)
           IN  /\ IsSession(r.session) /\ r.session.open = se.open
               /\ Holding(r.session) =
                    IF r.status = "SUCCESS" THEN Loaded(Holding(se), cmd) ELSE Holding(se)
<1> DEFINE r == dispatch(d, se, cmd)
<1>1. /\ \A e, x : Fail(d, e, x).session = e /\ Fail(d, e, x).status = x
      /\ \A e, x : Done(x, e).session = e /\ Done(x, e).status = "SUCCESS"
      /\ \A e, x, y, z : Out(x, e, y, z).session = e /\ Out(x, e, y, z).status = y
  BY DEF Fail, Out, Done
<1>2. CASE cmd.op \notin {"Sha", "Nonce"}
  <2>1. r.session = se
    BY <1>1, <1>2 DEF dispatch, handle_info, handle_read, handle_write, handle_lock,
                      handle_genkey, handle_sign, handle_verify, handle_ecdh
  <2>2. Loaded(Holding(se), cmd) = Holding(se)
    BY <1>2 DEF Loaded
  <2> QED
    BY <2>1, <2>2
<1>3. CASE cmd.op = "Nonce"
  <2>1. r = handle_nonce(d, se, cmd)
    BY <1>3 DEF dispatch
  <2>2. Loaded(Holding(se), cmd) = [digest |-> cmd.data, stream |-> se.sha]
    BY <1>3 DEF Loaded, Holding
  <2>3. [se EXCEPT !.tempkey = cmd.data] = [open |-> se.open, tempkey |-> cmd.data, sha |-> se.sha]
    BY DEF IsSession
  <2> QED
    BY <1>1, <2>1, <2>2, <2>3 DEF handle_nonce, Holding, IsSession
<1>4. CASE cmd.op = "Sha"
  <2>1. r = handle_sha(d, se, cmd)
    BY <1>4 DEF dispatch
  <2>2. \A x : [se EXCEPT !.sha = x] = [open |-> se.open, tempkey |-> se.tempkey, sha |-> x]
    BY DEF IsSession
  <2>3. \A x : [Holding(se) EXCEPT !.stream = x] = [digest |-> se.tempkey, stream |-> x]
    BY DEF Holding
  <2>4. ASSUME NEW x, r.session = [se EXCEPT !.sha = x], r.status = "SUCCESS",
               Loaded(Holding(se), cmd) = [Holding(se) EXCEPT !.stream = x]
        PROVE  /\ IsSession(r.session) /\ r.session.open = se.open
               /\ Holding(r.session) = Loaded(Holding(se), cmd)
    BY <2>2, <2>3, <2>4 DEF Holding, IsSession
  <2>5. ASSUME r.session = se, r.status # "SUCCESS"
        PROVE  /\ IsSession(r.session) /\ r.session.open = se.open
               /\ r.status # "SUCCESS" /\ Holding(r.session) = Holding(se)
    BY <2>5
  <2> DEFINE fed == {h \o cmd.data : h \in se.sha}
  <2>6. Holding(se).stream = se.sha
    BY DEF Holding
  <2>7. CASE cmd.mode = 0
    <3>1. r.session = [se EXCEPT !.sha = {<<>>}] /\ r.status = "SUCCESS"
      BY <1>1, <2>1, <2>7 DEF handle_sha
    <3>2. Loaded(Holding(se), cmd) = [Holding(se) EXCEPT !.stream = {<<>>}]
      BY <1>4, <2>7 DEF Loaded
    <3> QED
      BY <3>1, <3>2, <2>4
  <2>8. CASE cmd.mode = 1
    <3>1. Loaded(Holding(se), cmd) = [Holding(se) EXCEPT !.stream = fed]
      BY <1>4, <2>8, <2>6 DEF Loaded
    <3>2. IF se.sha = {} THEN r.session = se /\ r.status = "EXECUTION_ERROR"
          ELSE r.session = [se EXCEPT !.sha = fed] /\ r.status = "SUCCESS"
      BY <1>1, <2>1, <2>8 DEF handle_sha
    <3> HIDE DEF fed
    <3> QED
      BY <3>1, <3>2, <2>4, <2>5
  <2>9. CASE cmd.mode = 2
    <3>1. Loaded(Holding(se), cmd) = [Holding(se) EXCEPT !.stream = {}]
      BY <1>4, <2>9 DEF Loaded
    <3>2. IF se.sha = {} THEN r.session = se /\ r.status = "EXECUTION_ERROR"
          ELSE r.session = [se EXCEPT !.sha = {}] /\ r.status = "SUCCESS"
      BY <1>1, <2>1, <2>9 DEF handle_sha
    <3> QED
      BY <3>1, <3>2, <2>4, <2>5
  <2>10. CASE cmd.mode \notin {0, 1, 2}
    BY <1>1, <1>4, <2>1, <2>10 DEF handle_sha, Holding, IsSession, Loaded
  <2> QED
    BY <2>7, <2>8, <2>9, <2>10
<1> QED
  BY <1>2, <1>3, <1>4

\* The inductive invariant of the sessions: a closed connection has nothing loaded, so that a
\* new one starts with nothing.
SessionInv ==
    /\ session = [c \in Conns |-> session[c]]
    /\ mine = [c \in Conns |-> mine[c]]
    /\ \A c \in Conns :
         \/ session[c] = Closed /\ mine[c] = Nothing
         \/ session[c].open /\ IsSession(session[c]) /\ mine[c] = Holding(session[c])

\* A new session holds nothing, and neither does one after a sleep.
LEMMA EmptySessions ==
    /\ IsSession(new_session) /\ new_session.open /\ Holding(new_session) = Nothing
    /\ \A se : IsSession(se) =>
         /\ IsSession(volatile_reset(se)) /\ volatile_reset(se).open = se.open
         /\ Holding(volatile_reset(se)) = Nothing
<1>1. IsSession(new_session) /\ new_session.open /\ Holding(new_session) = Nothing
  BY DEF IsSession, Holding, new_session, Nothing
<1>2. ASSUME NEW se, IsSession(se)
      PROVE  /\ IsSession(volatile_reset(se)) /\ volatile_reset(se).open = se.open
             /\ Holding(volatile_reset(se)) = Nothing
  <2>1. volatile_reset(se) = [open |-> se.open, tempkey |-> NoDigest, sha |-> {}]
    <3> DEFINE x == [se EXCEPT !.tempkey = NoDigest]
    <3>1. x = [open |-> se.open, tempkey |-> NoDigest, sha |-> se.sha]
      BY <1>2 DEF IsSession
    <3>2. volatile_reset(se) = [x EXCEPT !.sha = {}]
      BY DEF volatile_reset
    <3> HIDE DEF x
    <3> QED
      BY <3>1, <3>2
  <2> QED
    BY <2>1 DEF IsSession, Holding, Nothing
<1> QED
  BY <1>1, <1>2

\* Every step of the ATECC608 keeps the invariant of the sessions.
LEMMA SessionStep ==
    ASSUME SessionInv, AteccNext
    PROVE  SessionInv'
<1>1. ~Closed.open
  BY DEF Closed
<1>2. ASSUME NEW c \in Conns, NEW cmd \in Packets, read_and_dispatch(c, cmd)
      PROVE  SessionInv'
  <2> DEFINE r == dispatch(device, session[c], cmd)
  <2>1. session[c].open /\ IsSession(session[c]) /\ mine[c] = Holding(session[c])
    BY <1>1, <1>2 DEF read_and_dispatch, SessionInv
  <2>2. /\ IsSession(r.session) /\ r.session.open
        /\ Holding(r.session) =
             IF r.status = "SUCCESS" THEN Loaded(mine[c], cmd) ELSE mine[c]
    BY <2>1, DispatchSession
  <2>3. CASE /\ Answered(c, r)
             /\ mine' = IF r.status = "SUCCESS" THEN [mine EXCEPT ![c] = Loaded(@, cmd)] ELSE mine
    BY <2>2, <2>3 DEF Answered, SessionInv
  <2>4. CASE Unsaved(c, r) /\ mine' = [mine EXCEPT ![c] = Nothing]
    BY <2>4 DEF Unsaved, SessionInv
  <2>5. CASE DiesSaving(c, r) /\ mine' = [x \in Conns |-> Nothing]
    BY <2>5 DEF DiesSaving, SessionInv, Nobody
  <2> QED
    BY <1>2, <2>3, <2>4, <2>5 DEF read_and_dispatch
<1>3. ASSUME NEW c \in Conns, AteccConnect(c)
      PROVE  SessionInv'
  <2>1. mine[c] = Nothing
    BY <1>3 DEF AteccConnect, Connect, SessionInv
  <2> QED
    BY <1>3, <2>1, EmptySessions DEF AteccConnect, Connect, SessionInv
<1>4. ASSUME NEW c \in Conns, AteccDisconnect(c)
      PROVE  SessionInv'
  BY <1>4 DEF AteccDisconnect, Disconnect, SessionInv
<1>5. ASSUME NEW c \in Conns, Sleep(c)
      PROVE  SessionInv'
  <2>1. session[c].open /\ IsSession(session[c])
    BY <1>1, <1>5 DEF Sleep, SessionInv
  <2> QED
    BY <1>5, <2>1, EmptySessions DEF Sleep, SessionInv
<1>6. CASE AteccCrash
  BY <1>6 DEF AteccCrash, Crash, SessionInv, Nobody
<1>7. CASE AteccStart
  BY <1>7 DEF AteccStart, StartFresh, Load, Create, SessionInv
<1> QED
  BY <1>2, <1>3, <1>4, <1>5, <1>6, <1>7 DEF AteccNext

\* A session of the ATECC608 holds the digest and the stream that its own host loaded since it
\* connected or last slept (session.rs, bin/tcp_server.rs).
THEOREM SessionsAreOwn == Spec => []SessionIsOwn
<1> DEFINE I == chip = "ATECC608" => SessionInv
<1>1. Init => I
  BY DEF Init, AteccInit, AteccHistory, ServerInit, StsafeInit, SessionInv, Nobody
<1>2. I /\ [Next]_vars => I'
  <2> SUFFICES ASSUME I, [Next]_vars PROVE I'
    OBVIOUS
  <2>1. CASE AteccNext
    BY <2>1, SessionStep DEF AteccNext
  <2>2. CASE StsafeNext
    BY <2>2 DEF StsafeNext
  <2>3. CASE UNCHANGED vars
    BY <2>3 DEF vars, server, SessionInv
  <2> QED
    BY <2>1, <2>2, <2>3 DEF Next
<1>3. I => SessionIsOwn
  BY DEF SessionInv, SessionIsOwn, Closed, Holding
<1> HIDE DEF I
<1> QED
  BY <1>1, <1>2, <1>3, PTL DEF Spec

-----------------------------------------------------------------------------
(***************************************************************************)
(* The STSAFE-A120.                                                        *)
(***************************************************************************)
\* A device whose certificate goes with its serial number and whose keys are among the first n
\* that were drawn.
IsStsafe(d, n) ==
    /\ d = [serial_number |-> d.serial_number, slots |-> d.slots, certificate |-> d.certificate]
    /\ d.slots \in [KeySlots -> 0..n]
    /\ d.certificate = d.serial_number

\* A later state of the same device: no slot has gone back to an older key.
Newer(d, e) ==
    /\ \A s \in KeySlots : d.slots[s] <= e.slots[s]
    /\ e.serial_number = d.serial_number

\* The keys drawn after a command.
Drawn(cmd, status) ==
    IF cmd.op = "GENERATE_KEY" /\ status = "OK" THEN minted + 1 ELSE minted

\* A device is a later state of itself.
LEMMA NewerReflexive == ASSUME NEW d, NEW n \in Nat, IsStsafe(d, n) PROVE Newer(d, d)
BY DEF IsStsafe, Newer

\* Later states of a later state are later states.
LEMMA NewerTransitive ==
    ASSUME NEW n \in Nat, NEW d, NEW e, NEW f, IsStsafe(d, n), IsStsafe(e, n), IsStsafe(f, n),
           Newer(d, e), Newer(e, f)
    PROVE  Newer(d, f)
<1>1. \A s \in KeySlots : d.slots[s] \in Nat /\ e.slots[s] \in Nat /\ f.slots[s] \in Nat
  BY DEF IsStsafe
<1> QED
  BY <1>1 DEF Newer

\* A device stays one when more keys are drawn.
LEMMA MoreDrawn ==
    ASSUME NEW n \in Nat, NEW m \in Nat, n <= m, NEW d, IsStsafe(d, n)
    PROVE  IsStsafe(d, m)
BY DEF IsStsafe

\* What a command leaves: a later state of the device, and an answer about that state.
LEMMA FrameKeeps ==
    ASSUME minted \in Nat, NEW d, IsStsafe(d, minted), NEW se, NEW cmd
    PROVE  LET r == dispatch_frame(d, se, cmd)
           IN  /\ IsStsafe(r.device, Drawn(cmd, r.status)) /\ Newer(d, r.device)
               /\ Shows(cmd) /\ r.status = "OK" /\ cmd.slot \in KeySlots =>
                    r.key = r.device.slots[cmd.slot]
               /\ cmd.op \in {"READ", "QUERY"} /\ r.status = "OK" =>
                    r.key = r.device.serial_number
<1> DEFINE r == dispatch_frame(d, se, cmd)
<1>1. /\ \A e, x, y, z : Reply(e, x, y, z).device = e /\ Reply(e, x, y, z).status = y
                         /\ Reply(e, x, y, z).key = z
      /\ \A e, x, y : Error(e, x, y).device = e /\ Error(e, x, y).status = y
  BY DEF Reply, Error
<1>2. Newer(d, d)
  BY NewerReflexive
<1>3. CASE cmd.op = "GENERATE_KEY"
  <2>1. r = keypair(d, se, cmd)
    BY <1>3 DEF dispatch_frame
  <2>2. CASE r.status # "OK"
    <3>1. r.device = d
      BY <1>1, <2>1, <2>2 DEF keypair
    <3> QED
      BY <1>2, <1>3, <2>2, <3>1 DEF Drawn
  <2>3. CASE r.status = "OK"
    <3> DEFINE e == [d EXCEPT !.slots[cmd.slot] = minted + 1]
    <3>1. r.device = e /\ r.key = minted + 1
      BY <1>1, <2>1, <2>3 DEF keypair
    <3>2. /\ e = [serial_number |-> e.serial_number, slots |-> e.slots, certificate |-> e.certificate]
          /\ e.serial_number = d.serial_number /\ e.certificate = d.certificate
          /\ e.slots = [d.slots EXCEPT ![cmd.slot] = minted + 1]
      BY DEF IsStsafe
    <3> HIDE DEF e
    <3>3. /\ e.slots \in [KeySlots -> 0..(minted + 1)]
          /\ \A s \in KeySlots : d.slots[s] <= e.slots[s]
          /\ cmd.slot \in KeySlots => e.slots[cmd.slot] = minted + 1
      <4>1. d.slots \in [KeySlots -> 0..minted]
        BY DEF IsStsafe
      <4>2. \A s \in KeySlots : e.slots[s] = IF s = cmd.slot THEN minted + 1 ELSE d.slots[s]
        BY <3>2, <4>1
      <4>3. \A s \in KeySlots : e.slots[s] \in 0..(minted + 1) /\ d.slots[s] <= e.slots[s]
        BY <4>1, <4>2
      <4> QED
        BY <3>2, <4>1, <4>2, <4>3
    <3>4. IsStsafe(e, minted + 1) /\ Newer(d, e)
      BY <3>2, <3>3 DEF IsStsafe, Newer
    <3> QED
      BY <1>3, <2>3, <3>1, <3>3, <3>4 DEF Drawn
  <2> QED
    BY <2>2, <2>3
<1>4. CASE cmd.op # "GENERATE_KEY"
  <2>1. r.device = d
    BY <1>1, <1>4 DEF dispatch_frame, random, read, sign, verify, ecdh, query
  <2>2. cmd.op = "GENERATE_SIGNATURE" /\ r.status = "OK" => r.key = d.slots[cmd.slot]
    BY <1>1 DEF dispatch_frame, sign
  <2>3. cmd.op = "ESTABLISH_KEY" /\ r.status = "OK" => r.key = d.slots[cmd.slot]
    BY <1>1 DEF dispatch_frame, ecdh
  <2>4. cmd.op = "READ" /\ r.status = "OK" => r.key = d.certificate
    BY <1>1 DEF dispatch_frame, read
  <2>5. cmd.op = "QUERY" /\ r.status = "OK" => r.key = d.serial_number
    BY <1>1 DEF dispatch_frame, query
  <2>6. IsStsafe(r.device, Drawn(cmd, r.status)) /\ Newer(d, r.device)
    BY <1>2, <1>4, <2>1 DEF Drawn
  <2>7. d.certificate = d.serial_number
    BY DEF IsStsafe
  <2> QED
    BY <1>4, <2>1, <2>2, <2>3, <2>4, <2>5, <2>6, <2>7 DEF Shows
<1> QED
  BY <1>3, <1>4

\* The inductive invariant: the device and its file are later states of what the last answer of
\* a server with a file showed (known); no answer showed a newer key than that, or another
\* identity.
StsafeDeviceInv ==
    /\ minted \in Nat
    /\ file = Missing \/ file = Torn \/ (file = Saved(file.device) /\ IsStsafe(file.device, minted))
    /\ alive => IsStsafe(device, minted)
    /\ \A d \in known :
         /\ IsStsafe(d, minted) /\ file # Missing
         /\ file.state = "saved" => Newer(d, file.device)
         /\ alive /\ persistent => Newer(d, device)
    /\ shown \in [KeySlots -> Nat]
    /\ \A s \in KeySlots : shown[s] # 0 => known # {} /\ \A d \in known : shown[s] <= d.slots[s]
    /\ \A x \in identities : known # {} /\ \A d \in known : d.serial_number = x

\* A new device is one.
LEMMA FreshIsStsafe ==
    ASSUME NEW k \in Nat, NEW n \in Nat, k <= n
    PROVE  IsStsafe(fresh_device(k), n)
BY DEF IsStsafe, fresh_device

\* What an answered command leaves in the histories is what the device has.
LEMMA StsafeAnswered ==
    ASSUME StsafeDeviceInv, NEW cmd, NEW r, persistent, alive,
           IsStsafe(r.device, minted'), minted' \in Nat, minted <= minted',
           Newer(device, r.device),
           Shows(cmd) /\ r.status = "OK" /\ cmd.slot \in KeySlots => r.key = r.device.slots[cmd.slot],
           cmd.op \in {"READ", "QUERY"} /\ r.status = "OK" => r.key = r.device.serial_number,
           shown' = IF r.status = "OK" /\ Shows(cmd) THEN [shown EXCEPT ![cmd.slot] = r.key] ELSE shown,
           identities' = IF r.status = "OK" /\ cmd.op \in {"READ", "QUERY"}
                         THEN identities \cup {r.key} ELSE identities
    PROVE  /\ shown' \in [KeySlots -> Nat]
           /\ \A s \in KeySlots : shown[s] <= shown'[s] /\ shown'[s] <= r.device.slots[s]
           /\ \A x \in identities' : r.device.serial_number = x
<1>1. \A s \in KeySlots : /\ device.slots[s] \in Nat /\ r.device.slots[s] \in Nat
                          /\ shown[s] \in Nat /\ device.slots[s] <= r.device.slots[s]
  BY DEF StsafeDeviceInv, IsStsafe, Newer
<1>2. \A s \in KeySlots : shown[s] <= device.slots[s]
  <2> SUFFICES ASSUME NEW s \in KeySlots PROVE shown[s] <= device.slots[s]
    OBVIOUS
  <2>1. CASE shown[s] = 0
    BY <1>1, <2>1
  <2>2. CASE shown[s] # 0
    <3>1. PICK d \in known : shown[s] <= d.slots[s]
      BY <2>2 DEF StsafeDeviceInv
    <3>2. d.slots[s] \in Nat /\ d.slots[s] <= device.slots[s]
      BY <3>1 DEF StsafeDeviceInv, IsStsafe, Newer
    <3> QED
      BY <1>1, <3>1, <3>2
  <2> QED
    BY <2>1, <2>2
<1>3. \A s \in KeySlots : shown'[s] = shown[s] \/ shown'[s] = r.device.slots[s]
  BY DEF StsafeDeviceInv
<1>4. shown' = [s \in KeySlots |-> shown'[s]]
  BY DEF StsafeDeviceInv
<1>5. \A s \in KeySlots : shown'[s] \in Nat /\ shown[s] <= shown'[s] /\ shown'[s] <= r.device.slots[s]
  BY <1>1, <1>2, <1>3
<1>6. \A x \in identities : r.device.serial_number = x
  BY DEF StsafeDeviceInv, Newer
<1>7. shown' \in [KeySlots -> Nat]
  BY <1>4, <1>5
<1> QED
  BY <1>5, <1>6, <1>7

\* Every command keeps it, and shows no older key than before.
LEMMA StsafeDeviceCommand ==
    ASSUME StsafeDeviceInv, NEW c \in Conns, NEW cmd \in Frames, handle_frame(c, cmd)
    PROVE  StsafeDeviceInv' /\ \A s \in KeySlots : shown[s] <= shown'[s]
<1> DEFINE r == dispatch_frame(device, session[c], cmd)
<1>0. alive /\ IsStsafe(device, minted) /\ minted \in Nat
  BY DEF handle_frame, StsafeDeviceInv
<1>1. /\ IsStsafe(r.device, Drawn(cmd, r.status)) /\ Newer(device, r.device)
      /\ Shows(cmd) /\ r.status = "OK" /\ cmd.slot \in KeySlots => r.key = r.device.slots[cmd.slot]
      /\ cmd.op \in {"READ", "QUERY"} /\ r.status = "OK" => r.key = r.device.serial_number
  BY <1>0, FrameKeeps
<1>2. minted' = Drawn(cmd, r.status)
  BY DEF handle_frame, Drawn
<1>3. minted' \in Nat /\ minted <= minted' /\ IsStsafe(r.device, minted')
  BY <1>0, <1>1, <1>2 DEF Drawn
<1>4. /\ IsStsafe(device, minted')
      /\ file = Missing \/ file = Torn \/ (file = Saved(file.device) /\ IsStsafe(file.device, minted'))
      /\ \A d \in known : IsStsafe(d, minted')
  BY <1>0, <1>3, MoreDrawn DEF StsafeDeviceInv
<1>5. persistent => \A d \in known : Newer(d, r.device)
  BY <1>0, <1>1, <1>3, <1>4, NewerTransitive DEF StsafeDeviceInv
<1>6. \A s \in KeySlots : shown[s] <= shown[s]
  BY DEF StsafeDeviceInv
<1>7. CASE Answered(c, r) /\ ~persistent
  <2>1. /\ UNCHANGED <<file, known, persistent, alive, shown, identities>>
        /\ device' = r.device
    BY <1>7 DEF Answered, persist, handle_frame
  <2> HIDE DEF r
  <2> QED
    BY <1>3, <1>4, <1>6, <1>7, <2>1 DEF StsafeDeviceInv
<1>8. CASE /\ Answered(c, r) /\ persistent
           /\ shown' = IF r.status = "OK" /\ Shows(cmd) THEN [shown EXCEPT ![cmd.slot] = r.key] ELSE shown
           /\ identities' = IF r.status = "OK" /\ cmd.op \in {"READ", "QUERY"}
                            THEN identities \cup {r.key} ELSE identities
  <2>1. /\ device' = r.device /\ file' = Saved(r.device) /\ known' = {r.device}
        /\ persistent' = persistent /\ alive' = alive
    BY <1>8 DEF Answered, persist
  <2> HIDE DEF r
  <2>3. /\ shown' \in [KeySlots -> Nat]
        /\ \A s \in KeySlots : shown[s] <= shown'[s] /\ shown'[s] <= r.device.slots[s]
        /\ \A x \in identities' : r.device.serial_number = x
    BY <1>0, <1>1, <1>3, <1>8, StsafeAnswered
  <2>4. Newer(r.device, r.device)
    BY <1>3, NewerReflexive
  <2> QED
    BY <1>3, <2>1, <2>3, <2>4, FileStates DEF StsafeDeviceInv
<1>9. CASE Unsaved(c, r) /\ UNCHANGED <<shown, identities>>
  <2> HIDE DEF r
  <2> QED
    BY <1>3, <1>4, <1>5, <1>6, <1>9, FileStates DEF Unsaved, StsafeDeviceInv
<1>10. CASE DiesSaving(c, r) /\ UNCHANGED <<shown, identities>>
  <2> HIDE DEF r
  <2> QED
    BY <1>3, <1>4, <1>5, <1>6, <1>10, FileStates DEF DiesSaving, StsafeDeviceInv
<1> QED
  BY <1>7, <1>8, <1>9, <1>10 DEF handle_frame

\* Connections, crashes and starts keep it, and show no key.
LEMMA StsafeDeviceServer ==
    ASSUME StsafeDeviceInv,
           \/ \E c \in Conns : StsafeConnect(c) \/ StsafeDisconnect(c)
           \/ StsafeCrash \/ StsafeStart
    PROVE  StsafeDeviceInv' /\ UNCHANGED shown
<1>1. CASE \E c \in Conns : StsafeConnect(c) \/ StsafeDisconnect(c)
  BY <1>1 DEF StsafeConnect, Connect, StsafeDisconnect, Disconnect, StsafeDeviceInv
<1>2. CASE StsafeCrash
  BY <1>2 DEF StsafeCrash, Crash, StsafeDeviceInv
<1>3. CASE StsafeStart
  <2>0. minted \in Nat
    BY DEF StsafeDeviceInv
  <2>1. CASE StartFresh(fresh_device(0))
    <3>1. IsStsafe(fresh_device(0), minted)
      BY <2>0, FreshIsStsafe
    <3> QED
      BY <1>3, <2>1, <3>1 DEF StsafeStart, StartFresh, StsafeDeviceInv
  <2>2. CASE Load
    BY <1>3, <2>2, FileStates DEF StsafeStart, Load, StsafeDeviceInv
  <2>3. CASE Create(fresh_device(minted + 1)) /\ minted' = minted + 1
    <3> DEFINE e == fresh_device(minted + 1)
    <3>1. IsStsafe(e, minted + 1) /\ minted + 1 \in Nat
      BY <2>0, FreshIsStsafe
    <3>2. known = {}
      BY <2>3 DEF Create, Missing, StsafeDeviceInv, Torn, Saved
    <3> HIDE DEF e
    <3> QED
      BY <1>3, <2>3, <3>1, <3>2, FileStates DEF StsafeStart, Create, StsafeDeviceInv, e
  <2> QED
    BY <1>3, <2>1, <2>2, <2>3 DEF StsafeStart
<1> QED
  BY <1>1, <1>2, <1>3

\* The invariant of either server: the histories of the STSAFE stay empty in the other.
StsafeInv ==
    /\ chip = "STSAFE-A120" => StsafeDeviceInv
    /\ chip # "STSAFE-A120" => identities = {}

\* It holds initially.
LEMMA StsafeInvInit == Init => StsafeInv
<1>1. StsafeInit => StsafeDeviceInv
  BY FileStates DEF StsafeInit, ServerInit, StsafeHistory, StsafeDeviceInv
<1> QED
  BY <1>1 DEF Init, AteccInit, StsafeInit, StsafeHistory, StsafeInv

\* Every step keeps it, and no slot is shown with an older key.
LEMMA StsafeInvStep ==
    ASSUME StsafeInv, [Next]_vars
    PROVE  StsafeInv' /\ (UNCHANGED shown \/ \A s \in KeySlots : shown[s] <= shown'[s])
<1>1. CASE StsafeNext
  <2>1. StsafeDeviceInv /\ chip' = chip /\ chip = "STSAFE-A120"
    BY <1>1 DEF StsafeNext, StsafeInv
  <2>2. CASE \E c \in Conns, cmd \in Frames : handle_frame(c, cmd)
    BY <2>1, <2>2, StsafeDeviceCommand DEF StsafeInv
  <2>3. CASE \/ \E c \in Conns : StsafeConnect(c) \/ StsafeDisconnect(c)
             \/ StsafeCrash \/ StsafeStart
    BY <2>1, <2>3, StsafeDeviceServer DEF StsafeInv
  <2> QED
    BY <1>1, <2>2, <2>3 DEF StsafeNext
<1>2. CASE AteccNext /\ UNCHANGED <<shown, identities>>
  BY <1>2 DEF AteccNext, StsafeInv
<1>3. CASE UNCHANGED vars
  BY <1>3 DEF vars, server, StsafeInv, StsafeDeviceInv
<1> QED
  BY <1>1, <1>2, <1>3 DEF Next

\* No host of an STSAFE store file is answered an older key of a lasting slot than some host before it
\* (tcp_server.rs saves before it answers; object_store/mod.rs refuses a torn file).
THEOREM NoOlderKeys == Spec => KeysNeverRevert
<1>1. StsafeInv /\ [Next]_vars
        => StsafeInv' /\ [\A s \in KeySlots \ {EPHEMERAL_KEY_SLOT} : shown[s] <= shown'[s]]_shown
  BY StsafeInvStep
<1> QED
  BY <1>1, StsafeInvInit, PTL DEF Spec, KeysNeverRevert

\* All the hosts of an STSAFE store file are answered one identity.
THEOREM OneIdentity == Spec => []IdentityIsOne
<1>1. StsafeInv => IdentityIsOne
  <2> SUFFICES ASSUME StsafeInv PROVE IdentityIsOne
    OBVIOUS
  <2>1. \A x \in identities, y \in identities : x = y
    BY DEF StsafeInv, StsafeDeviceInv
  <2> QED
    BY <2>1, AtMostOne DEF IdentityIsOne
<1>2. StsafeInv /\ [Next]_vars => StsafeInv'
  BY StsafeInvStep
<1> QED
  BY <1>1, <1>2, StsafeInvInit, PTL DEF Spec
=============================================================================
