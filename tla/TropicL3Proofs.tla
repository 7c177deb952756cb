--------------------------- MODULE TropicL3Proofs ---------------------------
(***************************************************************************)
(* What every L3 command preserves, for every device, configuration,       *)
(* session and command.                                                    *)
(***************************************************************************)
EXTENDS TropicL3, TLAPS

\* Inserting a legal value keeps a slot map well formed.
LEMMA InsertSlots ==
  ASSUME NEW f, NEW max, NEW T, Slots(f, max, T), NEW s \in 0..max, NEW v \in T
  PROVE  Slots(Insert(f, s, v), max, T)
  BY DEF Slots, Insert

\* Removing a slot keeps a slot map well formed.
LEMMA RemoveSlots ==
  ASSUME NEW f, NEW max, NEW T, Slots(f, max, T), NEW s
  PROVE  Slots(Remove(f, s), max, T)
  BY DEF Slots, Remove

\* What each handler returns: a well-formed device and a result of some bytes.
ReplyOk(r) == DeviceType(r.dev) /\ r.len \in Nat

\* A bare result code leaves the device as it was.
LEMMA CodeOk ==
  ASSUME NEW d, DeviceType(d), NEW r, NEW size \in Nat
  PROVE  ReplyOk(Code(r, d)) /\ ReplyOk(Reply(r, size, d))
  BY DEF ReplyOk, Code, Reply

\* Replacing one field of a well-formed device by a well-formed value.
LEMMA FieldUpdate ==
  ASSUME NEW d, DeviceType(d), NEW f
  PROVE  /\ Slots(f, PAIRING_SLOT_MAX, [key : Nat, state : {"Written", "Invalidated"}])
              => DeviceType([d EXCEPT !.pairing = f])
         /\ ConfigType(f) => DeviceType([d EXCEPT !.r_config = f])
         /\ ConfigType(f) => DeviceType([d EXCEPT !.i_config = f])
         /\ Slots(f, ECC_SLOT_MAX,
                  [curve : {"P256", "Ed25519"}, origin : {"Generated", "Stored"}, k : Nat])
              => DeviceType([d EXCEPT !.ecc = f])
         /\ Slots(f, R_MEM_SLOT_MAX, 1..r_mem_slot_max) => DeviceType([d EXCEPT !.r_mem = f])
         /\ Slots(f, MCOUNTER_MAX, 0..MCOUNTER_VALUE_MAX)
              => DeviceType([d EXCEPT !.mcounters = f])
         /\ Slots(f, MACANDD_SLOT_MAX, Nat) => DeviceType([d EXCEPT !.macandd = f])
  <1>1. Slots(f, PAIRING_SLOT_MAX, [key : Nat, state : {"Written", "Invalidated"}])
          => DeviceType([d EXCEPT !.pairing = f])
    BY DEF DeviceType
  <1>2. ConfigType(f) => DeviceType([d EXCEPT !.r_config = f])
    BY DEF DeviceType
  <1>3. ConfigType(f) => DeviceType([d EXCEPT !.i_config = f])
    BY DEF DeviceType
  <1>4. Slots(f, ECC_SLOT_MAX,
              [curve : {"P256", "Ed25519"}, origin : {"Generated", "Stored"}, k : Nat])
          => DeviceType([d EXCEPT !.ecc = f])
    BY DEF DeviceType
  <1>5. Slots(f, R_MEM_SLOT_MAX, 1..r_mem_slot_max) => DeviceType([d EXCEPT !.r_mem = f])
    BY DEF DeviceType
  <1>6. Slots(f, MCOUNTER_MAX, 0..MCOUNTER_VALUE_MAX) => DeviceType([d EXCEPT !.mcounters = f])
    BY DEF DeviceType
  <1>7. Slots(f, MACANDD_SLOT_MAX, Nat) => DeviceType([d EXCEPT !.macandd = f])
    BY DEF DeviceType
  <1> QED
    BY <1>1, <1>2, <1>3, <1>4, <1>5, <1>6, <1>7

\* A command that passed its slot check names a slot that exists.
LEMMA SlotInRange ==
  ASSUME NEW cfg, NEW pkey, NEW c \in CommandType, NEW max \in Nat, NEW group, NEW addr,
         SlotAllowed(cfg, pkey, c, max, group, addr)
  PROVE  c.slot \in 0..max
  BY DEF SlotAllowed, CommandType

\* The pairing-key commands keep the device well formed.
LEMMA PairingOk ==
  ASSUME NEW d, DeviceType(d), NEW cfg, NEW pkey, NEW c \in CommandType
  PROVE  /\ ReplyOk(pairing_key_write(d, cfg, pkey, c))
         /\ ReplyOk(pairing_key_read(d, cfg, pkey, c))
         /\ ReplyOk(pairing_key_invalidate(d, cfg, pkey, c))
  <1> DEFINE PairingSlot == [key : Nat, state : {"Written", "Invalidated"}]
  <1>1. Slots(d.pairing, PAIRING_SLOT_MAX, PairingSlot) /\ PAIRING_SLOT_MAX \in Nat
    BY DEF DeviceType, PAIRING_SLOT_MAX
  <1>2. ASSUME NEW s \in 0..PAIRING_SLOT_MAX, NEW v \in PairingSlot
        PROVE  DeviceType([d EXCEPT !.pairing = Insert(d.pairing, s, v)])
    BY <1>1, InsertSlots, FieldUpdate
  <1>3. ReplyOk(pairing_key_write(d, cfg, pkey, c))
    <2>1. [key |-> c.k, state |-> "Written"] \in PairingSlot
      BY DEF CommandType
    <2> QED
      BY <1>1, <1>2, <2>1, SlotInRange, CodeOk DEF pairing_key_write
  <1>4. ReplyOk(pairing_key_read(d, cfg, pkey, c))
    BY CodeOk DEF pairing_key_read
  <1>5. ReplyOk(pairing_key_invalidate(d, cfg, pkey, c))
    <2>1. c.slot \in DOMAIN d.pairing
            => [key |-> d.pairing[c.slot].key, state |-> "Invalidated"] \in PairingSlot
      BY <1>1 DEF Slots
    <2> QED
      BY <1>1, <1>2, <2>1, SlotInRange, CodeOk DEF pairing_key_invalidate
  <1> QED
    BY <1>3, <1>4, <1>5

\* The configuration commands keep the device well formed.
LEMMA ConfigOk ==
  ASSUME NEW d, DeviceType(d), NEW cfg, NEW pkey, NEW c \in CommandType, NEW addr
  PROVE  /\ ReplyOk(r_config_write(d, cfg, pkey, c))
         /\ ReplyOk(config_read(d, cfg, pkey, c, addr))
         /\ ReplyOk(r_config_erase(d, cfg, pkey))
         /\ ReplyOk(i_config_write(d, cfg, pkey, c))
  <1>1. ConfigType(d.r_config) /\ ConfigType(d.i_config) /\ ConfigType({})
    BY DEF DeviceType, ConfigType
  <1>2. c.slot \in Nat /\ c.n \in Nat /\ c.zeros \subseteq 0..31
    BY DEF CommandType
  <1>3. ReplyOk(r_config_write(d, cfg, pkey, c))
    <2>1. ~(c.slot >= CONFIG_OBJECT_SIZE) /\ c.slot % 4 = 0
            => ConfigType(d.r_config \cup ({c.slot} \X c.zeros))
      BY <1>1, <1>2 DEF ConfigType, CONFIG_OBJECT_SIZE
    <2> QED
      BY <2>1, FieldUpdate, CodeOk DEF r_config_write
  <1>4. ReplyOk(config_read(d, cfg, pkey, c, addr))
    BY CodeOk DEF config_read
  <1>5. ReplyOk(r_config_erase(d, cfg, pkey))
    BY <1>1, FieldUpdate, CodeOk DEF r_config_erase
  <1>6. ReplyOk(i_config_write(d, cfg, pkey, c))
    <2>1. config_addr(cfg, pkey, c, UAP.I_CONFIG_WRITE) = "OK"
            => ~(c.slot >= CONFIG_OBJECT_SIZE) /\ c.slot % 4 = 0
      BY DEF config_addr
    <2>2. ~(c.slot >= CONFIG_OBJECT_SIZE) /\ c.slot % 4 = 0 /\ ~(c.n > 31)
            => ConfigType(d.i_config \cup {<<c.slot, c.n>>})
      BY <1>1, <1>2 DEF ConfigType, CONFIG_OBJECT_SIZE
    <2> QED
      BY <2>1, <2>2, FieldUpdate, CodeOk DEF i_config_write
  <1> QED
    BY <1>3, <1>4, <1>5, <1>6

\* The user-data commands keep the device well formed.
LEMMA RMemOk ==
  ASSUME NEW d, DeviceType(d), NEW cfg, NEW pkey, NEW c \in CommandType
  PROVE  /\ ReplyOk(r_mem_write(d, cfg, pkey, c))
         /\ ReplyOk(r_mem_read(d, cfg, pkey, c))
         /\ ReplyOk(r_mem_erase(d, cfg, pkey, c))
  <1>1. Slots(d.r_mem, R_MEM_SLOT_MAX, 1..r_mem_slot_max) /\ R_MEM_SLOT_MAX \in Nat
    BY DEF DeviceType, R_MEM_SLOT_MAX
  <1>2. ReplyOk(r_mem_write(d, cfg, pkey, c))
    <2>1. ASSUME NEW s \in 0..R_MEM_SLOT_MAX, NEW v \in 1..r_mem_slot_max
          PROVE  DeviceType([d EXCEPT !.r_mem = Insert(d.r_mem, s, v)])
      BY <1>1, InsertSlots, FieldUpdate
    <2> QED
      BY <1>1, <2>1, SlotInRange, CodeOk DEF r_mem_write, r_mem_slot
  <1>3. ReplyOk(r_mem_read(d, cfg, pkey, c))
    <2>1. 4 + (IF c.slot \in DOMAIN d.r_mem THEN d.r_mem[c.slot] ELSE 0) \in Nat
      BY <1>1 DEF Slots, r_mem_slot_max
    <2> QED
      BY <2>1, CodeOk DEF r_mem_read
  <1>4. ReplyOk(r_mem_erase(d, cfg, pkey, c))
    BY <1>1, RemoveSlots, FieldUpdate, CodeOk DEF r_mem_erase
  <1> QED
    BY <1>2, <1>3, <1>4

\* The key and signature commands keep the device well formed.
LEMMA EccOk ==
  ASSUME NEW d, DeviceType(d), NEW cfg, NEW pkey, NEW c \in CommandType
  PROVE  /\ ReplyOk(ecc_generate(d, cfg, pkey, c))
         /\ ReplyOk(ecc_store(d, cfg, pkey, c))
         /\ ReplyOk(ecc_read(d, cfg, pkey, c))
         /\ ReplyOk(ecc_erase(d, cfg, pkey, c))
         /\ ReplyOk(ecdsa_sign(d, cfg, pkey, c))
         /\ ReplyOk(eddsa_sign(d, cfg, pkey, c))
  <1> DEFINE EccSlot == [curve : {"P256", "Ed25519"}, origin : {"Generated", "Stored"}, k : Nat]
  <1>1. Slots(d.ecc, ECC_SLOT_MAX, EccSlot) /\ ECC_SLOT_MAX \in Nat
    BY DEF DeviceType, ECC_SLOT_MAX
  <1>2. ASSUME NEW s \in 0..ECC_SLOT_MAX, NEW v \in EccSlot
        PROVE  DeviceType([d EXCEPT !.ecc = Insert(d.ecc, s, v)])
    BY <1>1, InsertSlots, FieldUpdate
  <1>3. ASSUME NEW o \in {"Generated", "Stored"}, NEW k \in Nat, from_wire_id(c.n) # "None"
        PROVE  [curve |-> from_wire_id(c.n), origin |-> o, k |-> k] \in EccSlot
    BY <1>3 DEF from_wire_id
  <1>4. GENERATED_KEY \in Nat /\ c.k \in Nat
    BY DEF GENERATED_KEY, CommandType
  <1>5. ReplyOk(ecc_generate(d, cfg, pkey, c))
    BY <1>1, <1>2, <1>3, <1>4, SlotInRange, CodeOk DEF ecc_generate, ecc_slot
  <1>6. ReplyOk(ecc_store(d, cfg, pkey, c))
    BY <1>1, <1>2, <1>3, <1>4, SlotInRange, CodeOk DEF ecc_store, ecc_slot
  <1>7. ReplyOk(ecc_read(d, cfg, pkey, c))
    BY CodeOk DEF ecc_read
  <1>8. ReplyOk(ecc_erase(d, cfg, pkey, c))
    BY <1>1, RemoveSlots, FieldUpdate, CodeOk DEF ecc_erase
  <1>9. ReplyOk(ecdsa_sign(d, cfg, pkey, c)) /\ ReplyOk(eddsa_sign(d, cfg, pkey, c))
    BY CodeOk DEF ecdsa_sign, eddsa_sign
  <1> QED
    BY <1>5, <1>6, <1>7, <1>8, <1>9

\* The counter and MAC-and-Destroy commands keep the device well formed.
LEMMA CounterOk ==
  ASSUME NEW d, DeviceType(d), NEW cfg, NEW pkey, NEW c \in CommandType
  PROVE  /\ ReplyOk(mcounter_init(d, cfg, pkey, c))
         /\ ReplyOk(mcounter_update(d, cfg, pkey, c))
         /\ ReplyOk(mcounter_get(d, cfg, pkey, c))
         /\ ReplyOk(mac_and_destroy(d, cfg, pkey, c))
  <1>1. /\ Slots(d.mcounters, MCOUNTER_MAX, 0..MCOUNTER_VALUE_MAX) /\ MCOUNTER_MAX \in Nat
        /\ Slots(d.macandd, MACANDD_SLOT_MAX, Nat) /\ MACANDD_SLOT_MAX \in Nat
        /\ c.n \in Nat /\ c.k \in Nat
    BY DEF DeviceType, MCOUNTER_MAX, MACANDD_SLOT_MAX, CommandType
  <1>2. ASSUME NEW s \in 0..MCOUNTER_MAX, NEW v \in 0..MCOUNTER_VALUE_MAX
        PROVE  DeviceType([d EXCEPT !.mcounters = Insert(d.mcounters, s, v)])
    BY <1>1, InsertSlots, FieldUpdate
  <1>3. ReplyOk(mcounter_init(d, cfg, pkey, c))
    <2>1. ~(c.n > MCOUNTER_VALUE_MAX) => c.n \in 0..MCOUNTER_VALUE_MAX
      BY <1>1, CounterAssumption
    <2>2. mcounter_index(cfg, pkey, c, UAP.MCOUNTER_INIT) => c.slot \in 0..MCOUNTER_MAX
      BY <1>1, SlotInRange DEF mcounter_index
    <2> QED
      BY <1>2, <2>1, <2>2, CodeOk DEF mcounter_init
  <1>4. ReplyOk(mcounter_update(d, cfg, pkey, c))
    <2>1. c.slot \in DOMAIN d.mcounters /\ d.mcounters[c.slot] # 0
            => /\ d.mcounters[c.slot] - 1 \in 0..MCOUNTER_VALUE_MAX
               /\ c.slot \in 0..MCOUNTER_MAX
      BY <1>1, CounterAssumption DEF Slots
    <2> QED
      BY <1>2, <2>1, CodeOk DEF mcounter_update
  <1>5. ReplyOk(mcounter_get(d, cfg, pkey, c))
    BY CodeOk DEF mcounter_get
  <1>6. ReplyOk(mac_and_destroy(d, cfg, pkey, c))
    <2>1. ASSUME NEW s \in 0..MACANDD_SLOT_MAX
          PROVE  DeviceType([d EXCEPT !.macandd = Insert(d.macandd, s, c.k)])
      BY <1>1, InsertSlots, FieldUpdate
    <2>2. DeviceType([d EXCEPT !.macandd = Insert(d.macandd, c.slot, c.k)])
            => ReplyOk(Reply("OK", 36, [d EXCEPT !.macandd = Insert(d.macandd, c.slot, c.k)]))
      BY CodeOk
    <2> QED
      BY <1>1, <2>1, <2>2, SlotInRange, CodeOk DEF mac_and_destroy
  <1> QED
    BY <1>3, <1>4, <1>5, <1>6

\* What dispatch answers: a bare reply that leaves the device alone, or what the handler
\* of the command answers.
LEMMA DispatchReply ==
  ASSUME NEW d, NEW cfg, NEW pkey, NEW spect \in BOOLEAN, NEW c
  PROVE  \/ \E r : \E size \in {1, c.len} :
              dispatch(d, cfg, pkey, spect, c).reply = Reply(r, size, d)
         \/ c.len # 0 /\ dispatch(d, cfg, pkey, spect, c).reply = Execute(d, cfg, pkey, c)
  <1> DEFINE o == dispatch(d, cfg, pkey, spect, c)
  <1>1. /\ \A r, s : Result(r, s).reply = r
        /\ \A s : GenErr(d, s).reply = Reply("NONE", 1, d)
    BY DEF Result, GenErr, Code
  <1>2. CASE c.len = 0
    <2>1. o.reply = Reply("INVALID_CMD", 1, d)
      BY <1>1, <1>2 DEF dispatch, Code
    <2> QED
      BY <2>1
  <1>3. CASE c.len # 0 /\ ~known(c)
    <2>1. o.reply = Reply("INVALID_CMD", 1, d)
      BY <1>1, <1>3 DEF dispatch, Code
    <2> QED
      BY <2>1
  <1>4. CASE c.len # 0 /\ known(c) /\ ~size_ok(c) /\ strict_l3_sizes
    <2>1. o.reply = Reply("NONE", 1, d)
      BY <1>1, <1>4, Zenon DEF dispatch
    <2> QED
      BY <2>1
  <1>5. CASE c.len # 0 /\ known(c) /\ ~strict_l3_sizes /\ ~size_ok(c) /\ es_lenient(c) # "EXECUTE"
    <2>1. o.reply = Reply(es_lenient(c), 1, d)
      BY <1>1, <1>5, Zenon DEF dispatch, Code
    <2> QED
      BY <2>1
  <1>6. CASE /\ c.len # 0 /\ known(c)
             /\ size_ok(c) \/ (~strict_l3_sizes /\ es_lenient(c) = "EXECUTE")
    <2>1. CASE spect /\ ~is_spect(c.id)
      <3>1. o.reply = Reply("ZERO", IF c.id = "PING" THEN c.len ELSE 1, d)
        BY <1>1, <1>6, <2>1, Zenon DEF dispatch
      <3> QED
        BY <3>1
    <2>2. CASE ~(spect /\ ~is_spect(c.id))
      BY <1>1, <1>6, <2>2, Zenon DEF dispatch
    <2> QED
      BY <2>1, <2>2
  <1> QED
    BY <1>2, <1>3, <1>4, <1>5, <1>6

\* Every L3 command, known or not, well formed or not, leaves a well-formed device and
\* answers with a result of some bytes.
THEOREM DispatchOk ==
  ASSUME NEW d, DeviceType(d), NEW cfg, NEW pkey, NEW spect \in BOOLEAN, NEW c \in CommandType
  PROVE  ReplyOk(dispatch(d, cfg, pkey, spect, c).reply)
  <1>1. c.len \in Nat /\ c.n \in Nat
    BY DEF CommandType
  <1>2. ReplyOk(ping(d, cfg, pkey, c)) /\ ReplyOk(random(d, cfg, pkey, c))
    <2>1. ReplyOk(Reply("OK", c.len, d)) /\ ReplyOk(Reply("OK", 4 + c.n, d))
      BY <1>1, CodeOk
    <2>2. ReplyOk(Code("UNAUTHORIZED", d))
      BY CodeOk
    <2> QED
      BY <2>1, <2>2, Zenon DEF ping, random
  <1>3. ReplyOk(Execute(d, cfg, pkey, c))
    BY <1>2, PairingOk, ConfigOk, RMemOk, EccOk, CounterOk, CodeOk DEF Execute
  <1> QED
    BY <1>1, <1>3, CodeOk, DispatchReply

\* A freshly provisioned device is well formed.
LEMMA ProvisionOk == DeviceType(Provision)
  <1>1. \A max, T : Slots(Empty, max, T)
    BY DEF Slots, Empty
  <1>2. Slots(Insert(Empty, 0, [key |-> FACTORY_KEY, state |-> "Written"]), PAIRING_SLOT_MAX,
              [key : Nat, state : {"Written", "Invalidated"}])
    <2>1. /\ [key |-> FACTORY_KEY, state |-> "Written"]
               \in [key : Nat, state : {"Written", "Invalidated"}]
          /\ 0 \in 0..PAIRING_SLOT_MAX
      BY DEF FACTORY_KEY, PAIRING_SLOT_MAX
    <2> QED
      BY <1>1, <2>1, InsertSlots
  <1>3. default_r_config_start_up \subseteq 0..31 /\ default_i_config_start_up \subseteq 0..31
    BY PersonalityAssumption DEF default_r_config_start_up, default_i_config_start_up
  <1>4. /\ ConfigType({START_UP} \X default_r_config_start_up)
        /\ ConfigType({START_UP} \X default_i_config_start_up)
    <2>1. START_UP \in {a \in 0..(CONFIG_OBJECT_SIZE - 1) : a % 4 = 0}
      BY DEF START_UP, CONFIG_OBJECT_SIZE
    <2> QED
      BY <1>3, <2>1 DEF ConfigType
  <1> QED
    BY <1>1, <1>2, <1>4 DEF Provision, DeviceType

\* The configuration in force, R-Config masked by I-Config, is a configuration.
LEMMA EffectiveOk ==
  ASSUME NEW d, DeviceType(d)
  PROVE  ConfigType(effective_config(d))
  BY DEF DeviceType, ConfigType, effective_config

\* The flag a command leaves behind is a flag.
LEMMA SpectOk ==
  ASSUME NEW d, NEW z, NEW pkey, NEW s \in BOOLEAN, NEW c
  PROVE  dispatch(d, z, pkey, s, c).spect \in BOOLEAN
  <1>1. /\ \A r, b : Result(r, b).spect = b
        /\ \A b : GenErr(d, b).spect = b
    BY DEF Result, GenErr
  <1>2. (s \/ is_spect(c.id)) \in BOOLEAN
    BY DEF is_spect
  <1>3. CASE c.len = 0
    BY <1>1, <1>3 DEF dispatch
  <1>4. CASE c.len # 0 /\ ~known(c)
    BY <1>1, <1>4 DEF dispatch
  <1>5. CASE c.len # 0 /\ known(c) /\ ~size_ok(c) /\ strict_l3_sizes
    BY <1>1, <1>2, <1>5, Zenon DEF dispatch
  <1>6. CASE /\ c.len # 0 /\ known(c)
             /\ size_ok(c) \/ ~strict_l3_sizes
    BY <1>1, <1>6, Zenon DEF dispatch
  <1> QED
    BY <1>3, <1>4, <1>5, <1>6
=============================================================================
