-------------------------- MODULE TropicDeviceProofs --------------------------
(***************************************************************************)
(* Theorems about the device of TropicDevice, for every set of commands,   *)
(* every personality and every outcome of a write to the store file.       *)
(***************************************************************************)
EXTENDS TropicDevice, TropicL3Proofs

\* Type correctness of the device: no command, boot, restart, reprovisioning or failed
\* write makes the device, the configuration in force or the saved device ill-formed.
THEOREM DeviceTypeCorrect == DSpec => []DTypeOK
  <1>1. DInit => DTypeOK
    BY ProvisionOk, EffectiveOk DEF DInit, DTypeOK
  <1>2. DTypeOK /\ [DNext]_dvars => DTypeOK'
    <2> SUFFICES ASSUME DTypeOK, [DNext]_dvars PROVE DTypeOK'
      OBVIOUS
    <2>1. ASSUME NEW pkey \in 0..PAIRING_SLOT_MAX, NEW c \in Commands, Command(pkey, c)
          PROVE  DTypeOK'
      <3> DEFINE o == dispatch(dev, cfg, pkey, spect, c)
      <3>1. DeviceType(o.reply.dev) /\ o.spect \in BOOLEAN
        BY CommandsAssumption, DispatchOk, SpectOk DEF DTypeOK, ReplyOk
      <3>2. disk' = disk \/ disk' = Torn \/ disk' = o.reply.dev
        BY <2>1 DEF Command, persist
      <3> QED
        BY <2>1, <3>1, <3>2 DEF Command, DTypeOK
    <2>2. CASE Boot
      BY <2>2, EffectiveOk DEF Boot, DTypeOK
    <2>3. CASE Restart
      BY <2>3, EffectiveOk DEF Restart, DTypeOK
    <2>4. CASE Reprovision
      BY <2>4, ProvisionOk, EffectiveOk DEF Reprovision, DTypeOK
    <2>5. CASE UNCHANGED dvars
      BY <2>5 DEF dvars, DTypeOK
    <2> QED
      BY <2>1, <2>2, <2>3, <2>4, <2>5 DEF DNext
  <1> QED
    BY <1>1, <1>2, PTL DEF DSpec

-----------------------------------------------------------------------------
\* A command that is not on the list of mutates_store changes nothing.
LEMMA OnlyMutatorsChange ==
  ASSUME NEW d, NEW z, NEW pkey, NEW s \in BOOLEAN, NEW c \in CommandType,
         dispatch(d, z, pkey, s, c).reply.dev # d
  PROVE  c.len > 0 /\ mutates_store(c.id)
  <1>1. \A r, size : Reply(r, size, d).dev = d /\ Code(r, d).dev = d
    BY DEF Reply, Code
  <1>3. /\ ping(d, z, pkey, c).dev = d
        /\ pairing_key_read(d, z, pkey, c).dev = d
        /\ \A addr : config_read(d, z, pkey, c, addr).dev = d
        /\ r_mem_read(d, z, pkey, c).dev = d
        /\ random(d, z, pkey, c).dev = d
    BY <1>1, Zenon DEF ping, pairing_key_read, config_read, r_mem_read, random
  <1>4. /\ ecc_read(d, z, pkey, c).dev = d
        /\ ecdsa_sign(d, z, pkey, c).dev = d
        /\ eddsa_sign(d, z, pkey, c).dev = d
        /\ mcounter_get(d, z, pkey, c).dev = d
    BY <1>1, Zenon DEF ecc_read, ecdsa_sign, eddsa_sign, mcounter_get
  <1>5. ~mutates_store(c.id) => Execute(d, z, pkey, c).dev = d
    BY <1>1, <1>3, <1>4 DEF Execute, mutates_store
  <1>6. c.len \in Nat
    BY DEF CommandType
  <1> QED
    BY <1>1, <1>5, <1>6, DispatchReply

\* As long as writing the store file works, the file holds exactly the device in memory:
\* the list of commands tcp_server saves after (mutates_store) misses none that changes it.
THEOREM FileIsCurrent == DSpec => []SavedUnlessWriteFailed
  <1>1. DInit => SavedUnlessWriteFailed
    BY DEF DInit, SavedUnlessWriteFailed
  <1>2. DTypeOK /\ SavedUnlessWriteFailed /\ [DNext]_dvars => SavedUnlessWriteFailed'
    <2> SUFFICES ASSUME DTypeOK, disk = dev, SaveOutcomes = {"saved"}, [DNext]_dvars
                 PROVE  disk' = dev'
      BY DEF SavedUnlessWriteFailed
    <2>1. ASSUME NEW pkey \in 0..PAIRING_SLOT_MAX, NEW c \in Commands, Command(pkey, c)
          PROVE  disk' = dev'
      <3>1. CASE c.len > 0 /\ mutates_store(c.id)
        BY <2>1, <3>1 DEF Command, persist
      <3>2. CASE ~(c.len > 0 /\ mutates_store(c.id))
        BY <2>1, <3>2, CommandsAssumption, OnlyMutatorsChange DEF Command, DTypeOK
      <3> QED
        BY <3>1, <3>2
    <2>2. CASE Boot \/ Restart \/ Reprovision \/ UNCHANGED dvars
      BY <2>2 DEF Boot, Restart, Reprovision, dvars
    <2> QED
      BY <2>1, <2>2 DEF DNext
  <1> QED
    BY <1>1, <1>2, DeviceTypeCorrect, PTL DEF DSpec

-----------------------------------------------------------------------------
\* No command sets a cleared bit of I-Config again.
LEMMA IConfigOnlyShrinksRights ==
  ASSUME NEW d, DeviceType(d), NEW z, NEW pkey, NEW s \in BOOLEAN, NEW c
  PROVE  d.i_config \subseteq dispatch(d, z, pkey, s, c).reply.dev.i_config
  <1> DEFINE Keeps(r) == d.i_config \subseteq r.dev.i_config
  <1>1. \A r, size : Keeps(Reply(r, size, d)) /\ Keeps(Code(r, d))
    BY DEF Reply, Code
  <1>3. \A r, size, f : /\ Keeps(Code(r, [d EXCEPT !.pairing = f]))
                         /\ Keeps(Code(r, [d EXCEPT !.r_config = f]))
                         /\ Keeps(Code(r, [d EXCEPT !.i_config = d.i_config \cup f]))
                         /\ Keeps(Code(r, [d EXCEPT !.ecc = f]))
                         /\ Keeps(Code(r, [d EXCEPT !.r_mem = f]))
                         /\ Keeps(Code(r, [d EXCEPT !.mcounters = f]))
                         /\ Keeps(Reply(r, size, [d EXCEPT !.macandd = f]))
    BY DEF DeviceType, Reply, Code
  <1> HIDE DEF Keeps
  <1>4. /\ Keeps(ping(d, z, pkey, c)) /\ Keeps(pairing_key_write(d, z, pkey, c))
        /\ Keeps(pairing_key_read(d, z, pkey, c)) /\ Keeps(pairing_key_invalidate(d, z, pkey, c))
    BY <1>1, <1>3 DEF ping, pairing_key_write, pairing_key_read, pairing_key_invalidate
  <1>5. /\ Keeps(r_config_write(d, z, pkey, c)) /\ Keeps(r_config_erase(d, z, pkey))
        /\ Keeps(i_config_write(d, z, pkey, c))
        /\ \A addr : Keeps(config_read(d, z, pkey, c, addr))
    BY <1>1, <1>3 DEF r_config_write, r_config_erase, i_config_write, config_read
  <1>6. /\ Keeps(r_mem_write(d, z, pkey, c)) /\ Keeps(r_mem_read(d, z, pkey, c))
        /\ Keeps(r_mem_erase(d, z, pkey, c)) /\ Keeps(random(d, z, pkey, c))
    BY <1>1, <1>3 DEF r_mem_write, r_mem_read, r_mem_erase, random
  <1>7. /\ Keeps(ecc_generate(d, z, pkey, c)) /\ Keeps(ecc_store(d, z, pkey, c))
        /\ Keeps(ecc_read(d, z, pkey, c)) /\ Keeps(ecc_erase(d, z, pkey, c))
    BY <1>1, <1>3 DEF ecc_generate, ecc_store, ecc_read, ecc_erase
  <1>8. Keeps(ecdsa_sign(d, z, pkey, c)) /\ Keeps(eddsa_sign(d, z, pkey, c))
    BY <1>1 DEF ecdsa_sign, eddsa_sign
  <1>9. /\ Keeps(mcounter_init(d, z, pkey, c)) /\ Keeps(mcounter_update(d, z, pkey, c))
        /\ Keeps(mcounter_get(d, z, pkey, c)) /\ Keeps(mac_and_destroy(d, z, pkey, c))
    BY <1>1, <1>3 DEF mcounter_init, mcounter_update, mcounter_get, mac_and_destroy
  <1>10. Keeps(Execute(d, z, pkey, c))
    BY <1>1, <1>4, <1>5, <1>6, <1>7, <1>8, <1>9 DEF Execute
  <1>11. Keeps(dispatch(d, z, pkey, s, c).reply)
    BY <1>1, <1>10, DispatchReply
  <1> QED
    BY <1>11 DEF Keeps

\* A right revoked in I-Config and in force stays revoked, whatever commands, boots and
\* restarts on an up-to-date file follow.
THEOREM RevocationHolds == DSpec => RevocationIsPermanent
  <1>1. ASSUME DTypeOK, [DNext]_dvars, ~Reprovision, Restart => disk = dev
        PROVE  cfg \cap dev.i_config \subseteq cfg' \cap dev'.i_config
    <2>1. ASSUME NEW pkey \in 0..PAIRING_SLOT_MAX, NEW c \in Commands, Command(pkey, c)
          PROVE  cfg \cap dev.i_config \subseteq cfg' \cap dev'.i_config
      BY <1>1, <2>1, IConfigOnlyShrinksRights DEF Command, DTypeOK
    <2>2. CASE Boot
      BY <2>2 DEF Boot, effective_config
    <2>3. CASE Restart
      BY <1>1, <2>3 DEF Restart, effective_config
    <2>4. CASE UNCHANGED dvars
      BY <2>4 DEF dvars
    <2> QED
      BY <1>1, <2>1, <2>2, <2>3, <2>4 DEF DNext
  <1>2. DTypeOK /\ [DNext]_dvars
          => [~Reprovision /\ (Restart => disk = dev)
                => cfg \cap dev.i_config \subseteq cfg' \cap dev'.i_config]_dvars
    BY <1>1
  <1> QED
    BY <1>2, DeviceTypeCorrect, PTL DEF DSpec, RevocationIsPermanent

-----------------------------------------------------------------------------
(***************************************************************************)
(* What one command may do, object by object: f is the object the command  *)
(* finds and g the one it leaves, for a session of pairing slot pkey.      *)
(***************************************************************************)
PairingLawful(pkey, f, g) ==
    /\ \A s \in DOMAIN f : /\ s \in DOMAIN g
                           /\ g[s].key = f[s].key
                           /\ f[s].state = "Invalidated" => g[s].state = "Invalidated"
    /\ \A s \in Added(f, g) : Granted(pkey, {UAP.PAIRING_KEY_WRITE}, s)
    /\ \A s \in Rewritten(f, g) : Granted(pkey, {UAP.PAIRING_KEY_INVALIDATE}, s)

RConfigLawful(pkey, f, g) ==
    /\ g = {} \/ \A z \in g \ f : Erased(f, z[1])
    /\ g # f => Granted(pkey, {UAP.R_CONFIG_WRITE_ERASE}, 0)

IConfigLawful(pkey, f, g) ==
    /\ f \subseteq g
    /\ \A z \in g \ f : Granted(pkey, {UAP.I_CONFIG_WRITE}, IF z[1] < 256 THEN 0 ELSE 1)

EccLawful(pkey, f, g) ==
    /\ \A s \in DOMAIN f \cap DOMAIN g : g[s] = f[s]
    /\ \A s \in Added(f, g) : /\ Granted(pkey, {UAP.ECC_KEY_GENERATE, UAP.ECC_KEY_STORE}, s \div 8)
                              /\ g[s].curve = "P256" => ValidScalar(g[s].k)
    /\ \A s \in Removed(f, g) : Granted(pkey, {UAP.ECC_KEY_ERASE}, s \div 8)

RMemLawful(pkey, f, g) ==
    /\ \A s \in DOMAIN f \cap DOMAIN g : g[s] = f[s]
    /\ \A s \in Added(f, g) : Granted(pkey, {UAP.R_MEM_DATA_WRITE}, s \div 128)
    /\ \A s \in Removed(f, g) : Granted(pkey, {UAP.R_MEM_DATA_ERASE}, s \div 128)

CountersLawful(pkey, f, g) ==
    /\ \A s \in Changed(f, g) : Granted(pkey, {UAP.MCOUNTER_INIT, UAP.MCOUNTER_UPDATE}, s \div 4)
    /\ \A s \in DOMAIN f : /\ s \in DOMAIN g
                           /\ \/ g[s] = f[s]
                              \/ g[s] = f[s] - 1 /\ g[s] >= 0
                              \/ Granted(pkey, {UAP.MCOUNTER_INIT}, s \div 4)

MacLawful(pkey, f, g) ==
    \A s \in Changed(f, g) : Granted(pkey, {UAP.MAC_AND_DESTROY}, s \div 32)

Lawful(pkey, d, e) ==
    /\ PairingLawful(pkey, d.pairing, e.pairing)
    /\ RConfigLawful(pkey, d.r_config, e.r_config)
    /\ IConfigLawful(pkey, d.i_config, e.i_config)
    /\ EccLawful(pkey, d.ecc, e.ecc)
    /\ RMemLawful(pkey, d.r_mem, e.r_mem)
    /\ CountersLawful(pkey, d.mcounters, e.mcounters)
    /\ MacLawful(pkey, d.macandd, e.macandd)

\* Leaving an object alone is lawful.
LEMMA SameIsLawful ==
  ASSUME NEW pkey, NEW f
  PROVE  /\ PairingLawful(pkey, f, f) /\ RConfigLawful(pkey, f, f) /\ IConfigLawful(pkey, f, f)
         /\ EccLawful(pkey, f, f) /\ RMemLawful(pkey, f, f) /\ CountersLawful(pkey, f, f)
         /\ MacLawful(pkey, f, f)
  BY DEF PairingLawful, RConfigLawful, IConfigLawful, EccLawful, RMemLawful, CountersLawful,
         MacLawful, Added, Removed, Rewritten, Changed

\* A command that changes one object lawfully changes the device lawfully.
LEMMA OneObjectLawful ==
  ASSUME NEW pkey, NEW d, DeviceType(d), NEW g
  PROVE  /\ Lawful(pkey, d, d)
         /\ PairingLawful(pkey, d.pairing, g) => Lawful(pkey, d, [d EXCEPT !.pairing = g])
         /\ RConfigLawful(pkey, d.r_config, g) => Lawful(pkey, d, [d EXCEPT !.r_config = g])
         /\ IConfigLawful(pkey, d.i_config, g) => Lawful(pkey, d, [d EXCEPT !.i_config = g])
         /\ EccLawful(pkey, d.ecc, g) => Lawful(pkey, d, [d EXCEPT !.ecc = g])
         /\ RMemLawful(pkey, d.r_mem, g) => Lawful(pkey, d, [d EXCEPT !.r_mem = g])
         /\ CountersLawful(pkey, d.mcounters, g) => Lawful(pkey, d, [d EXCEPT !.mcounters = g])
         /\ MacLawful(pkey, d.macandd, g) => Lawful(pkey, d, [d EXCEPT !.macandd = g])
  BY SameIsLawful DEF Lawful, DeviceType

\* A slot check that passes is a right granted for the slot's group.
LEMMA CheckGrants ==
  ASSUME NEW pkey \in 0..PAIRING_SLOT_MAX, NEW c \in CommandType, NEW max, NEW group \in Nat \ {0},
         NEW addr, SlotAllowed(cfg, pkey, c, max, group, addr), NEW regs, addr \in regs
  PROVE  Granted(pkey, regs, c.slot \div group)
  BY DEF SlotAllowed, allowed, Granted, CommandType

\* The pairing-key commands are lawful.
LEMMA PairingIsLawful ==
  ASSUME NEW pkey \in 0..PAIRING_SLOT_MAX, NEW d, DeviceType(d), NEW c \in CommandType
  PROVE  /\ Lawful(pkey, d, pairing_key_write(d, cfg, pkey, c).dev)
         /\ Lawful(pkey, d, pairing_key_invalidate(d, cfg, pkey, c).dev)
  <1> DEFINE f == d.pairing
  <1>1. \A r, e : Code(r, e).dev = e
    BY DEF Code, Reply
  <1>2. c.slot \div 1 = c.slot
    BY DEF CommandType
  <1>3. Lawful(pkey, d, pairing_key_write(d, cfg, pkey, c).dev)
    <2> DEFINE g == Insert(f, c.slot, [key |-> c.k, state |-> "Written"])
    <2>1. ASSUME SlotAllowed(cfg, pkey, c, PAIRING_SLOT_MAX, 1, UAP.PAIRING_KEY_WRITE),
                 c.slot \notin DOMAIN f
          PROVE  PairingLawful(pkey, f, g)
      <3>1. Granted(pkey, {UAP.PAIRING_KEY_WRITE}, c.slot)
        BY <1>2, <2>1, CheckGrants
      <3> QED
        BY <2>1, <3>1 DEF PairingLawful, Insert, Added, Rewritten
    <2> HIDE DEF g
    <2>2. PairingLawful(pkey, f, g) => Lawful(pkey, d, [d EXCEPT !.pairing = g])
      BY OneObjectLawful
    <2> QED
      BY <1>1, <2>1, <2>2, OneObjectLawful DEF pairing_key_write, g
  <1>4. Lawful(pkey, d, pairing_key_invalidate(d, cfg, pkey, c).dev)
    <2> DEFINE g == Insert(f, c.slot, [key |-> f[c.slot].key, state |-> "Invalidated"])
    <2>1. ASSUME SlotAllowed(cfg, pkey, c, PAIRING_SLOT_MAX, 1, UAP.PAIRING_KEY_INVALIDATE),
                 c.slot \in DOMAIN f
          PROVE  PairingLawful(pkey, f, g)
      <3>1. Granted(pkey, {UAP.PAIRING_KEY_INVALIDATE}, c.slot)
        BY <1>2, <2>1, CheckGrants
      <3> QED
        BY <2>1, <3>1 DEF PairingLawful, Insert, Added, Rewritten
    <2> HIDE DEF g
    <2>2. PairingLawful(pkey, f, g) => Lawful(pkey, d, [d EXCEPT !.pairing = g])
      BY OneObjectLawful
    <2> QED
      BY <1>1, <2>1, <2>2, OneObjectLawful DEF pairing_key_invalidate, g
  <1> QED
    BY <1>3, <1>4

\* The configuration commands are lawful.
LEMMA ConfigIsLawful ==
  ASSUME NEW pkey \in 0..PAIRING_SLOT_MAX, NEW d, DeviceType(d), NEW c \in CommandType
  PROVE  /\ Lawful(pkey, d, r_config_write(d, cfg, pkey, c).dev)
         /\ Lawful(pkey, d, r_config_erase(d, cfg, pkey).dev)
         /\ Lawful(pkey, d, i_config_write(d, cfg, pkey, c).dev)
  <1>1. \A r, e : Code(r, e).dev = e
    BY DEF Code, Reply
  <1>2. allowed(cfg, pkey, UAP.R_CONFIG_WRITE_ERASE, 0)
          => Granted(pkey, {UAP.R_CONFIG_WRITE_ERASE}, 0)
    BY DEF allowed, Granted
  <1>3. Lawful(pkey, d, r_config_write(d, cfg, pkey, c).dev)
    <2> DEFINE g == d.r_config \cup ({c.slot} \X c.zeros)
    <2>1. ASSUME allowed(cfg, pkey, UAP.R_CONFIG_WRITE_ERASE, 0), Erased(d.r_config, c.slot)
          PROVE  RConfigLawful(pkey, d.r_config, g)
      BY <1>2, <2>1 DEF RConfigLawful
    <2> HIDE DEF g
    <2>2. RConfigLawful(pkey, d.r_config, g) => Lawful(pkey, d, [d EXCEPT !.r_config = g])
      BY OneObjectLawful
    <2> QED
      BY <1>1, <2>1, <2>2, OneObjectLawful DEF r_config_write, g
  <1>4. Lawful(pkey, d, r_config_erase(d, cfg, pkey).dev)
    <2>1. allowed(cfg, pkey, UAP.R_CONFIG_WRITE_ERASE, 0) => RConfigLawful(pkey, d.r_config, {})
      BY <1>2 DEF RConfigLawful
    <2>2. RConfigLawful(pkey, d.r_config, {}) => Lawful(pkey, d, [d EXCEPT !.r_config = {}])
      BY OneObjectLawful
    <2> QED
      BY <1>1, <2>1, <2>2, OneObjectLawful DEF r_config_erase
  <1>5. Lawful(pkey, d, i_config_write(d, cfg, pkey, c).dev)
    <2> DEFINE g == d.i_config \cup {<<c.slot, c.n>>}
    <2>1. ASSUME config_addr(cfg, pkey, c, UAP.I_CONFIG_WRITE) = "OK"
          PROVE  IConfigLawful(pkey, d.i_config, g)
      <3>1. allowed(cfg, pkey, UAP.I_CONFIG_WRITE, IF c.slot < 256 THEN 0 ELSE 8)
        BY <2>1 DEF config_addr
      <3>2. Granted(pkey, {UAP.I_CONFIG_WRITE}, IF c.slot < 256 THEN 0 ELSE 1)
        BY <3>1 DEF allowed, Granted
      <3> QED
        BY <3>2 DEF IConfigLawful
    <2> HIDE DEF g
    <2>2. IConfigLawful(pkey, d.i_config, g) => Lawful(pkey, d, [d EXCEPT !.i_config = g])
      BY OneObjectLawful
    <2> QED
      BY <1>1, <2>1, <2>2, OneObjectLawful DEF i_config_write, g
  <1> QED
    BY <1>3, <1>4, <1>5

\* The user-data commands are lawful.
LEMMA RMemIsLawful ==
  ASSUME NEW pkey \in 0..PAIRING_SLOT_MAX, NEW d, DeviceType(d), NEW c \in CommandType
  PROVE  /\ Lawful(pkey, d, r_mem_write(d, cfg, pkey, c).dev)
         /\ Lawful(pkey, d, r_mem_erase(d, cfg, pkey, c).dev)
  <1> DEFINE f == d.r_mem
  <1>1. \A r, e : Code(r, e).dev = e
    BY DEF Code, Reply
  <1>2. Lawful(pkey, d, r_mem_write(d, cfg, pkey, c).dev)
    <2> DEFINE g == Insert(f, c.slot, c.len - 4)
    <2>1. ASSUME r_mem_slot(cfg, pkey, c, UAP.R_MEM_DATA_WRITE), c.slot \notin DOMAIN f
          PROVE  RMemLawful(pkey, f, g)
      <3>1. Granted(pkey, {UAP.R_MEM_DATA_WRITE}, c.slot \div 128)
        BY <2>1, CheckGrants DEF r_mem_slot
      <3> QED
        BY <2>1, <3>1 DEF RMemLawful, Insert, Added, Removed
    <2> HIDE DEF g
    <2>2. RMemLawful(pkey, f, g) => Lawful(pkey, d, [d EXCEPT !.r_mem = g])
      BY OneObjectLawful
    <2> QED
      BY <1>1, <2>1, <2>2, OneObjectLawful DEF r_mem_write, g
  <1>3. Lawful(pkey, d, r_mem_erase(d, cfg, pkey, c).dev)
    <2> DEFINE g == Remove(f, c.slot)
    <2>1. ASSUME r_mem_slot(cfg, pkey, c, UAP.R_MEM_DATA_ERASE)
          PROVE  RMemLawful(pkey, f, g)
      <3>1. Granted(pkey, {UAP.R_MEM_DATA_ERASE}, c.slot \div 128)
        BY <2>1, CheckGrants DEF r_mem_slot
      <3> QED
        BY <3>1 DEF RMemLawful, Remove, Added, Removed
    <2> HIDE DEF g
    <2>2. RMemLawful(pkey, f, g) => Lawful(pkey, d, [d EXCEPT !.r_mem = g])
      BY OneObjectLawful
    <2> QED
      BY <1>1, <2>1, <2>2, OneObjectLawful DEF r_mem_erase, g
  <1> QED
    BY <1>2, <1>3

\* A key that enters an empty slot, checked or generated, enters it lawfully.
LEMMA KeyIsLawful ==
  ASSUME NEW pkey \in 0..PAIRING_SLOT_MAX, NEW f, NEW c \in CommandType, NEW v,
         NEW addr \in {UAP.ECC_KEY_GENERATE, UAP.ECC_KEY_STORE},
         ecc_slot(cfg, pkey, c, addr), c.slot \notin DOMAIN f,
         v.curve = "P256" => ValidScalar(v.k)
  PROVE  EccLawful(pkey, f, Insert(f, c.slot, v))
  <1>1. Granted(pkey, {UAP.ECC_KEY_GENERATE, UAP.ECC_KEY_STORE}, c.slot \div 8)
    BY CheckGrants DEF ecc_slot
  <1> QED
    BY <1>1 DEF EccLawful, Insert, Added, Removed

\* The key commands are lawful, and every P-256 key they store can be used.
LEMMA EccIsLawful ==
  ASSUME NEW pkey \in 0..PAIRING_SLOT_MAX, NEW d, DeviceType(d), NEW c \in CommandType
  PROVE  /\ Lawful(pkey, d, ecc_generate(d, cfg, pkey, c).dev)
         /\ Lawful(pkey, d, ecc_store(d, cfg, pkey, c).dev)
         /\ Lawful(pkey, d, ecc_erase(d, cfg, pkey, c).dev)
  <1> DEFINE f == d.ecc
  <1>1. \A r, e : Code(r, e).dev = e
    BY DEF Code, Reply
  <1>2. Lawful(pkey, d, ecc_generate(d, cfg, pkey, c).dev)
    <2> DEFINE v == [curve |-> from_wire_id(c.n), origin |-> "Generated", k |-> GENERATED_KEY]
               g == Insert(f, c.slot, v)
    <2>1. ValidScalar(v.k)
      BY DEF ValidScalar, GENERATED_KEY
    <2>2. ecc_slot(cfg, pkey, c, UAP.ECC_KEY_GENERATE) /\ c.slot \notin DOMAIN f
            => EccLawful(pkey, f, g)
      <3> HIDE DEF v
      <3> QED
        BY <2>1, KeyIsLawful
    <2> HIDE DEF g
    <2>3. EccLawful(pkey, f, g) => Lawful(pkey, d, [d EXCEPT !.ecc = g])
      BY OneObjectLawful
    <2> QED
      BY <1>1, <2>2, <2>3, OneObjectLawful DEF ecc_generate, g
  <1>3. Lawful(pkey, d, ecc_store(d, cfg, pkey, c).dev)
    <2> DEFINE v == [curve |-> from_wire_id(c.n), origin |-> "Stored", k |-> c.k]
               g == Insert(f, c.slot, v)
    <2>1. ~(from_wire_id(c.n) = "P256" /\ ~ValidScalar(c.k))
            => (v.curve = "P256" => ValidScalar(v.k))
      OBVIOUS
    <2>2. ASSUME ecc_slot(cfg, pkey, c, UAP.ECC_KEY_STORE), c.slot \notin DOMAIN f,
                 ~(from_wire_id(c.n) = "P256" /\ ~ValidScalar(c.k))
          PROVE  EccLawful(pkey, f, g)
      <3> HIDE DEF v
      <3> QED
        BY <2>1, <2>2, KeyIsLawful
    <2> HIDE DEF g
    <2>3. EccLawful(pkey, f, g) => Lawful(pkey, d, [d EXCEPT !.ecc = g])
      BY OneObjectLawful
    <2> QED
      BY <1>1, <2>2, <2>3, OneObjectLawful DEF ecc_store, g
  <1>4. Lawful(pkey, d, ecc_erase(d, cfg, pkey, c).dev)
    <2> DEFINE g == Remove(f, c.slot)
    <2>1. ASSUME ecc_slot(cfg, pkey, c, UAP.ECC_KEY_ERASE)
          PROVE  EccLawful(pkey, f, g)
      <3>1. Granted(pkey, {UAP.ECC_KEY_ERASE}, c.slot \div 8)
        BY <2>1, CheckGrants DEF ecc_slot
      <3> QED
        BY <3>1 DEF EccLawful, Remove, Added, Removed
    <2> HIDE DEF g
    <2>2. EccLawful(pkey, f, g) => Lawful(pkey, d, [d EXCEPT !.ecc = g])
      BY OneObjectLawful
    <2> QED
      BY <1>1, <2>1, <2>2, OneObjectLawful DEF ecc_erase, g
  <1> QED
    BY <1>2, <1>3, <1>4

\* The counter and MAC-and-Destroy commands are lawful.
LEMMA CountersAreLawful ==
  ASSUME NEW pkey \in 0..PAIRING_SLOT_MAX, NEW d, DeviceType(d), NEW c \in CommandType
  PROVE  /\ Lawful(pkey, d, mcounter_init(d, cfg, pkey, c).dev)
         /\ Lawful(pkey, d, mcounter_update(d, cfg, pkey, c).dev)
         /\ Lawful(pkey, d, mac_and_destroy(d, cfg, pkey, c).dev)
  <1> DEFINE f == d.mcounters
             rights == {UAP.MCOUNTER_INIT, UAP.MCOUNTER_UPDATE}
  <1>1. \A r, size, e : Code(r, e).dev = e /\ Reply(r, size, e).dev = e
    BY DEF Code, Reply
  <1>2. Lawful(pkey, d, mcounter_init(d, cfg, pkey, c).dev)
    <2> DEFINE g == Insert(f, c.slot, c.n)
    <2>1. ASSUME mcounter_index(cfg, pkey, c, UAP.MCOUNTER_INIT)
          PROVE  CountersLawful(pkey, f, g)
      <3>1. /\ Granted(pkey, rights, c.slot \div 4)
            /\ Granted(pkey, {UAP.MCOUNTER_INIT}, c.slot \div 4)
        BY <2>1, CheckGrants DEF mcounter_index
      <3> QED
        BY <3>1 DEF CountersLawful, Insert, Added, Removed, Rewritten, Changed
    <2> HIDE DEF g
    <2>2. CountersLawful(pkey, f, g) => Lawful(pkey, d, [d EXCEPT !.mcounters = g])
      BY OneObjectLawful
    <2> QED
      BY <1>1, <2>1, <2>2, OneObjectLawful DEF mcounter_init, g
  <1>3. Lawful(pkey, d, mcounter_update(d, cfg, pkey, c).dev)
    <2> DEFINE g == Insert(f, c.slot, f[c.slot] - 1)
    <2>1. ASSUME mcounter_index(cfg, pkey, c, UAP.MCOUNTER_UPDATE), c.slot \in DOMAIN f,
                 f[c.slot] # 0
          PROVE  CountersLawful(pkey, f, g)
      <3>1. Granted(pkey, rights, c.slot \div 4)
        BY <2>1, CheckGrants DEF mcounter_index
      <3>2. f[c.slot] \in Nat
        BY <2>1, CounterAssumption DEF DeviceType, Slots
      <3>3. f[c.slot] - 1 >= 0
        BY <2>1, <3>2
      <3>4. \A s \in Changed(f, g) : s = c.slot
        BY <2>1 DEF Insert, Added, Removed, Rewritten, Changed
      <3>5. /\ \A s \in DOMAIN f : s \in DOMAIN g /\ (s # c.slot => g[s] = f[s])
            /\ g[c.slot] = f[c.slot] - 1
        BY <2>1 DEF Insert
      <3> HIDE DEF g
      <3> QED
        BY <3>1, <3>3, <3>4, <3>5 DEF CountersLawful
    <2> HIDE DEF g
    <2>2. CountersLawful(pkey, f, g) => Lawful(pkey, d, [d EXCEPT !.mcounters = g])
      BY OneObjectLawful
    <2>3. Lawful(pkey, d, d)
      BY OneObjectLawful
    <2>4. \/ mcounter_update(d, cfg, pkey, c).dev = d
          \/ /\ mcounter_index(cfg, pkey, c, UAP.MCOUNTER_UPDATE)
             /\ c.slot \in DOMAIN f /\ f[c.slot] # 0
             /\ mcounter_update(d, cfg, pkey, c).dev = [d EXCEPT !.mcounters = g]
      BY <1>1 DEF mcounter_update, g
    <2> QED
      BY <2>1, <2>2, <2>3, <2>4
  <1>4. Lawful(pkey, d, mac_and_destroy(d, cfg, pkey, c).dev)
    <2> DEFINE g == Insert(d.macandd, c.slot, c.k)
    <2>1. ASSUME SlotAllowed(cfg, pkey, c, MACANDD_SLOT_MAX, 32, UAP.MAC_AND_DESTROY)
          PROVE  MacLawful(pkey, d.macandd, g)
      <3>1. Granted(pkey, {UAP.MAC_AND_DESTROY}, c.slot \div 32)
        BY <2>1, CheckGrants
      <3> QED
        BY <3>1 DEF MacLawful, Insert, Added, Removed, Rewritten, Changed
    <2> HIDE DEF g
    <2>2. MacLawful(pkey, d.macandd, g) => Lawful(pkey, d, [d EXCEPT !.macandd = g])
      BY OneObjectLawful
    <2>3. Lawful(pkey, d, d)
      BY OneObjectLawful
    <2>4. \/ mac_and_destroy(d, cfg, pkey, c).dev = d
          \/ /\ SlotAllowed(cfg, pkey, c, MACANDD_SLOT_MAX, 32, UAP.MAC_AND_DESTROY)
             /\ mac_and_destroy(d, cfg, pkey, c).dev = [d EXCEPT !.macandd = g]
      BY <1>1 DEF mac_and_destroy, g
    <2> QED
      BY <2>1, <2>2, <2>3, <2>4
  <1> QED
    BY <1>2, <1>3, <1>4

\* Every L3 command, whoever sends it and whatever it holds, is lawful.
LEMMA DispatchIsLawful ==
  ASSUME NEW pkey \in 0..PAIRING_SLOT_MAX, NEW d, DeviceType(d), NEW s \in BOOLEAN,
         NEW c \in CommandType
  PROVE  Lawful(pkey, d, dispatch(d, cfg, pkey, s, c).reply.dev)
  <1> DEFINE e == dispatch(d, cfg, pkey, s, c).reply.dev
             x == Execute(d, cfg, pkey, c).dev
  <1>1. Lawful(pkey, d, d)
    BY OneObjectLawful
  <1>2. \A r, size : Reply(r, size, d).dev = d /\ Code(r, d).dev = d
    BY DEF Reply, Code
  <1>3. CASE ~(c.len > 0 /\ mutates_store(c.id))
    <2>1. e = d
      BY <1>3, OnlyMutatorsChange
    <2> QED
      BY <1>1, <2>1
  <1>4. CASE mutates_store(c.id)
    <2>1. Lawful(pkey, d, x)
      BY <1>4, PairingIsLawful, ConfigIsLawful, RMemIsLawful, EccIsLawful, CountersAreLawful
         DEF Execute, mutates_store
    <2>2. e = d \/ e = x
      BY <1>2, DispatchReply
    <2> QED
      BY <1>1, <2>1, <2>2
  <1> QED
    BY <1>3, <1>4

\* Whatever command comes next, from whichever session: what is written once stays, and the
\* command only does what the configuration in force grants to the session's pairing slot.
THEOREM OnlyGrantedChanges == DSpec => []ChangesAreAllowed
  <1>1. DTypeOK => ChangesAreAllowed
    <2> SUFFICES ASSUME DTypeOK, NEW pkey \in 0..PAIRING_SLOT_MAX, NEW c \in Commands
                 PROVE  \E e \in {After(pkey, c)} : WriteOnce(dev, e) /\ Privileged(pkey, dev, e)
      BY DEF ChangesAreAllowed
    <2> DEFINE e == After(pkey, c)
    <2>1. Lawful(pkey, dev, e)
      BY CommandsAssumption, DispatchIsLawful DEF DTypeOK, After
    <2> HIDE DEF e
    <2>2. WriteOnce(dev, e) /\ Privileged(pkey, dev, e)
      BY <2>1 DEF WriteOnce, Privileged, Lawful, PairingLawful, RConfigLawful, IConfigLawful,
                  EccLawful, RMemLawful, CountersLawful, MacLawful
    <2> QED
      BY <2>2 DEF e
  <1> QED
    BY <1>1, DeviceTypeCorrect, PTL

\* An initialised counter never disappears and only counts down, one at a time and not
\* below zero, unless the session may initialise the counters of its group.
THEOREM CountersCountDown == DSpec => []CountersOnlyCountDown
  <1>1. DTypeOK => CountersOnlyCountDown
    <2> SUFFICES ASSUME DTypeOK, NEW pkey \in 0..PAIRING_SLOT_MAX, NEW c \in Commands,
                        NEW s \in DOMAIN dev.mcounters
                 PROVE  /\ s \in DOMAIN After(pkey, c).mcounters
                        /\ \/ After(pkey, c).mcounters[s] = dev.mcounters[s]
                           \/ /\ After(pkey, c).mcounters[s] = dev.mcounters[s] - 1
                              /\ After(pkey, c).mcounters[s] >= 0
                           \/ Granted(pkey, {UAP.MCOUNTER_INIT}, s \div 4)
      BY DEF CountersOnlyCountDown
    <2>1. Lawful(pkey, dev, After(pkey, c))
      BY CommandsAssumption, DispatchIsLawful DEF DTypeOK, After
    <2> QED
      BY <2>1 DEF Lawful, CountersLawful
  <1> QED
    BY <1>1, DeviceTypeCorrect, PTL

-----------------------------------------------------------------------------
KeysUsable(d) == \A s \in DOMAIN d.ecc : d.ecc[s].curve = "P256" => ValidScalar(d.ecc[s].k)

\* The store file may be what the device restarts from, so its keys are usable too.
KeysInv == KeysUsable(dev) /\ (disk # Torn => KeysUsable(disk))

\* Every P-256 key in the store is one the signing and reading commands can decode, through
\* commands, failed and torn writes, restarts and reprovisioning.
THEOREM KeysStayUsable == DSpec => []StoredKeysUsable
  <1>1. KeysUsable(Provision)
    BY DEF KeysUsable, Provision, Empty
  <1>2. DInit => KeysInv
    BY <1>1 DEF DInit, KeysInv
  <1>3. DTypeOK /\ KeysInv /\ [DNext]_dvars => KeysInv'
    <2> SUFFICES ASSUME DTypeOK, KeysInv, [DNext]_dvars PROVE KeysInv'
      OBVIOUS
    <2>1. ASSUME NEW pkey \in 0..PAIRING_SLOT_MAX, NEW c \in Commands, Command(pkey, c)
          PROVE  KeysInv'
      <3> DEFINE e == dispatch(dev, cfg, pkey, spect, c).reply.dev
      <3>1. Lawful(pkey, dev, e)
        BY CommandsAssumption, DispatchIsLawful DEF DTypeOK
      <3>2. dev' = e /\ (disk' = disk \/ disk' = Torn \/ disk' = e)
        BY <2>1 DEF Command, persist
      <3> HIDE DEF e
      <3>3. KeysUsable(e)
        BY <3>1 DEF Lawful, EccLawful, Added, KeysUsable, KeysInv
      <3> QED
        BY <3>2, <3>3 DEF KeysInv
    <2>2. CASE Boot
      BY <2>2 DEF Boot, KeysInv
    <2>3. CASE Restart
      BY <2>3 DEF Restart, KeysInv
    <2>4. CASE Reprovision
      BY <1>1, <2>4 DEF Reprovision, KeysInv
    <2>5. CASE UNCHANGED dvars
      BY <2>5 DEF dvars, KeysInv
    <2> QED
      BY <2>1, <2>2, <2>3, <2>4, <2>5 DEF DNext
  <1>4. KeysInv => StoredKeysUsable
    BY DEF KeysInv, KeysUsable, StoredKeysUsable
  <1> QED
    BY <1>2, <1>3, <1>4, DeviceTypeCorrect, PTL DEF DSpec
=============================================================================
