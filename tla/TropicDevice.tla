----------------------------- MODULE TropicDevice -----------------------------
(***************************************************************************)
(* What a TROPIC01 promises the programs that use it, without its link     *)
(* layers: every L3 command is one atomic step on the persistent device,   *)
(* gated by the configuration the firmware read when it last booted, and a *)
(* command that may have changed the device is saved before it answers.    *)
(*                                                                         *)
(* The configuration is read eagerly, at boot.  The chip (TropicChip)      *)
(* reads it lazily, the first time it is needed, and is shown to implement *)
(* this specification.                                                     *)
(***************************************************************************)
EXTENDS TropicL3

VARIABLES
    dev,     \* the device in memory
    cfg,     \* the effective configuration the firmware read at boot
    spect,   \* L3State.spect_size_error
    disk     \* the content of the store file

dvars == <<dev, cfg, spect, disk>>

-----------------------------------------------------------------------------
DInit ==
    /\ dev = Provision
    /\ cfg = effective_config(dev)
    /\ spect = FALSE
    /\ disk = dev

Command(pkey, c) ==
    LET o == dispatch(dev, cfg, pkey, spect, c)
    IN  /\ dev' = o.reply.dev
        /\ spect' = o.spect
        /\ IF c.len > 0 /\ mutates_store(c.id) THEN disk' \in persist(disk, o.reply.dev) ELSE UNCHANGED disk
        /\ UNCHANGED cfg

\* Start-up of the firmware: a power cycle or a Startup_Req.
Boot ==
    /\ cfg' = effective_config(dev)
    /\ spect' = FALSE
    /\ UNCHANGED <<dev, disk>>

\* The simulator process dies and is started again on its store file.
Restart ==
    /\ disk # Torn
    /\ dev' = disk
    /\ cfg' = effective_config(disk)
    /\ spect' = FALSE
    /\ UNCHANGED disk

\* The simulator is started with TROPIC01_SIM_FRESH: a new device replaces the file.
Reprovision ==
    /\ dev' = Provision
    /\ disk' = Provision
    /\ cfg' = effective_config(Provision)
    /\ spect' = FALSE

DNext ==
    \/ \E pkey \in 0..PAIRING_SLOT_MAX, c \in Commands : Command(pkey, c)
    \/ Boot
    \/ Restart
    \/ Reprovision

DSpec == DInit /\ [][DNext]_dvars

-----------------------------------------------------------------------------
(***************************************************************************)
(* Properties.                                                             *)
(***************************************************************************)
\* Type invariant: the device in memory is well formed, and so is the store file unless
\* it is torn.
DTypeOK ==
    /\ DeviceType(dev)
    /\ disk = Torn \/ DeviceType(disk)
    /\ ConfigType(cfg)
    /\ spect \in BOOLEAN

\* The device a command of pairing slot pkey would leave behind.
After(pkey, c) == dispatch(dev, cfg, pkey, spect, c).reply.dev

\* Every command that can change the device is on the list of commands to save
\* (mutates_store): as long as writing the file works, the file and the device in memory
\* never differ, so a process killed at any moment restarts with what it had.
SavedUnlessWriteFailed == SaveOutcomes = {"saved"} => disk = dev

\* Every P-256 key in the store is one the signing and reading commands can decode, so an
\* accepted key never makes its slot answer FAIL: whichever command filled the slot, the
\* scalar was checked.
StoredKeysUsable ==
    \A s \in DOMAIN dev.ecc : dev.ecc[s].curve = "P256" => ValidScalar(dev.ecc[s].k)

\* The objects that a command finds and those it leaves, whoever sends it.  A pairing key
\* is never replaced and an invalidated slot is never valid again; a key or data record can
\* only be erased; a written R-Config register only changes when the whole object is
\* erased; an I-Config bit once cleared stays cleared.
WriteOnce(d, e) ==
    /\ \A s \in DOMAIN d.pairing :
          /\ s \in DOMAIN e.pairing
          /\ e.pairing[s].key = d.pairing[s].key
          /\ d.pairing[s].state = "Invalidated" => e.pairing[s].state = "Invalidated"
    /\ \A s \in DOMAIN d.ecc \cap DOMAIN e.ecc : e.ecc[s] = d.ecc[s]
    /\ \A s \in DOMAIN d.r_mem \cap DOMAIN e.r_mem : e.r_mem[s] = d.r_mem[s]
    /\ e.r_config = {} \/ \A z \in e.r_config \ d.r_config : Erased(d.r_config, z[1])
    /\ d.i_config \subseteq e.i_config

\* A right that was revoked in I-Config when the firmware booted is revoked for ever: no
\* command, reboot or power cycle - and no restart while the file is up to date - brings
\* it back into force.
RevocationIsPermanent ==
    [][~Reprovision /\ (Restart => disk = dev)
         => cfg \cap dev.i_config \subseteq cfg' \cap dev'.i_config]_dvars

Added(f, g) == DOMAIN g \ DOMAIN f
Removed(f, g) == DOMAIN f \ DOMAIN g
Rewritten(f, g) == {x \in DOMAIN f \cap DOMAIN g : f[x] # g[x]}
Changed(f, g) == Added(f, g) \cup Removed(f, g) \cup Rewritten(f, g)

\* Pairing slot pkey holds, in the configuration in force, one of the rights `regs` for the
\* group of slots at field f.
Granted(pkey, regs, f) == \E r \in regs : <<r, 8 * f + pkey>> \notin cfg

\* Whatever the command adds, rewrites or removes, the session's pairing slot was granted
\* the right to do that to the object by the configuration in force, in the field of the
\* object's group.
Privileged(pkey, d, e) ==
    /\ \A s \in Added(d.pairing, e.pairing) : Granted(pkey, {UAP.PAIRING_KEY_WRITE}, s)
    /\ \A s \in Rewritten(d.pairing, e.pairing) : Granted(pkey, {UAP.PAIRING_KEY_INVALIDATE}, s)
    /\ \A s \in Added(d.ecc, e.ecc) :
          Granted(pkey, {UAP.ECC_KEY_GENERATE, UAP.ECC_KEY_STORE}, s \div 8)
    /\ \A s \in Removed(d.ecc, e.ecc) : Granted(pkey, {UAP.ECC_KEY_ERASE}, s \div 8)
    /\ \A s \in Added(d.r_mem, e.r_mem) : Granted(pkey, {UAP.R_MEM_DATA_WRITE}, s \div 128)
    /\ \A s \in Removed(d.r_mem, e.r_mem) : Granted(pkey, {UAP.R_MEM_DATA_ERASE}, s \div 128)
    /\ \A s \in Changed(d.mcounters, e.mcounters) :
          Granted(pkey, {UAP.MCOUNTER_INIT, UAP.MCOUNTER_UPDATE}, s \div 4)
    /\ \A s \in Changed(d.macandd, e.macandd) : Granted(pkey, {UAP.MAC_AND_DESTROY}, s \div 32)
    /\ e.r_config # d.r_config => Granted(pkey, {UAP.R_CONFIG_WRITE_ERASE}, 0)
    /\ \A z \in e.i_config \ d.i_config :
          Granted(pkey, {UAP.I_CONFIG_WRITE}, IF z[1] < 256 THEN 0 ELSE 1)

\* In every state the device can reach, whatever the next command is and whoever sends it: it
\* never rewrites what is written once, and it only does what the configuration in force
\* grants to the pairing slot of the session.
ChangesAreAllowed ==
    \A pkey \in 0..PAIRING_SLOT_MAX, c \in Commands :
      \E e \in {After(pkey, c)} : WriteOnce(dev, e) /\ Privileged(pkey, dev, e)

\* An initialised counter only moves down, one at a time and never below zero, except by a
\* session with the right to initialise the counters of its group.
CountersOnlyCountDown ==
    \A pkey \in 0..PAIRING_SLOT_MAX, c \in Commands :
      \A s \in DOMAIN dev.mcounters :
        LET v == After(pkey, c).mcounters
        IN  /\ s \in DOMAIN v
            /\ \/ v[s] = dev.mcounters[s]
               \/ v[s] = dev.mcounters[s] - 1 /\ v[s] >= 0
               \/ Granted(pkey, {UAP.MCOUNTER_INIT}, s \div 4)
=============================================================================
