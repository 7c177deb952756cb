------------------------------ MODULE TropicL3 ------------------------------
(***************************************************************************)
(* The L3 command layer of the TROPIC01 simulator (handlers/l3.rs) as pure *)
(* operators: `dispatch` takes the persistent device, the configuration in *)
(* force, the pairing slot of the session, the firmware state left by      *)
(* earlier commands and one decrypted command, and returns the outcome.    *)
(*                                                                         *)
(* Data.  A 32-bit configuration register is the set of its ZERO bits and  *)
(* a configuration object is a set of pairs <<address, zero bit>>: {} is   *)
(* the erased object (every register 0xffffffff), AND-ing two objects is   *)
(* the union, and privilege bit b of register a is granted iff <<a, b>> is *)
(* not in the set.  The slot maps are partial functions, as the BTreeMaps  *)
(* of the code are.  Key material, stored data and MACs are represented by *)
(* numbers; a user-data record is represented by its length in bytes.      *)
(*                                                                         *)
(* A command is a record                                                   *)
(*   id    the command ID ("UNKNOWN": an ID without a handler),            *)
(*   len   the size of the plaintext in bytes (0: no command ID at all),   *)
(*   slot  the u16 after the ID: a slot, an index or a register address,   *)
(*   n     the numeric operand: curve ID, bit index or counter value,      *)
(*   k     the 32-byte operand: a key or the MAC input,                    *)
(*   zeros the zero bits of the u32 operand of R_Config_Write.             *)
(***************************************************************************)
EXTENDS Integers, FiniteSets

CONSTANTS
    Personality,          \* the simulated part and firmware
    MCOUNTER_VALUE_MAX,   \* largest counter value (0xfffffffe in the code)
    Commands,             \* the L3 commands the hosts send
    SaveOutcomes          \* what a write of the store file may do

ASSUME PersonalityAssumption == Personality \in {"Es012", "Es220", "Fw220"}
ASSUME CounterAssumption == MCOUNTER_VALUE_MAX \in Nat
ASSUME SaveAssumption == SaveOutcomes \subseteq {"saved", "refused", "torn"}

(***************************************************************************)
(* Personality: what the firmware release and the part change.             *)
(***************************************************************************)
FirmwareV2 == Personality \in {"Es220", "Fw220"}
strict_l3_sizes == FirmwareV2
busy_poll_ready == FirmwareV2
bad_pairing_index_alarms == ~FirmwareV2
eddsa_empty_message_unsigned == ~FirmwareV2
r_mem_slot_max == IF FirmwareV2 THEN 475 ELSE 444

START_UP == 0
SLEEP_MODE == 24

default_r_config_start_up ==
    CASE Personality = "Es012" -> {4}
      [] Personality = "Es220" -> {2, 4}
      [] Personality = "Fw220" -> {}
default_i_config_start_up == IF Personality = "Es220" THEN {2} ELSE {}

(***************************************************************************)
(* The persistent device.                                                  *)
(***************************************************************************)
Empty == [x \in {} |-> 0]
Insert(f, x, v) == [y \in DOMAIN f \cup {x} |-> IF y = x THEN v ELSE f[y]]
Remove(f, x) == [y \in DOMAIN f \ {x} |-> f[y]]

FACTORY_KEY == 1

Provision ==
    [ pairing   |-> Insert(Empty, 0, [key |-> FACTORY_KEY, state |-> "Written"]),
      r_config  |-> {START_UP} \X default_r_config_start_up,
      i_config  |-> {START_UP} \X default_i_config_start_up,
      ecc       |-> Empty,
      r_mem     |-> Empty,
      mcounters |-> Empty,
      macandd   |-> Empty ]

effective_config(d) == d.r_config \cup d.i_config

\* A store file that load_or_init refuses: fs::write truncates before it writes.
Torn == [pairing |-> Empty]

\* What the file may hold after `d` was written over `old`: replaced, kept because
\* the write was refused, or left torn.
persist(old, d) ==
    {f \in {d} : "saved" \in SaveOutcomes} \cup
    {f \in {old} : "refused" \in SaveOutcomes} \cup
    {f \in {Torn} : "torn" \in SaveOutcomes}

(***************************************************************************)
(* User Access Privilege registers and object limits.                      *)
(***************************************************************************)
UAP == [ PAIRING_KEY_WRITE |-> 32, PAIRING_KEY_READ |-> 36, PAIRING_KEY_INVALIDATE |-> 40,
         R_CONFIG_WRITE_ERASE |-> 48, R_CONFIG_READ |-> 52,
         I_CONFIG_WRITE |-> 64, I_CONFIG_READ |-> 68, PING |-> 256,
         R_MEM_DATA_WRITE |-> 272, R_MEM_DATA_READ |-> 276, R_MEM_DATA_ERASE |-> 280,
         RANDOM_VALUE_GET |-> 288, ECC_KEY_GENERATE |-> 304, ECC_KEY_STORE |-> 308,
         ECC_KEY_READ |-> 312, ECC_KEY_ERASE |-> 316, ECDSA_SIGN |-> 320, EDDSA_SIGN |-> 324,
         MCOUNTER_INIT |-> 336, MCOUNTER_GET |-> 340, MCOUNTER_UPDATE |-> 344,
         MAC_AND_DESTROY |-> 352 ]

PAIRING_SLOT_MAX == 3
ECC_SLOT_MAX == 31
R_MEM_SLOT_MAX == 511
MCOUNTER_MAX == 15
MACANDD_SLOT_MAX == 127
PING_MAX == 4096
EDDSA_MSG_MAX == 4096
CONFIG_OBJECT_SIZE == 512

\* The sizes each command may have, its ID byte included.
Sizes == [ PING |-> 1 .. (1 + PING_MAX),
           PAIRING_KEY_WRITE |-> {36}, PAIRING_KEY_READ |-> {3}, PAIRING_KEY_INVALIDATE |-> {3},
           R_CONFIG_WRITE |-> {8}, R_CONFIG_READ |-> {3}, R_CONFIG_ERASE |-> {1},
           I_CONFIG_WRITE |-> {4}, I_CONFIG_READ |-> {3},
           R_MEM_DATA_WRITE |-> 5 .. (4 + r_mem_slot_max),
           R_MEM_DATA_READ |-> {3}, R_MEM_DATA_ERASE |-> {3},
           RANDOM_VALUE_GET |-> {2}, ECC_KEY_GENERATE |-> {4}, ECC_KEY_STORE |-> {48},
           ECC_KEY_READ |-> {3}, ECC_KEY_ERASE |-> {3}, ECDSA_SIGN |-> {48},
           EDDSA_SIGN |-> 16 .. (16 + EDDSA_MSG_MAX),
           MCOUNTER_INIT |-> {8}, MCOUNTER_UPDATE |-> {3}, MCOUNTER_GET |-> {3},
           MAC_AND_DESTROY |-> {36} ]

CommandType ==
    [id : DOMAIN Sizes \cup {"UNKNOWN"}, len : Nat, slot : Nat, n : Nat, k : Nat,
     zeros : SUBSET (0..31)]

ASSUME CommandsAssumption == Commands \subseteq CommandType

known(c) == c.id \in DOMAIN Sizes
size_ok(c) == c.len \in Sizes[c.id]

is_spect(id) == id \in {"ECC_KEY_GENERATE", "ECC_KEY_STORE", "ECC_KEY_READ", "ECC_KEY_ERASE",
                        "ECDSA_SIGN", "EDDSA_SIGN", "MAC_AND_DESTROY"}

\* Mutant: MAC_And_Destroy missing from the list of commands to save.
mutates_store_short(id) == id \in {"PAIRING_KEY_WRITE", "PAIRING_KEY_INVALIDATE", "R_CONFIG_WRITE",
                                   "R_CONFIG_ERASE", "I_CONFIG_WRITE", "R_MEM_DATA_WRITE",
                                   "R_MEM_DATA_ERASE", "ECC_KEY_GENERATE", "ECC_KEY_STORE",
                                   "ECC_KEY_ERASE", "MCOUNTER_INIT", "MCOUNTER_UPDATE"}

mutates_store(id) == id \in {"PAIRING_KEY_WRITE", "PAIRING_KEY_INVALIDATE", "R_CONFIG_WRITE",
                             "R_CONFIG_ERASE", "I_CONFIG_WRITE", "R_MEM_DATA_WRITE",
                             "R_MEM_DATA_ERASE", "ECC_KEY_GENERATE", "ECC_KEY_STORE",
                             "ECC_KEY_ERASE", "MCOUNTER_INIT", "MCOUNTER_UPDATE",
                             "MAC_AND_DESTROY"}

\* How FW 0.1.2 answers a command of the wrong size; "EXECUTE" runs it anyway.
es_lenient(c) ==
    CASE c.id = "RANDOM_VALUE_GET" /\ c.len > 2 -> "EXECUTE"
      [] c.id \in {"ECDSA_SIGN", "MAC_AND_DESTROY", "EDDSA_SIGN"} -> "OK"
      [] OTHER -> "FAIL"

(***************************************************************************)
(* The command handlers.  Each returns the result code, the size of the    *)
(* result in bytes and the device it leaves behind.                        *)
(***************************************************************************)
Reply(r, size, d) == [result |-> r, len |-> size, dev |-> d]
Code(r, d) == Reply(r, 1, d)

\* Privilege field `pos` of register `addr`, for a session of pairing slot pkey.
allowed(cfg, pkey, addr, pos) == <<addr, pos + pkey>> \notin cfg

\* The slot is in range and its group of `group` slots is granted to pkey.
SlotAllowed(cfg, pkey, c, max, group, addr) ==
    c.slot <= max /\ allowed(cfg, pkey, addr, 8 * (c.slot \div group))

ping(d, cfg, pkey, c) ==
    IF allowed(cfg, pkey, UAP.PING, 0) THEN Reply("OK", c.len, d) ELSE Code("UNAUTHORIZED", d)

\* Mutant: a written slot is written again.
pairing_key_write_again(d, cfg, pkey, c) ==
    IF ~SlotAllowed(cfg, pkey, c, PAIRING_SLOT_MAX, 1, UAP.PAIRING_KEY_WRITE)
      THEN Code("UNAUTHORIZED", d)
    ELSE Code("OK", [d EXCEPT !.pairing = Insert(@, c.slot, [key |-> c.k, state |-> "Written"])])

pairing_key_write(d, cfg, pkey, c) ==
    IF ~SlotAllowed(cfg, pkey, c, PAIRING_SLOT_MAX, 1, UAP.PAIRING_KEY_WRITE)
      THEN Code("UNAUTHORIZED", d)
    ELSE IF c.slot \in DOMAIN d.pairing THEN Code("FAIL", d)
    ELSE Code("OK", [d EXCEPT !.pairing = Insert(@, c.slot, [key |-> c.k, state |-> "Written"])])

pairing_key_read(d, cfg, pkey, c) ==
    IF ~SlotAllowed(cfg, pkey, c, PAIRING_SLOT_MAX, 1, UAP.PAIRING_KEY_READ)
      THEN Code("UNAUTHORIZED", d)
    ELSE IF c.slot \notin DOMAIN d.pairing THEN Code("SLOT_EMPTY", d)
    ELSE IF d.pairing[c.slot].state = "Invalidated" THEN Code("SLOT_INVALID", d)
    ELSE Reply("OK", 36, d)

pairing_key_invalidate(d, cfg, pkey, c) ==
    IF ~SlotAllowed(cfg, pkey, c, PAIRING_SLOT_MAX, 1, UAP.PAIRING_KEY_INVALIDATE)
      THEN Code("UNAUTHORIZED", d)
    ELSE IF c.slot \notin DOMAIN d.pairing THEN Code("FAIL", d)
    ELSE Code("OK", [d EXCEPT !.pairing =
                       Insert(@, c.slot, [key |-> @[c.slot].key, state |-> "Invalidated"])])

\* "OK", or the code config_addr refuses register address c.slot with.
config_addr(cfg, pkey, c, addr) ==
    IF \/ c.slot >= CONFIG_OBJECT_SIZE
       \/ ~allowed(cfg, pkey, addr, IF c.slot < 256 THEN 0 ELSE 8)
      THEN "UNAUTHORIZED"
    ELSE IF c.slot % 4 # 0 THEN "FAIL" ELSE "OK"

Erased(config, addr) == \A b \in 0..31 : <<addr, b>> \notin config

r_config_write(d, cfg, pkey, c) ==
    IF \/ ~allowed(cfg, pkey, UAP.R_CONFIG_WRITE_ERASE, 0)
       \/ c.slot >= CONFIG_OBJECT_SIZE
      THEN Code("UNAUTHORIZED", d)
    ELSE IF c.slot % 4 # 0 \/ ~Erased(d.r_config, c.slot) THEN Code("FAIL", d)
    ELSE Code("OK", [d EXCEPT !.r_config = @ \cup ({c.slot} \X c.zeros)])

config_read(d, cfg, pkey, c, addr) ==
    LET check == config_addr(cfg, pkey, c, addr)
    IN  IF check = "OK" THEN Reply("OK", 8, d) ELSE Code(check, d)

\* Mutant: erasing R-Config erases I-Config with it.
erase_both_configs(d, cfg, pkey) ==
    IF allowed(cfg, pkey, UAP.R_CONFIG_WRITE_ERASE, 0)
      THEN Code("OK", [d EXCEPT !.r_config = {}, !.i_config = {}])
      ELSE Code("UNAUTHORIZED", d)

r_config_erase(d, cfg, pkey) ==
    IF allowed(cfg, pkey, UAP.R_CONFIG_WRITE_ERASE, 0)
      THEN Code("OK", [d EXCEPT !.r_config = {}])
      ELSE Code("UNAUTHORIZED", d)

i_config_write(d, cfg, pkey, c) ==
    LET check == config_addr(cfg, pkey, c, UAP.I_CONFIG_WRITE)
    IN  IF check # "OK" THEN Code(check, d)
        ELSE IF c.n > 31 THEN Code("FAIL", d)
        ELSE Code("OK", [d EXCEPT !.i_config = @ \cup {<<c.slot, c.n>>}])

r_mem_slot(cfg, pkey, c, addr) == SlotAllowed(cfg, pkey, c, R_MEM_SLOT_MAX, 128, addr)

r_mem_write(d, cfg, pkey, c) ==
    IF ~r_mem_slot(cfg, pkey, c, UAP.R_MEM_DATA_WRITE) THEN Code("UNAUTHORIZED", d)
    ELSE IF c.len - 4 \notin 1 .. r_mem_slot_max THEN Code("FAIL", d)
    ELSE IF c.slot \in DOMAIN d.r_mem THEN Code("SLOT_NOT_EMPTY", d)
    ELSE Code("OK", [d EXCEPT !.r_mem = Insert(@, c.slot, c.len - 4)])

r_mem_read(d, cfg, pkey, c) ==
    IF ~r_mem_slot(cfg, pkey, c, UAP.R_MEM_DATA_READ) THEN Code("UNAUTHORIZED", d)
    ELSE Reply("OK", 4 + (IF c.slot \in DOMAIN d.r_mem THEN d.r_mem[c.slot] ELSE 0), d)

r_mem_erase(d, cfg, pkey, c) ==
    IF ~r_mem_slot(cfg, pkey, c, UAP.R_MEM_DATA_ERASE) THEN Code("UNAUTHORIZED", d)
    ELSE Code("OK", [d EXCEPT !.r_mem = Remove(@, c.slot)])

random(d, cfg, pkey, c) ==
    IF allowed(cfg, pkey, UAP.RANDOM_VALUE_GET, 0) THEN Reply("OK", 4 + c.n, d)
    ELSE Code("UNAUTHORIZED", d)

\* Mutant: one privilege field for all key slots.
ecc_slot_one_group(cfg, pkey, c, addr) == SlotAllowed(cfg, pkey, c, ECC_SLOT_MAX, 32, addr)

ecc_slot(cfg, pkey, c, addr) == SlotAllowed(cfg, pkey, c, ECC_SLOT_MAX, 8, addr)

from_wire_id(n) == CASE n = 1 -> "P256" [] n = 2 -> "Ed25519" [] OTHER -> "None"

\* The P-256 scalars P256Secret::from_slice takes; operand 0 stands for one it refuses.
ValidScalar(k) == k # 0
GENERATED_KEY == 1

ecc_generate(d, cfg, pkey, c) ==
    IF ~ecc_slot(cfg, pkey, c, UAP.ECC_KEY_GENERATE) THEN Code("UNAUTHORIZED", d)
    ELSE IF from_wire_id(c.n) = "None" \/ c.slot \in DOMAIN d.ecc THEN Code("FAIL", d)
    ELSE Code("OK", [d EXCEPT !.ecc = Insert(@, c.slot,
                       [curve |-> from_wire_id(c.n), origin |-> "Generated", k |-> GENERATED_KEY])])

\* Mutant: a P-256 scalar is stored unchecked.
ecc_store_unchecked(d, cfg, pkey, c) ==
    IF ~ecc_slot(cfg, pkey, c, UAP.ECC_KEY_STORE) THEN Code("UNAUTHORIZED", d)
    ELSE IF from_wire_id(c.n) = "None" \/ c.slot \in DOMAIN d.ecc THEN Code("FAIL", d)
    ELSE Code("OK", [d EXCEPT !.ecc = Insert(@, c.slot,
                       [curve |-> from_wire_id(c.n), origin |-> "Stored", k |-> c.k])])

ecc_store(d, cfg, pkey, c) ==
    IF ~ecc_slot(cfg, pkey, c, UAP.ECC_KEY_STORE) THEN Code("UNAUTHORIZED", d)
    ELSE IF from_wire_id(c.n) = "None" \/ c.slot \in DOMAIN d.ecc THEN Code("FAIL", d)
    ELSE IF from_wire_id(c.n) = "P256" /\ ~ValidScalar(c.k) THEN Code("FAIL", d)
    ELSE Code("OK", [d EXCEPT !.ecc = Insert(@, c.slot,
                       [curve |-> from_wire_id(c.n), origin |-> "Stored", k |-> c.k])])

ecc_read(d, cfg, pkey, c) ==
    IF ~ecc_slot(cfg, pkey, c, UAP.ECC_KEY_READ) THEN Code("UNAUTHORIZED", d)
    ELSE IF c.slot \notin DOMAIN d.ecc THEN Code("INVALID_KEY", d)
    ELSE IF d.ecc[c.slot].curve = "Ed25519" THEN Reply("OK", 48, d)
    ELSE IF ValidScalar(d.ecc[c.slot].k) THEN Reply("OK", 80, d)
    ELSE Code("FAIL", d)

ecc_erase(d, cfg, pkey, c) ==
    IF ~ecc_slot(cfg, pkey, c, UAP.ECC_KEY_ERASE) THEN Code("UNAUTHORIZED", d)
    ELSE Code("OK", [d EXCEPT !.ecc = Remove(@, c.slot)])

ecdsa_sign(d, cfg, pkey, c) ==
    IF ~ecc_slot(cfg, pkey, c, UAP.ECDSA_SIGN) THEN Code("UNAUTHORIZED", d)
    ELSE IF c.slot \notin DOMAIN d.ecc THEN Code("INVALID_KEY", d)
    ELSE IF d.ecc[c.slot].curve # "P256" THEN Code("INVALID_KEY", d)
    ELSE IF ValidScalar(d.ecc[c.slot].k) THEN Reply("OK", 80, d)
    ELSE Code("FAIL", d)

eddsa_sign(d, cfg, pkey, c) ==
    IF ~ecc_slot(cfg, pkey, c, UAP.EDDSA_SIGN) THEN Code("UNAUTHORIZED", d)
    ELSE IF c.len = 16 /\ eddsa_empty_message_unsigned THEN Code("OK", d)
    ELSE IF c.slot \notin DOMAIN d.ecc THEN Code("INVALID_KEY", d)
    ELSE IF d.ecc[c.slot].curve # "Ed25519" THEN Code("INVALID_KEY", d)
    ELSE Reply("OK", 80, d)

mcounter_index(cfg, pkey, c, addr) == SlotAllowed(cfg, pkey, c, MCOUNTER_MAX, 4, addr)

mcounter_init(d, cfg, pkey, c) ==
    IF ~mcounter_index(cfg, pkey, c, UAP.MCOUNTER_INIT) THEN Code("UNAUTHORIZED", d)
    ELSE IF c.n > MCOUNTER_VALUE_MAX THEN Code("FAIL", d)
    ELSE Code("OK", [d EXCEPT !.mcounters = Insert(@, c.slot, c.n)])

\* Mutant: the u32 subtraction wraps at zero.
mcounter_update_wraps(d, cfg, pkey, c) ==
    IF ~mcounter_index(cfg, pkey, c, UAP.MCOUNTER_UPDATE) THEN Code("UNAUTHORIZED", d)
    ELSE IF c.slot \notin DOMAIN d.mcounters THEN Code("COUNTER_INVALID", d)
    ELSE Code("OK", [d EXCEPT !.mcounters =
                       Insert(@, c.slot, IF @[c.slot] = 0 THEN MCOUNTER_VALUE_MAX
                                                          ELSE @[c.slot] - 1)])

mcounter_update(d, cfg, pkey, c) ==
    IF ~mcounter_index(cfg, pkey, c, UAP.MCOUNTER_UPDATE) THEN Code("UNAUTHORIZED", d)
    ELSE IF c.slot \notin DOMAIN d.mcounters THEN Code("COUNTER_INVALID", d)
    ELSE IF d.mcounters[c.slot] = 0 THEN Code("UPDATE_ERR", d)
    ELSE Code("OK", [d EXCEPT !.mcounters = Insert(@, c.slot, @[c.slot] - 1)])

mcounter_get(d, cfg, pkey, c) ==
    IF ~mcounter_index(cfg, pkey, c, UAP.MCOUNTER_GET) THEN Code("UNAUTHORIZED", d)
    ELSE IF c.slot \notin DOMAIN d.mcounters THEN Code("COUNTER_INVALID", d)
    ELSE Reply("OK", 8, d)

\* The slot keeps F1(input, slot), represented by the input it was computed from.
mac_and_destroy(d, cfg, pkey, c) ==
    IF ~SlotAllowed(cfg, pkey, c, MACANDD_SLOT_MAX, 32, UAP.MAC_AND_DESTROY)
      THEN Code("UNAUTHORIZED", d)
    ELSE Reply("OK", 36, [d EXCEPT !.macandd = Insert(@, c.slot, c.k)])

(***************************************************************************)
(* Dispatch.                                                               *)
(***************************************************************************)
Execute(d, cfg, pkey, c) ==
    CASE c.id = "PING"                   -> ping(d, cfg, pkey, c)
      [] c.id = "PAIRING_KEY_WRITE"      -> pairing_key_write(d, cfg, pkey, c)
      [] c.id = "PAIRING_KEY_READ"       -> pairing_key_read(d, cfg, pkey, c)
      [] c.id = "PAIRING_KEY_INVALIDATE" -> pairing_key_invalidate(d, cfg, pkey, c)
      [] c.id = "R_CONFIG_WRITE"         -> r_config_write(d, cfg, pkey, c)
      [] c.id = "R_CONFIG_READ"          -> config_read(d, cfg, pkey, c, UAP.R_CONFIG_READ)
      [] c.id = "R_CONFIG_ERASE"         -> r_config_erase(d, cfg, pkey)
      [] c.id = "I_CONFIG_WRITE"         -> i_config_write(d, cfg, pkey, c)
      [] c.id = "I_CONFIG_READ"          -> config_read(d, cfg, pkey, c, UAP.I_CONFIG_READ)
      [] c.id = "R_MEM_DATA_WRITE"       -> r_mem_write(d, cfg, pkey, c)
      [] c.id = "R_MEM_DATA_READ"        -> r_mem_read(d, cfg, pkey, c)
      [] c.id = "R_MEM_DATA_ERASE"       -> r_mem_erase(d, cfg, pkey, c)
      [] c.id = "RANDOM_VALUE_GET"       -> random(d, cfg, pkey, c)
      [] c.id = "ECC_KEY_GENERATE"       -> ecc_generate(d, cfg, pkey, c)
      [] c.id = "ECC_KEY_STORE"          -> ecc_store(d, cfg, pkey, c)
      [] c.id = "ECC_KEY_READ"           -> ecc_read(d, cfg, pkey, c)
      [] c.id = "ECC_KEY_ERASE"          -> ecc_erase(d, cfg, pkey, c)
      [] c.id = "ECDSA_SIGN"             -> ecdsa_sign(d, cfg, pkey, c)
      [] c.id = "EDDSA_SIGN"             -> eddsa_sign(d, cfg, pkey, c)
      [] c.id = "MCOUNTER_INIT"          -> mcounter_init(d, cfg, pkey, c)
      [] c.id = "MCOUNTER_UPDATE"        -> mcounter_update(d, cfg, pkey, c)
      [] c.id = "MCOUNTER_GET"           -> mcounter_get(d, cfg, pkey, c)
      [] c.id = "MAC_AND_DESTROY"        -> mac_and_destroy(d, cfg, pkey, c)
      [] OTHER                           -> Code("INVALID_CMD", d)

\* A result to encrypt (`reply`), or "GenErr": refused at L2 and the session closed;
\* `spect` is the flag L3State.spect_size_error the command leaves behind.
Result(reply, spect) == [kind |-> "Result", reply |-> reply, spect |-> spect]
GenErr(d, spect) == [kind |-> "GenErr", reply |-> Code("NONE", d), spect |-> spect]

dispatch(d, cfg, pkey, spect, c) ==
    LET wrong_size == ~size_ok(c)
    IN  IF c.len = 0 THEN Result(Code("INVALID_CMD", d), spect)
        ELSE IF ~known(c) THEN Result(Code("INVALID_CMD", d), FALSE)
        ELSE IF wrong_size /\ strict_l3_sizes THEN GenErr(d, spect \/ is_spect(c.id))
        ELSE IF wrong_size /\ es_lenient(c) # "EXECUTE" THEN Result(Code(es_lenient(c), d), spect)
        ELSE IF spect /\ ~is_spect(c.id)
          THEN Result(Reply("ZERO", IF c.id = "PING" THEN c.len ELSE 1, d), FALSE)
        ELSE Result(Execute(d, cfg, pkey, c), FALSE)

(***************************************************************************)
(* Types.                                                                  *)
(***************************************************************************)
Slots(f, max, T) == DOMAIN f \subseteq 0..max /\ \A s \in DOMAIN f : f[s] \in T

ConfigType(z) == z \subseteq {a \in 0..(CONFIG_OBJECT_SIZE - 1) : a % 4 = 0} \X (0..31)

DeviceType(d) ==
    /\ d = [pairing |-> d.pairing, r_config |-> d.r_config, i_config |-> d.i_config,
            ecc |-> d.ecc, r_mem |-> d.r_mem, mcounters |-> d.mcounters, macandd |-> d.macandd]
    /\ Slots(d.pairing, PAIRING_SLOT_MAX, [key : Nat, state : {"Written", "Invalidated"}])
    /\ ConfigType(d.r_config)
    /\ ConfigType(d.i_config)
    /\ Slots(d.ecc, ECC_SLOT_MAX,
             [curve : {"P256", "Ed25519"}, origin : {"Generated", "Stored"}, k : Nat])
    /\ Slots(d.r_mem, R_MEM_SLOT_MAX, 1..r_mem_slot_max)
    /\ Slots(d.mcounters, MCOUNTER_MAX, 0..MCOUNTER_VALUE_MAX)
    /\ Slots(d.macandd, MACANDD_SLOT_MAX, Nat)
=============================================================================
