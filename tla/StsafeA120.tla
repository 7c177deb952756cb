----------------------------- MODULE StsafeA120 -----------------------------
(***************************************************************************)
(* The STSAFE-A120 simulator: a device with a serial number, key slots and *)
(* a certificate zone that every TCP connection shares                     *)
(* (stsafe-a120-sim/src).  The session of a connection has one field,      *)
(* ecdhe_private, which no command sets.                                   *)
(*                                                                         *)
(* Keys are numbered in the order they are drawn, and a signature, public  *)
(* key or shared secret is named by its private key; slot 0 of a device    *)
(* holds the key in its certificate, and 0 stands for no key.              *)
(***************************************************************************)
EXTENDS DeviceServer

CONSTANTS
    KeySlots,       \* key slots, with slot 0 and the ephemeral slot 255
    Frames,         \* the command frames that hosts send
    CertLength,     \* the length of the certificate zone
    StsafeKeys      \* bound on the keys drawn

ASSUME StsafeAssumption ==
    /\ {0, 255} \subseteq KeySlots /\ KeySlots \subseteq 0..255
    /\ {CertLength, StsafeKeys} \subseteq Nat \ {0}

VARIABLES
    shown,      \* history: per slot, the key of the last answer about it
    identities  \* history: the serial numbers and certificates that hosts were answered

svars == <<server, shown, identities>>

DEVICE_KEY_SLOT == 0
EPHEMERAL_KEY_SLOT == 255

fresh_device(key) ==
    [serial_number |-> key,
     slots |-> [s \in KeySlots |-> IF s = DEVICE_KEY_SLOT THEN key ELSE 0],
     certificate |-> key]

\* The outcome of a command: the device, the session, the status, and the key it used or the
\* serial number or certificate it returned.
Reply(d, se, status, key) == [device |-> d, session |-> se, status |-> status, key |-> key]
Error(d, se, status) == Reply(d, se, status, 0)

read(d, se, cmd) ==
    IF ~cmd.complete THEN Error(d, se, "LENGTH_ERROR")
    ELSE IF cmd.zone # 0 \/ cmd.offset + cmd.length > CertLength
    THEN Error(d, se, "INVALID_PARAMETER")
    ELSE Reply(d, se, "OK", d.certificate)

\* A key pair that leaves the key of a slot in use.
keypair_or_insert(d, se, cmd) ==
    IF ~cmd.complete THEN Error(d, se, "LENGTH_ERROR")
    ELSE IF ~cmd.p256 THEN Error(d, se, "INVALID_PARAMETER")
    ELSE Reply([d EXCEPT !.slots[cmd.slot] = IF @ = 0 THEN minted + 1 ELSE @], se, "OK", minted + 1)

\* Generate Key replaces the key of any slot, the ephemeral one like the others.
keypair(d, se, cmd) ==
    IF ~cmd.complete THEN Error(d, se, "LENGTH_ERROR")
    ELSE IF ~cmd.p256 THEN Error(d, se, "INVALID_PARAMETER")
    ELSE Reply([d EXCEPT !.slots[cmd.slot] = minted + 1], se, "OK", minted + 1)

sign(d, se, cmd) ==
    IF ~cmd.complete THEN Error(d, se, "LENGTH_ERROR")
    ELSE IF d.slots[cmd.slot] = 0 \/ cmd.length # 32 THEN Error(d, se, "INVALID_PARAMETER")
    ELSE Reply(d, se, "OK", d.slots[cmd.slot])

\* A signature names its key and digest; the answer is 1 when it is valid, 0 when it is not.
verify(d, se, cmd) ==
    IF ~cmd.complete THEN Error(d, se, "LENGTH_ERROR")
    ELSE IF ~cmd.p256 \/ cmd.length # 32 THEN Error(d, se, "INVALID_PARAMETER")
    ELSE Reply(d, se, "OK", IF cmd.on_curve /\ cmd.valid THEN 1 ELSE 0)

ecdh(d, se, cmd) ==
    IF ~cmd.complete THEN Error(d, se, "LENGTH_ERROR")
    ELSE IF ~cmd.uncompressed \/ d.slots[cmd.slot] = 0 \/ ~cmd.on_curve
    THEN Error(d, se, "INVALID_PARAMETER")
    ELSE Reply(d, se, "OK", d.slots[cmd.slot])

query(d, se, cmd) ==
    IF ~cmd.complete THEN Error(d, se, "LENGTH_ERROR")
    ELSE IF ~cmd.product_data THEN Error(d, se, "INVALID_PARAMETER")
    ELSE Reply(d, se, "OK", d.serial_number)

random(d, se, cmd) ==
    IF ~cmd.complete THEN Error(d, se, "LENGTH_ERROR")
    ELSE IF cmd.length = 0 THEN Error(d, se, "INVALID_PARAMETER")
    ELSE Reply(d, se, "OK", 0)

reset(se) == [se EXCEPT !.ecdhe_private = 0]

dispatch_frame(d, se, cmd) ==
    CASE cmd.op = "bad_crc" -> Error(d, se, "CRC_ERROR")
      [] cmd.op = "too_short" -> Error(d, se, "LENGTH_ERROR")
      [] cmd.op = "ECHO" -> Reply(d, se, "OK", 0)
      [] cmd.op = "GENERATE_RANDOM" -> random(d, se, cmd)
      [] cmd.op = "READ" -> read(d, se, cmd)
      [] cmd.op = "GENERATE_KEY" -> keypair(d, se, cmd)
      [] cmd.op = "GENERATE_SIGNATURE" -> sign(d, se, cmd)
      [] cmd.op = "VERIFY_SIGNATURE" -> verify(d, se, cmd)
      [] cmd.op = "ESTABLISH_KEY" -> ecdh(d, se, cmd)
      [] cmd.op = "QUERY" -> query(d, se, cmd)
      [] cmd.op \in {"HIBERNATE", "STANDBY", "RESET"} -> Reply(d, reset(se), "OK", 0)
      [] OTHER -> Error(d, se, "COMMAND_CODE_NOT_SUPPORTED")

(***************************************************************************)
(* The server (bin/tcp_server.rs).                                         *)
(***************************************************************************)
Shows(cmd) == cmd.op \in {"GENERATE_KEY", "GENERATE_SIGNATURE", "ESTABLISH_KEY"}

handle_frame(c, cmd) ==
    LET r == dispatch_frame(device, session[c], cmd)
        tracked == persistent /\ r.status = "OK"
    IN  /\ alive /\ session[c].open
        /\ cmd.op = "GENERATE_KEY" => minted < StsafeKeys
        /\ minted' = IF cmd.op = "GENERATE_KEY" /\ r.status = "OK" THEN minted + 1 ELSE minted
        /\ \/ /\ Answered(c, r)
              /\ shown' = IF tracked /\ Shows(cmd) THEN [shown EXCEPT ![cmd.slot] = r.key] ELSE shown
              /\ identities' =
                  IF tracked /\ cmd.op \in {"READ", "QUERY"} THEN identities \cup {r.key} ELSE identities
           \/ Unsaved(c, r) /\ UNCHANGED <<shown, identities>>
           \/ DiesSaving(c, r) /\ UNCHANGED <<shown, identities>>

StsafeConnect(c) == Connect(c, [open |-> TRUE, ecdhe_private |-> 0]) /\ UNCHANGED <<shown, identities>>
StsafeDisconnect(c) == Disconnect(c) /\ UNCHANGED <<shown, identities>>
StsafeCrash == Crash /\ UNCHANGED <<shown, identities>>

\* A server that takes a file it cannot read for a missing one.
start_over_torn ==
    /\ \/ StartFresh(fresh_device(0)) \/ Load
       \/ /\ ~alive /\ file.state \in {"missing", "torn"} /\ minted < StsafeKeys
          /\ alive' = TRUE /\ persistent' = TRUE /\ minted' = minted + 1
          /\ device' = fresh_device(minted + 1) /\ file' = Saved(fresh_device(minted + 1))
          /\ UNCHANGED <<session, known>>
    /\ UNCHANGED <<shown, identities>>

\* A new device draws its key; no later server sees that of a server without a file.
StsafeStart ==
    /\ \/ StartFresh(fresh_device(0))
       \/ Load
       \/ minted < StsafeKeys /\ Create(fresh_device(minted + 1)) /\ minted' = minted + 1
    /\ UNCHANGED <<shown, identities>>

StsafeHistory == shown = [s \in KeySlots |-> 0] /\ identities = {}
StsafeInit == chip = "STSAFE-A120" /\ ServerInit({Missing}) /\ StsafeHistory

StsafeNext ==
    /\ chip = "STSAFE-A120" /\ UNCHANGED chip
    /\ \/ \E c \in Conns : StsafeConnect(c) \/ StsafeDisconnect(c)
       \/ \E c \in Conns, cmd \in Frames : handle_frame(c, cmd)
       \/ StsafeCrash \/ StsafeStart

StsafeSpec == StsafeInit /\ [][StsafeNext]_svars
-----------------------------------------------------------------------------
\* The answers about a lasting key slot (public key, signature or shared secret) never go back
\* to an older key than one that some host was answered, through replacements by other
\* connections, failed saves, crashes and restarts (keypair.rs, ecdh.rs, sign.rs, persist).  The
\* ephemeral slot is left out: session.rs calls its key a connection's own, the code shares it.
KeysNeverRevert ==
    [][\A s \in KeySlots \ {EPHEMERAL_KEY_SLOT} : shown[s] <= shown'[s]]_shown

\* All the hosts of a store file are answered one serial number and one certificate: a server
\* that finds the file torn does not start with another identity.
IdentityIsOne == Cardinality(identities) <= 1
=============================================================================
