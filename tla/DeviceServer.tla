---------------------------- MODULE DeviceServer ----------------------------
(***************************************************************************)
(* The TCP server that the ATECC608 and STSAFE-A120 simulators have in     *)
(* common: a thread per connection with its own volatile session, a device *)
(* behind a mutex, and a store file that is written after every command.   *)
(*                                                                         *)
(* A chip gives the outcome r of a command: the device and the session it  *)
(* leaves, and its answer.  fs::write truncates the file before it fills   *)
(* it, so that a write that fails leaves the old file or a torn one.       *)
(***************************************************************************)
EXTENDS Naturals, Sequences, FiniteSets

CONSTANTS
    Conns           \* TCP connections

VARIABLES
    chip,       \* which of the two simulators the server is
    device,     \* the device of the server, behind a mutex
    persistent, \* the server has a store file
    alive,      \* the server runs
    file,       \* the store file: a device, torn, or missing
    session,    \* per connection: closed, or its session
    minted,     \* random keys drawn so far
    known       \* history: the device at the last answer of a server with a file

server == <<chip, device, persistent, alive, file, session, minted, known>>

Missing == [state |-> "missing"]
Torn == [state |-> "torn"]
Saved(d) == [state |-> "saved", device |-> d]
NoDevice == [state |-> "none"]
Closed == [open |-> FALSE]
Nobody == [c \in Conns |-> Closed]

\* A save that looks for changes in the slots only.
persist_slots(d) == IF persistent /\ d.slots # device.slots THEN Saved(d) ELSE file
persist(d) == IF persistent THEN Saved(d) ELSE file

\* A command is executed in memory, saved, and then answered.
Answered(c, r) ==
    /\ alive /\ session[c].open
    /\ device' = r.device
    /\ session' = [session EXCEPT ![c] = r.session]
    /\ file' = persist(r.device)
    /\ known' = IF persistent THEN {r.device} ELSE known
    /\ UNCHANGED <<persistent, alive>>

\* The save fails: the connection ends without an answer, and the device keeps the change.
Unsaved(c, r) ==
    /\ alive /\ session[c].open /\ persistent
    /\ device' = r.device
    /\ file' \in {file, Torn}
    /\ session' = [session EXCEPT ![c] = Closed]
    /\ UNCHANGED <<persistent, alive, known>>

\* The process ends while it saves.
DiesSaving(c, r) ==
    /\ alive /\ session[c].open /\ persistent
    /\ file' \in {Torn, Saved(r.device)}
    /\ alive' = FALSE /\ device' = NoDevice /\ session' = Nobody
    /\ UNCHANGED <<persistent, known>>

Crash ==
    /\ alive
    /\ alive' = FALSE /\ device' = NoDevice /\ session' = Nobody
    /\ UNCHANGED <<persistent, file, minted, known>>

Connect(c, new) ==
    /\ alive /\ ~session[c].open
    /\ session' = [session EXCEPT ![c] = new]
    /\ UNCHANGED <<device, persistent, alive, file, minted, known>>

\* The host closes the connection, or the server does: an unknown word address, a count or a
\* length out of range.
Disconnect(c) ==
    /\ session[c].open
    /\ session' = [session EXCEPT ![c] = Closed]
    /\ UNCHANGED <<device, persistent, alive, file, minted, known>>

\* A server without a file, and one that loads its file or creates it with a new device.
StartFresh(d) ==
    /\ ~alive /\ alive' = TRUE
    /\ device' = d /\ persistent' = FALSE
    /\ UNCHANGED <<file, session, minted, known>>

Load ==
    /\ ~alive /\ alive' = TRUE
    /\ file.state = "saved"
    /\ device' = file.device /\ persistent' = TRUE
    /\ UNCHANGED <<file, session, minted, known>>

Create(d) ==
    /\ ~alive /\ file.state = "missing"
    /\ persistent' = TRUE
    /\ \/ file' = Saved(d) /\ alive' = TRUE /\ device' = d
       \/ file' = Torn /\ alive' = FALSE /\ device' = NoDevice
    /\ UNCHANGED <<session, known>>

ServerInit(files) ==
    /\ device = NoDevice /\ persistent = TRUE /\ alive = FALSE
    /\ file \in files
    /\ session = Nobody /\ minted = 0 /\ known = {}
=============================================================================
