------------------------------ MODULE Se050Card ------------------------------
(***************************************************************************)
(* The SE050 as its hosts reach it: one T=1 responder with an SCP03        *)
(* channel per TCP connection, in front of the object store they share     *)
(* (t1.rs, scp03/, bin/tcp_server.rs).                                     *)
(*                                                                         *)
(* Cryptography is symbolic.  A session is a number, fresh at every        *)
(* INITIALIZE UPDATE; its keys are known to whoever holds the key set in   *)
(* force at that moment.  A wrapped APDU names the session, the key set    *)
(* its host used and its position in the MAC chain: the MAC verifies when  *)
(* all three are those of the session.  Once on the wire, an APDU may be   *)
(* delivered on any connection any number of times.                        *)
(***************************************************************************)
EXTENDS Se050Crypto

CONSTANTS
    Commands,        \* the commands the hosts send
    OverChannel,     \* those they send over a channel
    InPlain,         \* those they send without
    PlatformKeys,    \* the Platform SCP03 key sets, named by their version number
    DefaultKeys,     \* the one compiled in (Scp03Config::from_env)
    Conns,           \* TCP connections
    Unruly,          \* those whose host may split, repeat and abandon frames
    LongAnswers,     \* the commands whose success answer takes two frames
    BodyLen,         \* the length of each command's data field
    MaxSessions,     \* bound on the INITIALIZE UPDATEs that succeed
    KeyVersions,     \* the key version numbers that hosts ask for, or any
    Levels,          \* the security levels that hosts ask for
    MaxPackets,      \* bound on the APDUs that hosts wrap
    MaxChunks,       \* bound on the answer frames a connection has queued
    MaxPieces        \* bound on the frames of an unfinished APDU

ASSUME CardAssumption ==
    /\ DefaultKeys \in PlatformKeys /\ LongAnswers \subseteq Commands /\ Unruly \subseteq Conns
    /\ OverChannel \cup InPlain \subseteq Commands
    /\ \A cmd \in OverChannel : cmd.cmd = "PutKey" => cmd.key \in PlatformKeys
    /\ BodyLen \in [Commands -> Nat]
    /\ {MaxSessions, MaxPackets, MaxChunks, MaxPieces} \subseteq Nat

VARIABLES
    store,      \* the ObjectStore, behind a mutex
    alive,      \* no thread died holding the mutex
    link,       \* per connection: the T1Responder, its queued answer, and what its host saw
    opened,     \* the key set in force at the INITIALIZE UPDATE of each session
    wire,       \* the APDUs that hosts have wrapped
    executed    \* history: the wrapped APDUs executed in each session, with their response ICV

cvars == <<store, alive, link, opened, wire, executed>>

legacy == Applet = "V3_1_1"
Secured == "SECURITY_STATUS"
WrongLength == "WRONG_LENGTH"
NotFound == "REF_DATA_NOT_FOUND"

SUPPORTED_LEVELS == {1, 3, 17, 51}
LEVEL_RENC(level) == level = 51
LEVEL_CDEC(level) == level \in {3, 51}

(***************************************************************************)
(* SCP03 sessions (scp03/mod.rs).                                          *)
(***************************************************************************)
Idle == [state |-> "Idle"]
Pending(n) == [state |-> "Pending", sess |-> n]
Active(n, level) ==
    [state |-> "Active", sess |-> n, level |-> level, chained |-> 1, cmd_counter |-> 1,
     last_cmd_len |-> 0]
is_active(scp) == scp.state = "Active"

platform_scp_config(s) == IF s.platform_scp = {} THEN DefaultKeys ELSE Get(s.platform_scp)

\* What a step of the responder leaves: the channel, whether the security domain is selected,
\* the store, the status word and the number of frames of the answer.
Out(scp, ssd, s, sw, frames) ==
    [scp |-> scp, ssd |-> ssd, store |-> s, sw |-> sw, frames |-> frames]
Refused(l, scp, s, sw) == Out(scp, l.ssd, s, sw, 1)

\* INITIALIZE UPDATE: valid in any state, and restarts the handshake.  An APDU that does not
\* parse leaves the channel as it is; a challenge of the wrong length ends it.
initialize_update(l, s, a) ==
    IF a.form = "unparsed" THEN Refused(l, l.scp, s, WrongLength)
    ELSE IF a.form = "challenge" THEN Refused(l, Idle, s, WrongLength)
    ELSE IF legacy /\ a.kvn # "any" /\ a.kvn # platform_scp_config(s)
    THEN Refused(l, Idle, s, NotFound)
    ELSE Refused(l, Pending(Len(opened) + 1), s, NO_ERROR)

OwnKeys(scp, a) == a.sess = scp.sess /\ a.key = opened[scp.sess]

\* EXTERNAL AUTHENTICATE: with no handshake pending the state is kept; a failure drops it.
external_authenticate(l, s, a) ==
    IF l.scp.state # "Pending" THEN Refused(l, l.scp, s, CONDITIONS_NOT_SATISFIED)
    ELSE IF a.level \notin SUPPORTED_LEVELS THEN Refused(l, Idle, s, WRONG_P1P2)
    ELSE IF ~OwnKeys(l.scp, a) THEN Refused(l, Idle, s, Secured)
    ELSE Refused(l, Active(l.scp.sess, a.level), s, NO_ERROR)

\* The C-MAC continues the chain, and the data decrypts under the counter of the session.
\* The host of an applet before 4.3 follows the same counter rule as the card.
Verifies(scp, a) == OwnKeys(scp, a) /\ a.pos = scp.chained
Decrypts(scp, a) == LEVEL_CDEC(scp.level) /\ BodyLen[a.cmd] > 0 => legacy \/ a.pos = scp.cmd_counter
unwrap_keeps_chain(scp, a) == [scp EXCEPT !.last_cmd_len = BodyLen[a.cmd]]
unwrap_command(scp, a) ==
    [scp EXCEPT !.chained = @ + 1, !.last_cmd_len = BodyLen[a.cmd]]

\* The ICV of the response, and the counter afterwards.
resp_counter(scp) ==
    IF legacy /\ scp.last_cmd_len = 0 THEN scp.cmd_counter - 1 ELSE scp.cmd_counter
Advances(scp, sw) ==
    IF ~legacy THEN TRUE
    ELSE IF sw = NO_ERROR THEN scp.last_cmd_len > 0 ELSE scp.last_cmd_len # 8
advance_with_body(scp, sw) ==
    IF scp.last_cmd_len > 0 THEN [scp EXCEPT !.cmd_counter = @ + 1] ELSE scp
advance_counter(scp, sw) ==
    IF Advances(scp, sw) THEN [scp EXCEPT !.cmd_counter = @ + 1] ELSE scp

\* PUT KEY: the new keys come encrypted under the data key in force, which the command names.
put_keys_of_channel(l, s, c) ==
    IF c.dek # opened[l.scp.sess] THEN error(s, WRONG_DATA)
    ELSE success_with([s EXCEPT !.platform_scp = {c.key}], <<c.key>>)
put_keys(l, s, c) ==
    IF c.dek # platform_scp_config(s) THEN error(s, WRONG_DATA)
    ELSE success_with([s EXCEPT !.platform_scp = {c.key}], <<c.key>>)

Inner(l, s, c) ==
    IF c.cmd # "PutKey" THEN dispatch(s, c, TRUE)
    ELSE IF ~l.ssd THEN error(s, WRONG_DATA)
    ELSE put_keys(l, s, c)

Frames(c, sw) == IF sw = NO_ERROR /\ c \in LongAnswers THEN 2 ELSE 1

\* A command with the secure-messaging bit: unwrapped, dispatched and its answer wrapped.
Wrapped(l, s, a) ==
    IF ~is_active(l.scp) THEN Refused(l, l.scp, s, Secured)
    ELSE IF ~(Verifies(l.scp, a) /\ Decrypts(l.scp, a)) THEN Refused(l, Idle, s, Secured)
    ELSE LET reply == Inner(l, s, a.cmd)
             scp == unwrap_command(l.scp, a)
         IN  Out(advance_counter(scp, reply.sw), l.ssd, reply.store, reply.sw,
                 Frames(a.cmd, reply.sw))

Plain(l, s, c) ==
    LET reply == dispatch(s, c, FALSE)
    IN  Out(l.scp, l.ssd, reply.store, reply.sw, Frames(c, reply.sw))

plain_if_idle(l, s, a) ==
    IF is_active(l.scp) THEN Refused(l, Idle, s, CONDITIONS_NOT_SATISFIED)
    ELSE Plain(l, s, a.cmd)

\* A plain command ends an active channel, and is refused when the platform requires one.
plain_command(l, s, a) ==
    IF is_active(l.scp) THEN Refused(l, Idle, s, CONDITIONS_NOT_SATISFIED)
    ELSE IF s.scp_required THEN Refused(l, l.scp, s, CONDITIONS_NOT_SATISFIED)
    ELSE Plain(l, s, a.cmd)

\* SELECT ends any channel; the security domain is selected when its name is given.
handle_select(l, s, a) ==
    Out(Idle, a.aid = "ssd", s, IF a.aid = "other" THEN "FILE_NOT_FOUND" ELSE NO_ERROR, 1)

process_apdu(l, s, a) ==
    CASE a.kind = "SELECT" -> handle_select(l, s, a)
      [] a.kind = "INITIALIZE_UPDATE" -> initialize_update(l, s, a)
      [] a.kind = "WRAPPED" ->
            IF a.pos = 0 /\ ~is_active(l.scp) THEN external_authenticate(l, s, a) ELSE Wrapped(l, s, a)
      [] a.kind = "PLAIN" -> plain_command(l, s, a)

(***************************************************************************)
(* T=1 (t1.rs).  A wrapped APDU may be cut into two frames.  A chain that  *)
(* is not the two halves of one APDU in order is read by its head: that of *)
(* a wrapped APDU, which then does not verify, or the bytes of a second    *)
(* half, which are taken for no command (that they read as one is left     *)
(* out) but may drop the channel.                                          *)
(***************************************************************************)
Piece(a, part) == [apdu |-> a, part |-> part]

Whole(reasm) ==
    \/ Len(reasm) = 1 /\ reasm[1].part = "all"
    \/ /\ Len(reasm) = 2 /\ reasm[1].apdu = reasm[2].apdu
       /\ reasm[1].part = "first" /\ reasm[2].part = "second"

garbled(l, s, reasm) ==
    IF reasm[1].part = "second"
    THEN {Refused(l, scp, s, WrongLength) : scp \in {l.scp} \cup (IF is_active(l.scp) THEN {Idle} ELSE {})}
    ELSE {Refused(l, IF is_active(l.scp) THEN Idle ELSE l.scp, s, Secured)}

\* Processing a complete chain: one outcome, unless it is garbled.
Complete(l, s, reasm) ==
    IF Whole(reasm) THEN {process_apdu(l, s, reasm[1].apdu)} ELSE garbled(l, s, reasm)

IFrame(seq, multi) == [type |-> "I", seq |-> seq, multi |-> multi]
build_response_frames(snd, frames) ==
    IF frames = 1 THEN <<IFrame(snd, FALSE)>>
    ELSE <<IFrame(snd, TRUE), IFrame(1 - snd, FALSE)>>
toggled_once(snd, frames) == 1 - snd
next_snd(snd, frames) == IF frames = 1 THEN 1 - snd ELSE snd

NewLink ==
    [snd |-> 0, reasm |-> <<>>, scp |-> Idle, ssd |-> FALSE, chunks |-> <<>>,
     reading |-> FALSE, expect |-> 0, instep |-> TRUE]

\* The responder as a reset leaves it: what the connection has queued stays.
reset_link(l) == [l EXCEPT !.snd = 0, !.reasm = <<>>, !.scp = Idle, !.ssd = FALSE]

(***************************************************************************)
(* The host's side of a connection: whether it is in the middle of an      *)
(* answer, the number of the I-frame it expects next, and whether every    *)
(* I-frame had the number it expected.  An unruly host does not look.      *)
(***************************************************************************)
Resets(f) == f.type = "S" /\ f.code \in {"SOFT_RESET", "RESYNC"}
Sends(c, f) ==
    [link[c] EXCEPT !.expect = IF Resets(f) THEN 0 ELSE @]
Reads(c, l, frame) ==
    IF c \in Unruly THEN l
    ELSE IF frame.type # "I" THEN [l EXCEPT !.reading = FALSE]
    ELSE [l EXCEPT !.reading = frame.multi, !.expect = 1 - @,
                   !.instep = @ /\ frame.seq = l.expect]

\* handle_connection: the answer is queued and one frame of the queue is written.
Answered(c, l, frames) ==
    LET queued == l.chunks \o frames
    IN  IF queued = <<>> THEN l
        ELSE Reads(c, [l EXCEPT !.chunks = Tail(queued)], Head(queued))

-----------------------------------------------------------------------------
CInit ==
    /\ store = NewStore /\ alive = TRUE
    /\ link = [c \in Conns |-> NewLink]
    /\ opened = <<>> /\ wire = {} /\ executed = [n \in 1..MaxSessions |-> <<>>]

\* An S-request: SOFT_RESET and RESYNC reset the responder, the others only answer.
handle_s_request(c, code) ==
    LET l == Sends(c, [type |-> "S", code |-> code])
        after == IF Resets([type |-> "S", code |-> code]) THEN reset_link(l) ELSE l
    IN  /\ alive
        /\ link' = [link EXCEPT ![c] = Answered(c, after, <<[type |-> "S"]>>)]
        /\ UNCHANGED <<store, alive, opened, wire, executed>>

\* A frame that does not parse, or an acknowledgement, is answered by what is queued.
Unanswered(c, type) ==
    /\ alive
    /\ link' = [link EXCEPT ![c] = Answered(c, Sends(c, [type |-> type]), <<>>)]
    /\ UNCHANGED <<store, alive, opened, wire, executed>>

\* An I-frame with more to come.
MoreData(c, piece) ==
    LET l == Sends(c, [type |-> "I"])
    IN  /\ alive /\ Len(l.reasm) < MaxPieces
        /\ link' = [link EXCEPT ![c] =
              Answered(c, [l EXCEPT !.reasm = Append(@, piece)], <<[type |-> "R"]>>)]
        /\ UNCHANGED <<store, alive, opened, wire, executed>>

Executes(l, a) == a.kind = "WRAPPED" /\ is_active(l.scp) /\ Verifies(l.scp, a) /\ Decrypts(l.scp, a)
IcvUsed(l, a, sw) ==
    IF LEVEL_RENC(l.scp.level) /\ sw = NO_ERROR
    THEN {resp_counter([l.scp EXCEPT !.last_cmd_len = BodyLen[a.cmd]])} ELSE {}

\* The last I-frame of a chain.  Its sequence number is only logged, and iseq_rcv only numbers
\* the acknowledgements: neither is kept here.  iseq_snd only numbers the answers, and is kept
\* for the hosts that look at it.
handle_i_frame(c, piece) ==
    LET l == Sends(c, [type |-> "I"])
        reasm == Append(l.reasm, piece)
        a == reasm[1].apdu
    IN  /\ alive /\ Len(l.chunks) < MaxChunks
        /\ \E out \in Complete(l, store, reasm) :
              /\ out.scp.state = "Pending" /\ out.scp # l.scp =>
                    Len(opened) < MaxSessions
              /\ store' = out.store
              /\ alive' = (out.sw # Panic)
              /\ opened' = IF out.scp.state = "Pending" /\ out.scp # l.scp
                           THEN Append(opened, platform_scp_config(store)) ELSE opened
              /\ executed' = IF Whole(reasm) /\ Executes(l, a)
                             THEN [executed EXCEPT ![a.sess] =
                                      Append(@, [apdu |-> a, icv |-> IcvUsed(l, a, out.sw),
                                                 sw |-> out.sw])]
                             ELSE executed
              /\ link' = [link EXCEPT ![c] =
                    Answered(c, [l EXCEPT !.reasm = <<>>, !.scp = out.scp, !.ssd = out.ssd,
                                       !.snd = IF c \in Unruly THEN @ ELSE next_snd(@, out.frames)],
                             build_response_frames(l.snd, out.frames))]
        /\ UNCHANGED wire

\* The connection is closed and the host opens another.
Reconnect(c) ==
    /\ link' = [link EXCEPT ![c] = NewLink]
    /\ UNCHANGED <<store, alive, opened, wire, executed>>

\* The server is started again: its store has no file.
CardRestart ==
    /\ store' = NewStore /\ alive' = TRUE
    /\ link' = [c \in Conns |-> NewLink]
    /\ UNCHANGED <<opened, wire, executed>>

(***************************************************************************)
(* The hosts.  Whoever holds the keys of a session authenticates it and,   *)
(* while it is open, wraps commands for it, one per position; they may be  *)
(* sent long after, and others can only try.                               *)
(***************************************************************************)
Wrap(n, cmd) ==
    LET before == {a \in wire : a.sess = n}
    IN  /\ Cardinality(wire) < MaxPackets
        /\ \E c \in Conns : is_active(link[c].scp) /\ link[c].scp.sess = n
        /\ wire' = wire \cup {[kind |-> "WRAPPED", sess |-> n, key |-> opened[n],
                                pos |-> Cardinality(before) + 1, cmd |-> cmd]}
        /\ UNCHANGED <<store, alive, link, opened, executed>>

Authentication(n, key, level) ==
    [kind |-> "WRAPPED", sess |-> n, key |-> key, pos |-> 0, level |-> level, cmd |-> NoId]
Authentications ==
    {Authentication(n, opened[n], level) : n \in DOMAIN opened, level \in Levels}
Forgeries ==    \* by a host that holds other keys than those of the session
    UNION {UNION {{Authentication(n, key, 51),
                   [kind |-> "WRAPPED", sess |-> n, key |-> key, pos |-> 1,
                    cmd |-> CHOOSE cmd \in OverChannel : TRUE]} : key \in {"other"} \ {opened[n]}} :
             n \in DOMAIN opened}
Handshakes ==
    {[kind |-> "INITIALIZE_UPDATE", form |-> "whole", kvn |-> kvn] : kvn \in KeyVersions}
    \cup {[kind |-> "INITIALIZE_UPDATE", form |-> form, kvn |-> "any"] : form \in {"unparsed", "challenge"}}
    \cup {[kind |-> "SELECT", aid |-> aid] : aid \in {"applet", "ssd", "other"}}
PlainCommands == {[kind |-> "PLAIN", cmd |-> cmd] : cmd \in InPlain}

Singles == Handshakes \cup PlainCommands \cup wire \cup Authentications \cup Forgeries

\* Other hosts send whole APDUs, and read an answer to its end first.
May(c, f) == c \in Unruly \/ (f = "R" <=> link[c].reading)

CNext ==
    \/ \E c \in Conns :
         \/ May(c, "S") /\ \E code \in {"SOFT_RESET", "RESYNC", "OTHER"} : handle_s_request(c, code)
         \/ May(c, "R") /\ Unanswered(c, "R")
         \/ c \in Unruly /\ Unanswered(c, "Bad")
         \/ May(c, "I") /\ \E a \in Singles : handle_i_frame(c, Piece(a, "all"))
         \/ c \in Unruly /\ \E a \in wire : MoreData(c, Piece(a, "first"))
         \/ c \in Unruly /\ \E a \in wire : handle_i_frame(c, Piece(a, "second"))
         \/ Reconnect(c)
    \/ CardRestart
    \/ \E n \in DOMAIN opened, cmd \in OverChannel : Wrap(n, cmd)

CSpec == CInit /\ [][CNext]_cvars

-----------------------------------------------------------------------------
(***************************************************************************)
(* Properties.                                                             *)
(***************************************************************************)

\* The MAC chain makes up for the sequence numbers that T=1 only logs: of every session the
\* commands are executed in the order the host wrapped them, none twice and none left out,
\* however frames are repeated, split, mixed with those of other sessions or sent on another
\* connection; and only for a host that holds the keys the session was opened with.
WrappedOnceInOrder ==
    \A n \in DOMAIN opened :
      \A i \in DOMAIN executed[n] :
        LET a == executed[n][i].apdu IN a \in wire /\ a.pos = i /\ a.key = opened[n]

\* Two encrypted answers of one session never share an initial vector (applet 4.3 and newer).
ResponseIcvFresh ==
    ~legacy => \A n \in DOMAIN opened : \A i, j \in DOMAIN executed[n] :
      i # j => executed[n][i].icv \cap executed[n][j].icv = {}

\* A host that reads an answer to its end before it sends the next frame sees the sequence
\* numbers it expects, through chained answers and resets, and leaves nothing queued.
PoliteHostInStep ==
    \A c \in Conns \ Unruly :
      link[c].instep /\ (~link[c].reading => link[c].chunks = <<>>)

\* A rotation is made by a host that holds the keys in force at that moment: a channel opened
\* before an earlier rotation, which stays open, cannot undo it with the keys it was opened by.
RotationNeedsKeysInForce ==
    [][\A n \in DOMAIN opened : Len(executed'[n]) > Len(executed[n]) =>
         LET e == executed'[n][Len(executed'[n])]
         IN  e.apdu.cmd.cmd = "PutKey" /\ e.sw = NO_ERROR =>
               e.apdu.cmd.dek = platform_scp_config(store)]_cvars

\* Every frame is one step of the abstract card, or none.  The abstract card knows which commands
\* the hosts send over a channel only and which in plain only, so that in particular a card that
\* requires Platform SCP03 executes none of the latter.
Objects == INSTANCE Se050Service WITH
    Persistent <- FALSE, SaveOutcomes <- {"saved"}, Crashes <- FALSE, disk <- {}
ImplementsObjects == Objects!OSpec
=============================================================================
