--------------------------- MODULE Se050CardProofs ---------------------------
(***************************************************************************)
(* Theorems about the SE050's secure channel and T=1 link, for every set   *)
(* of commands, connections and bounds.                                    *)
(***************************************************************************)
EXTENDS Se050Card, SequenceTheorems, TLAPS

\* A sequence of any values.
IsSeq(s) == Len(s) \in Nat /\ s = [i \in 1..Len(s) |-> s[i]]

\* Appending to a sequence adds its last element.
LEMMA Appended ==
    ASSUME NEW s, IsSeq(s), NEW x
    PROVE  /\ IsSeq(Append(s, x)) /\ Len(Append(s, x)) = Len(s) + 1
           /\ \A i \in 1..Len(s) : Append(s, x)[i] = s[i]
           /\ Append(s, x)[Len(s) + 1] = x
<1> DEFINE S == {s[i] : i \in 1..Len(s)} \cup {x}
<1>1. s \in Seq(S)
  BY DEF IsSeq
<1>2. x \in S
  OBVIOUS
<1> HIDE DEF S
<1>3. /\ Append(s, x) \in Seq(S) /\ Len(Append(s, x)) = Len(s) + 1
      /\ \A i \in 1..Len(s) : Append(s, x)[i] = s[i]
      /\ Append(s, x)[Len(s) + 1] = x
  BY <1>1, <1>2, AppendProperties
<1> HIDE <1>1, <1>2
<1>4. Append(s, x) = [i \in 1..Len(Append(s, x)) |-> Append(s, x)[i]] /\ Len(Append(s, x)) \in Nat
  BY <1>3, LenProperties
<1> QED
  BY <1>3, <1>4 DEF IsSeq

\* The empty sequence is one.
LEMMA EmptyIsSeq == IsSeq(<<>>) /\ Len(<<>>) = 0
BY EmptySeq DEF IsSeq

-----------------------------------------------------------------------------
(***************************************************************************)
(* The links.                                                              *)
(***************************************************************************)
\* A link is a record of these fields.
LinkFields == {"snd", "reasm", "scp", "ssd", "chunks", "reading", "expect", "instep"}
IsLink(l) == l = [f \in LinkFields |-> l[f]]

\* The responder's part of a link.
SameResponder(l, m) == l.reasm = m.reasm /\ l.scp = m.scp /\ l.ssd = m.ssd /\ l.snd = m.snd

\* What a host reads is no business of the responder.
LEMMA HostSide ==
    ASSUME NEW c, NEW l, IsLink(l), NEW frames
    PROVE  IsLink(Answered(c, l, frames)) /\ SameResponder(Answered(c, l, frames), l)
<1>1. ASSUME NEW x
      PROVE  LET m == [l EXCEPT !.chunks = x] IN IsLink(m) /\ SameResponder(m, l)
  BY DEF IsLink, LinkFields, SameResponder
<1>2. ASSUME NEW m, IsLink(m), NEW frame
      PROVE  IsLink(Reads(c, m, frame)) /\ SameResponder(Reads(c, m, frame), m)
  BY <1>2 DEF Reads, IsLink, LinkFields, SameResponder
<1> DEFINE queued == l.chunks \o frames
           m == [l EXCEPT !.chunks = Tail(queued)]
<1>3. IsLink(m) /\ SameResponder(m, l)
  BY <1>1
<1>4. Answered(c, l, frames) = IF queued = <<>> THEN l ELSE Reads(c, m, Head(queued))
  BY DEF Answered
<1> HIDE DEF m, queued
<1> QED
  BY <1>2, <1>3, <1>4 DEF SameResponder

\* What a host sends is no business of the responder.
LEMMA Sending ==
    ASSUME NEW c, IsLink(link[c]), NEW f
    PROVE  /\ IsLink(Sends(c, f)) /\ SameResponder(Sends(c, f), link[c])
           /\ Sends(c, f).chunks = link[c].chunks /\ Sends(c, f).reading = link[c].reading
           /\ Sends(c, f).instep = link[c].instep
           /\ Sends(c, f).expect = IF Resets(f) THEN 0 ELSE link[c].expect
BY DEF Sends, IsLink, LinkFields, SameResponder

\* A new link is one.
LEMMA NewLinkIs == IsLink(NewLink) /\ NewLink.scp = Idle /\ NewLink.reasm = <<>>
BY DEF IsLink, LinkFields, NewLink

-----------------------------------------------------------------------------
(***************************************************************************)
(* The channel.                                                            *)
(***************************************************************************)
ActiveFields == {"state", "sess", "level", "chained", "cmd_counter", "last_cmd_len"}

\* The channel of a link, with its session among those opened.
IsChannel(scp) ==
    \/ scp = Idle
    \/ /\ scp.state \in {"Pending", "Active"} /\ scp.sess \in 1..Len(opened)
       /\ scp.state = "Pending" => scp = Pending(scp.sess)
       /\ scp.state = "Active" => scp = [f \in ActiveFields |-> scp[f]]

\* A session that is open has executed a command for every position of its chain.
ChannelInStep(scp) ==
    /\ scp.state = "Pending" => executed[scp.sess] = <<>>
    /\ scp.state = "Active" =>
         /\ scp.chained = Len(executed[scp.sess]) + 1
         /\ ~legacy => scp.cmd_counter = scp.chained

\* A command as it was executed: wrapped by a host with the keys of its session, at its place
\* in the chain, and answered under the vector of that place.
ExecutedWell(n, i) ==
    LET e == executed[n][i]
    IN  /\ e.apdu \in wire /\ e.apdu.pos = i /\ e.apdu.key = opened[n]
        /\ ~legacy => e.icv \subseteq {i}

\* What was executed is recorded by session.
SessionInv ==
    /\ IsSeq(opened) /\ Len(opened) <= MaxSessions
    /\ executed = [n \in 1..MaxSessions |-> executed[n]]
    /\ \A n \in 1..MaxSessions : IsSeq(executed[n])
    /\ \A n \in 1..MaxSessions : n > Len(opened) => executed[n] = <<>>

\* What is left of an APDU in a link came from the wire.
LinkInv ==
    /\ \A a \in wire : a.kind = "WRAPPED"
    /\ link = [c \in Conns |-> link[c]]
    /\ \A c \in Conns :
         /\ IsLink(link[c]) /\ IsSeq(link[c].reasm)
         /\ \A i \in 1..Len(link[c].reasm) : link[c].reasm[i].apdu \in wire

\* The channels are in step with what was executed, and no two connections have the same session.
ChannelInv ==
    /\ \A c \in Conns : IsChannel(link[c].scp) /\ ChannelInStep(link[c].scp)
    /\ \A c, d \in Conns : c # d /\ link[c].scp # Idle /\ link[d].scp # Idle =>
                            link[c].scp.sess # link[d].scp.sess

HistoryInv == \A n \in 1..Len(opened) : \A i \in 1..Len(executed[n]) : ExecutedWell(n, i)

\* The inductive invariant.
ChainInv == SessionInv /\ LinkInv /\ ChannelInv /\ HistoryInv

\* What it says of the sessions of the links.
LEMMA ChainFacts ==
    ASSUME ChainInv
    PROVE  /\ Len(opened) \in Nat /\ MaxSessions \in Nat /\ Len(opened) <= MaxSessions
           /\ \A n \in 1..Len(opened) : n \in 1..MaxSessions
           /\ \A n \in 1..MaxSessions : Len(executed[n]) \in Nat /\ IsSeq(executed[n])
           /\ \A c \in Conns : link[c].scp # Idle =>
                link[c].scp.sess \in 1..Len(opened) /\ link[c].scp.sess \in 1..MaxSessions
           /\ \A c \in Conns : link[c].scp.state \in {"Pending", "Active"} => link[c].scp # Idle
           /\ \A c \in Conns : link[c].scp.state = "Active" =>
                /\ link[c].scp.chained = Len(executed[link[c].scp.sess]) + 1
                /\ ~legacy => link[c].scp.cmd_counter = link[c].scp.chained
<1>1. Len(opened) \in Nat /\ MaxSessions \in Nat /\ Len(opened) <= MaxSessions
  BY CardAssumption DEF ChainInv, SessionInv, IsSeq
<1>2. \A n \in 1..Len(opened) : n \in 1..MaxSessions
  BY <1>1
<1>3. \A n \in 1..MaxSessions : Len(executed[n]) \in Nat /\ IsSeq(executed[n])
  BY DEF ChainInv, SessionInv, IsSeq
<1>4. \A c \in Conns : link[c].scp # Idle =>
        link[c].scp.sess \in 1..Len(opened) /\ link[c].scp.sess \in 1..MaxSessions
  BY <1>2 DEF ChainInv, ChannelInv, IsChannel
<1>5. \A c \in Conns : link[c].scp.state \in {"Pending", "Active"} => link[c].scp # Idle
  BY DEF Idle
<1>6. \A c \in Conns : link[c].scp.state = "Active" =>
        /\ link[c].scp.chained = Len(executed[link[c].scp.sess]) + 1
        /\ ~legacy => link[c].scp.cmd_counter = link[c].scp.chained
  BY DEF ChainInv, ChannelInv, ChannelInStep
<1> QED
  BY <1>1, <1>2, <1>3, <1>4, <1>5, <1>6

\* What processing an APDU makes of the channel when it executes a command of the session.
LEMMA ProcessExecutes ==
    ASSUME NEW l, NEW s, NEW a, Executes(l, a), IsChannel(l.scp)
    PROVE  LET out == process_apdu(l, s, a)
           IN  /\ out.scp.state = "Active" /\ IsChannel(out.scp) /\ out.scp.sess = l.scp.sess
               /\ out.scp.chained = l.scp.chained + 1
               /\ ~legacy => out.scp.cmd_counter = l.scp.cmd_counter + 1
               /\ out.sw = Inner(l, s, a.cmd).sw
<1> DEFINE reply == Inner(l, s, a.cmd)
           scp == unwrap_command(l.scp, a)
<1>1. a.kind = "WRAPPED" /\ is_active(l.scp) /\ Verifies(l.scp, a) /\ Decrypts(l.scp, a)
  BY DEF Executes
<1>2. process_apdu(l, s, a) = Out(advance_counter(scp, reply.sw), l.ssd, reply.store, reply.sw,
                                  Frames(a.cmd, reply.sw))
  BY <1>1 DEF process_apdu, Wrapped
<1>3. /\ process_apdu(l, s, a).scp = advance_counter(scp, reply.sw)
      /\ process_apdu(l, s, a).sw = reply.sw
  BY <1>2 DEF Out
<1> HIDE DEF reply
<1>4. /\ scp = [f \in ActiveFields |-> scp[f]] /\ scp.state = "Active" /\ scp.sess = l.scp.sess
      /\ scp.chained = l.scp.chained + 1 /\ scp.cmd_counter = l.scp.cmd_counter
      /\ l.scp.sess \in 1..Len(opened)
  <2>1. l.scp.state = "Active" /\ l.scp = [f \in ActiveFields |-> l.scp[f]] /\ l.scp.sess \in 1..Len(opened)
    BY <1>1 DEF IsChannel, is_active, Idle
  <2>2. ASSUME NEW p, p = [f \in ActiveFields |-> p[f]]
        PROVE  LET q == unwrap_command(p, a)
               IN  /\ q = [f \in ActiveFields |-> q[f]] /\ q.state = p.state /\ q.sess = p.sess
                   /\ q.chained = p.chained + 1 /\ q.cmd_counter = p.cmd_counter
    BY <2>2 DEF unwrap_command, ActiveFields
  <2> QED
    BY <2>1, <2>2
<1> HIDE DEF scp
<1>5. \/ advance_counter(scp, reply.sw) = scp /\ legacy
      \/ advance_counter(scp, reply.sw) = [scp EXCEPT !.cmd_counter = @ + 1]
  BY DEF advance_counter, Advances
<1> DEFINE t == [scp EXCEPT !.cmd_counter = @ + 1]
<1>6. /\ t = [f \in ActiveFields |-> t[f]] /\ t.state = "Active" /\ t.sess = l.scp.sess
      /\ t.chained = l.scp.chained + 1 /\ t.cmd_counter = l.scp.cmd_counter + 1
  BY <1>4 DEF ActiveFields
<1>7. IsChannel(scp) /\ IsChannel(t)
  BY <1>4, <1>6 DEF IsChannel
<1> HIDE DEF t
<1> QED
  BY <1>3, <1>4, <1>5, <1>6, <1>7 DEF reply, t

\* What it makes of the channel otherwise.
LEMMA ProcessOther ==
    ASSUME NEW l, NEW s, NEW a, ~Executes(l, a), IsChannel(l.scp),
           a.kind \in {"SELECT", "INITIALIZE_UPDATE", "WRAPPED", "PLAIN"}
    PROVE  LET out == process_apdu(l, s, a)
           IN  \/ out.scp = Idle
               \/ out.scp = l.scp
               \/ out.scp = Pending(Len(opened) + 1)
               \/ l.scp.state = "Pending" /\ out.scp = Active(l.scp.sess, a.level)
<1>1. /\ \A scp, sw : Refused(l, scp, s, sw).scp = scp
      /\ \A scp, ssd, t, sw, frames : Out(scp, ssd, t, sw, frames).scp = scp
  BY DEF Refused, Out
<1>2. CASE a.kind = "SELECT"
  BY <1>1, <1>2 DEF process_apdu, handle_select
<1>3. CASE a.kind = "INITIALIZE_UPDATE"
  BY <1>1, <1>3 DEF process_apdu, initialize_update
<1>4. CASE a.kind = "WRAPPED"
  <2>1. CASE a.pos = 0 /\ ~is_active(l.scp)
    BY <1>1, <1>4, <2>1 DEF process_apdu, external_authenticate
  <2>2. CASE ~(a.pos = 0 /\ ~is_active(l.scp))
    <3>1. process_apdu(l, s, a) = Wrapped(l, s, a)
      BY <1>4, <2>2 DEF process_apdu
    <3> QED
      BY <1>1, <1>4, <3>1 DEF Wrapped, Executes
  <2> QED
    BY <2>1, <2>2
<1>5. CASE a.kind = "PLAIN"
  <2>1. process_apdu(l, s, a) = plain_command(l, s, a)
    BY <1>5 DEF process_apdu
  <2>2. Plain(l, s, a.cmd).scp = l.scp
    BY DEF Plain, Out
  <2> QED
    BY <1>1, <2>1, <2>2 DEF plain_command
<1> QED
  BY <1>2, <1>3, <1>4, <1>5

\* One link changes.
LEMMA OneLink ==
    ASSUME LinkInv, NEW c \in Conns, NEW m, IsLink(m), IsSeq(m.reasm),
           \A i \in 1..Len(m.reasm) : m.reasm[i].apdu \in wire,
           link' = [link EXCEPT ![c] = m], UNCHANGED wire
    PROVE  LinkInv' /\ link'[c] = m /\ \A d \in Conns : d # c => link'[d] = link[d]
BY DEF LinkInv

\* One link has processed an APDU.
LEMMA OneLinkDone ==
    ASSUME LinkInv, NEW c \in Conns, NEW m, IsLink(m), m.reasm = <<>>,
           link' = [link EXCEPT ![c] = m], UNCHANGED wire
    PROVE  LinkInv' /\ link'[c] = m /\ \A d \in Conns : d # c => link'[d] = link[d]
<1>1. IsSeq(m.reasm) /\ Len(m.reasm) = 0
  BY EmptyIsSeq
<1> QED
  BY <1>1 DEF LinkInv

\* A step that opens, authenticates and executes nothing.
LEMMA LinkChanges ==
    ASSUME ChainInv, NEW c \in Conns, NEW m, IsLink(m), IsSeq(m.reasm),
           \A i \in 1..Len(m.reasm) : m.reasm[i].apdu \in wire,
           link' = [link EXCEPT ![c] = m], m.scp = Idle \/ m.scp = link[c].scp,
           UNCHANGED <<opened, wire, executed>>
    PROVE  ChainInv'
<1>1. LinkInv' /\ link'[c] = m /\ \A d \in Conns : d # c => link'[d] = link[d]
  BY OneLink DEF ChainInv
<1>2. IsChannel(Idle) /\ ChannelInStep(Idle)
  BY DEF IsChannel, ChannelInStep, Idle
<1>3. IsChannel(m.scp) /\ ChannelInStep(m.scp)
  BY <1>2 DEF ChainInv, ChannelInv
<1>4. \A d \in Conns : IsChannel(link'[d].scp) /\ ChannelInStep(link'[d].scp)
  BY <1>1, <1>3 DEF ChainInv, ChannelInv
<1>5. ChannelInv'
  BY <1>1, <1>4 DEF ChainInv, ChannelInv, IsChannel, ChannelInStep
<1>6. SessionInv' /\ HistoryInv'
  BY DEF ChainInv, SessionInv, HistoryInv, ExecutedWell
<1> QED
  BY <1>1, <1>5, <1>6 DEF ChainInv

\* An INITIALIZE UPDATE that succeeds.
LEMMA Opens ==
    ASSUME ChainInv, NEW c \in Conns, NEW m, IsLink(m), m.reasm = <<>>, NEW k,
           link' = [link EXCEPT ![c] = m], m.scp = Pending(Len(opened) + 1),
           Len(opened) < MaxSessions, opened' = Append(opened, k),
           UNCHANGED <<wire, executed>>
    PROVE  ChainInv'
<1>1. LinkInv' /\ link'[c] = m /\ \A d \in Conns : d # c => link'[d] = link[d]
  BY OneLinkDone DEF ChainInv
<1>2. IsSeq(opened)
  BY DEF ChainInv, SessionInv
<1>3. /\ IsSeq(opened') /\ Len(opened') = Len(opened) + 1
      /\ \A n \in 1..Len(opened) : opened'[n] = opened[n]
  BY <1>2, Appended
<1>4. m.scp.state = "Pending" /\ m.scp.sess = Len(opened) + 1 /\ m.scp = Pending(m.scp.sess)
  BY DEF Pending
<1>5. SessionInv'
  BY <1>3, ChainFacts DEF ChainInv, SessionInv
<1>6. executed[Len(opened) + 1] = <<>>
  <2>1. Len(opened) + 1 \in 1..MaxSessions /\ Len(opened) + 1 > Len(opened)
    BY ChainFacts
  <2> QED
    BY <2>1 DEF ChainInv, SessionInv
<1>7. IsChannel(link[c].scp)' /\ ChannelInStep(link[c].scp)'
  BY <1>1, <1>3, <1>4, <1>6, ChainFacts DEF IsChannel, ChannelInStep
<1>8. \A d \in Conns : d # c => IsChannel(link[d].scp)' /\ ChannelInStep(link[d].scp)'
  BY <1>1, <1>3, ChainFacts DEF IsChannel, ChannelInStep, ChainInv, ChannelInv
<1>9. \A d \in Conns : d # c /\ link[d].scp # Idle => link[d].scp.sess # m.scp.sess
  BY <1>4, ChainFacts
<1>10. ChannelInv'
  BY <1>1, <1>7, <1>8, <1>9 DEF ChainInv, ChannelInv
<1>11. HistoryInv'
  <2> SUFFICES ASSUME NEW n \in 1..Len(opened'), NEW i \in 1..Len(executed'[n])
               PROVE  ExecutedWell(n, i)'
    BY DEF HistoryInv
  <2>1. n \in 1..Len(opened)
    BY <1>3, <1>6, EmptyIsSeq, ChainFacts
  <2>2. ExecutedWell(n, i)
    BY <2>1 DEF ChainInv, HistoryInv
  <2> QED
    BY <1>3, <2>1, <2>2 DEF ExecutedWell
<1> QED
  BY <1>1, <1>5, <1>10, <1>11 DEF ChainInv

\* An EXTERNAL AUTHENTICATE that succeeds.
LEMMA Authenticates ==
    ASSUME ChainInv, NEW c \in Conns, NEW m, IsLink(m), m.reasm = <<>>, NEW level,
           link' = [link EXCEPT ![c] = m], link[c].scp.state = "Pending",
           m.scp = Active(link[c].scp.sess, level), UNCHANGED <<opened, wire, executed>>
    PROVE  ChainInv'
<1>1. LinkInv' /\ link'[c] = m /\ \A d \in Conns : d # c => link'[d] = link[d]
  BY OneLinkDone DEF ChainInv
<1>2. /\ m.scp.state = "Active" /\ m.scp.sess = link[c].scp.sess /\ m.scp.chained = 1
      /\ m.scp.cmd_counter = 1 /\ m.scp = [f \in ActiveFields |-> m.scp[f]]
  BY DEF Active, ActiveFields
<1>3. link[c].scp # Idle /\ link[c].scp.sess \in 1..Len(opened)
  BY ChainFacts
<1>4. executed[link[c].scp.sess] = <<>>
  BY DEF ChainInv, ChannelInv, ChannelInStep
<1>5. IsChannel(m.scp) /\ ChannelInStep(m.scp)
  BY <1>2, <1>3, <1>4, EmptyIsSeq DEF IsChannel, ChannelInStep
<1>6. \A d \in Conns : IsChannel(link'[d].scp) /\ ChannelInStep(link'[d].scp)
  BY <1>1, <1>5 DEF ChainInv, ChannelInv
<1>7. \A d, e \in Conns : d # e /\ link'[d].scp # Idle /\ link'[e].scp # Idle =>
                            link'[d].scp.sess # link'[e].scp.sess
  BY <1>1, <1>2, <1>3 DEF ChainInv, ChannelInv
<1>8. ChannelInv'
  BY <1>6, <1>7 DEF ChannelInv, IsChannel, ChannelInStep
<1>9. SessionInv' /\ HistoryInv'
  BY DEF ChainInv, SessionInv, HistoryInv, ExecutedWell
<1> QED
  BY <1>1, <1>8, <1>9 DEF ChainInv

\* The execution of a wrapped command.
LEMMA ExecutesOne ==
    ASSUME ChainInv, NEW c \in Conns, NEW m, IsLink(m), m.reasm = <<>>, NEW a \in wire,
           NEW icv, NEW sw,
           link' = [link EXCEPT ![c] = m], link[c].scp.state = "Active", m.scp.state = "Active",
           IsChannel(m.scp), m.scp.sess = link[c].scp.sess,
           m.scp.chained = link[c].scp.chained + 1,
           ~legacy => m.scp.cmd_counter = link[c].scp.cmd_counter + 1,
           a.sess = link[c].scp.sess, a.pos = link[c].scp.chained, a.key = opened[a.sess],
           ~legacy => icv \subseteq {link[c].scp.cmd_counter},
           executed' = [executed EXCEPT ![a.sess] = Append(@, [apdu |-> a, icv |-> icv, sw |-> sw])],
           UNCHANGED <<opened, wire>>
    PROVE  ChainInv'
<1> DEFINE e == [apdu |-> a, icv |-> icv, sw |-> sw]
<1>1. LinkInv' /\ link'[c] = m /\ \A d \in Conns : d # c => link'[d] = link[d]
  BY OneLinkDone DEF ChainInv
<1>2. PICK n : n = link[c].scp.sess
  OBVIOUS
<1>3. PICK k : k = Len(executed[n])
  OBVIOUS
<1>4. /\ link[c].scp # Idle /\ n \in 1..Len(opened) /\ n \in 1..MaxSessions /\ k \in Nat
      /\ IsSeq(executed[n])
  BY <1>2, <1>3, ChainFacts
<1>5. link[c].scp.chained = k + 1 /\ (~legacy => link[c].scp.cmd_counter = k + 1)
  BY <1>2, <1>3, ChainFacts
<1>6. /\ executed' = [x \in 1..MaxSessions |-> executed'[x]]
      /\ executed'[n] = Append(executed[n], e)
      /\ \A x \in 1..MaxSessions : x # n => executed'[x] = executed[x]
  BY <1>2, <1>4 DEF ChainInv, SessionInv
<1>7. e.apdu = a /\ e.icv = icv
  OBVIOUS
<1> HIDE DEF e
<1>8. /\ IsSeq(executed'[n]) /\ Len(executed'[n]) = k + 1 /\ executed'[n][k + 1] = e
      /\ \A i \in 1..k : executed'[n][i] = executed[n][i]
  BY <1>3, <1>4, <1>6, Appended
<1>9. IsChannel(link[c].scp)' /\ ChannelInStep(link[c].scp)'
  <2>1. m.scp.sess = n /\ m.scp.chained = k + 1 + 1 /\ (~legacy => m.scp.cmd_counter = k + 1 + 1)
    BY <1>2, <1>5
  <2>2. IsChannel(link[c].scp)'
    BY <1>1 DEF IsChannel
  <2>3. ChannelInStep(link[c].scp)'
    BY <1>1, <1>8, <2>1 DEF ChannelInStep
  <2> QED
    BY <2>2, <2>3
<1>10. \A d \in Conns : d # c /\ link[d].scp # Idle => link[d].scp.sess # n
  BY <1>2, <1>4 DEF ChainInv, ChannelInv
<1>11. \A d \in Conns : d # c => IsChannel(link[d].scp)' /\ ChannelInStep(link[d].scp)'
  <2> SUFFICES ASSUME NEW d \in Conns, d # c
               PROVE  IsChannel(link[d].scp)' /\ ChannelInStep(link[d].scp)'
    OBVIOUS
  <2>1. link'[d] = link[d] /\ IsChannel(link[d].scp) /\ ChannelInStep(link[d].scp)
    BY <1>1 DEF ChainInv, ChannelInv
  <2>2. link[d].scp.state \in {"Pending", "Active"} =>
          executed'[link[d].scp.sess] = executed[link[d].scp.sess]
    BY <1>6, <1>10, ChainFacts
  <2> QED
    BY <2>1, <2>2 DEF IsChannel, ChannelInStep
<1>12. ChannelInv'
  BY <1>1, <1>2, <1>4, <1>9, <1>11 DEF ChainInv, ChannelInv
<1>13. HistoryInv'
  <2> SUFFICES ASSUME NEW x \in 1..Len(opened'), NEW i \in 1..Len(executed'[x])
               PROVE  ExecutedWell(x, i)'
    BY DEF HistoryInv
  <2>1. x \in 1..Len(opened) /\ x \in 1..MaxSessions
    BY ChainFacts
  <2>2. CASE x # n
    <3>1. executed'[x] = executed[x]
      BY <1>6, <2>1, <2>2
    <3>2. ExecutedWell(x, i)
      BY <2>1, <3>1 DEF ChainInv, HistoryInv
    <3>3. executed'[x][i] = executed[x][i] /\ wire' = wire /\ opened' = opened
      BY <3>1
    <3> QED
      BY <3>2, <3>3 DEF ExecutedWell
  <2>3. CASE x = n /\ i \in 1..k
    <3>1. ExecutedWell(n, i)
      BY <1>3, <1>4, <2>3 DEF ChainInv, HistoryInv
    <3>2. executed'[n][i] = executed[n][i] /\ wire' = wire /\ opened' = opened
      BY <1>8, <2>3
    <3>3. ExecutedWell(n, i)'
      BY <3>1, <3>2 DEF ExecutedWell
    <3> QED
      BY <2>3, <3>3
  <2>4. CASE x = n /\ i = k + 1
    BY <1>2, <1>5, <1>7, <1>8, <2>4 DEF ExecutedWell
  <2> QED
    BY <1>4, <1>8, <2>2, <2>3, <2>4
<1>14. SessionInv'
  <2>1. \A x \in 1..MaxSessions : IsSeq(executed'[x])
    BY <1>6, <1>8, ChainFacts
  <2>2. \A x \in 1..MaxSessions : x > Len(opened) => executed'[x] = <<>>
    <3> SUFFICES ASSUME NEW x \in 1..MaxSessions, x > Len(opened) PROVE executed'[x] = <<>>
      OBVIOUS
    <3>1. x # n
      BY <1>4, ChainFacts
    <3> QED
      BY <1>6, <3>1 DEF ChainInv, SessionInv
  <2> QED
    BY <1>6, <2>1, <2>2 DEF ChainInv, SessionInv
<1> QED
  BY <1>1, <1>12, <1>13, <1>14 DEF ChainInv

\* The APDUs that a host sends in one frame are of four kinds.
LEMMA SingleKinds ==
    ASSUME LinkInv, NEW a \in Singles
    PROVE  a.kind \in {"SELECT", "INITIALIZE_UPDATE", "WRAPPED", "PLAIN"}
<1>1. CASE a \in Handshakes
  BY <1>1 DEF Handshakes
<1>2. CASE a \in PlainCommands
  BY <1>2 DEF PlainCommands
<1>3. CASE a \in wire
  BY <1>3 DEF LinkInv
<1>4. CASE a \in Authentications
  BY <1>4 DEF Authentications, Authentication
<1>5. CASE a \in Forgeries
  BY <1>5 DEF Forgeries, Authentication
<1> QED
  BY <1>1, <1>2, <1>3, <1>4, <1>5 DEF Singles

\* What is executed was wrapped by a host with the keys of the session: an authentication is not
\* at a position of the chain, and a forgery is not under the keys.
LEMMA ExecutesFromWire ==
    ASSUME ChainInv, NEW c \in Conns, NEW l, l.scp = link[c].scp, NEW a \in Singles,
           Executes(l, a)
    PROVE  a \in wire
<1>1. /\ a.kind = "WRAPPED" /\ l.scp.state = "Active" /\ a.sess = l.scp.sess
      /\ a.key = opened[l.scp.sess] /\ a.pos = l.scp.chained
  BY DEF Executes, Verifies, OwnKeys, is_active
<1>2. a.pos # 0
  BY <1>1, ChainFacts
<1>3. a \notin Handshakes /\ a \notin PlainCommands
  BY <1>1 DEF Handshakes, PlainCommands
<1>4. a \notin Authentications
  BY <1>2 DEF Authentications, Authentication
<1>5. a \notin Forgeries
  BY <1>1, <1>2 DEF Forgeries, Authentication
<1> QED
  BY <1>3, <1>4, <1>5 DEF Singles

\* The link after an APDU was processed.
After(l, scp, ssd, snd) == [l EXCEPT !.reasm = <<>>, !.scp = scp, !.ssd = ssd, !.snd = snd]

\* It is ready for the next one, and has the channel that processing left.
LEMMA Processed ==
    ASSUME NEW c, NEW l, IsLink(l), NEW scp, NEW ssd, NEW snd, NEW frames
    PROVE  LET m == Answered(c, After(l, scp, ssd, snd), frames)
           IN  IsLink(m) /\ m.reasm = <<>> /\ m.scp = scp
<1> DEFINE n == After(l, scp, ssd, snd)
<1>1. IsLink(n) /\ n.reasm = <<>> /\ n.scp = scp
  BY DEF IsLink, LinkFields, After
<1> HIDE DEF n
<1>2. IsLink(Answered(c, n, frames)) /\ SameResponder(Answered(c, n, frames), n)
  BY <1>1, HostSide
<1>3. IsLink(Answered(c, n, frames)) /\ Answered(c, n, frames).reasm = <<>>
      /\ Answered(c, n, frames).scp = scp
  BY <1>1, <1>2 DEF SameResponder
<1> QED
  BY <1>3 DEF n

\* A garbled chain is processed as no command: it can only drop the channel.
LEMMA GarbledChannel ==
    ASSUME NEW l, NEW s, NEW reasm, NEW out \in garbled(l, s, reasm)
    PROVE  out.scp = l.scp \/ out.scp = Idle
BY DEF garbled, Refused, Out

\* The first piece of a chain.
LEMMA FirstPiece ==
    ASSUME ChainInv, NEW c \in Conns, NEW piece, piece.apdu \in Singles
    PROVE  Append(link[c].reasm, piece)[1].apdu \in Singles
<1>1. IsSeq(link[c].reasm) /\ Len(link[c].reasm) \in Nat
  BY DEF ChainInv, LinkInv, IsSeq
<1>2. CASE Len(link[c].reasm) = 0
  BY <1>1, <1>2, Appended
<1>3. CASE Len(link[c].reasm) # 0
  <2>1. 1 \in 1..Len(link[c].reasm)
    BY <1>1, <1>3
  <2>2. Append(link[c].reasm, piece)[1] = link[c].reasm[1]
    BY <1>1, <2>1, Appended
  <2> QED
    BY <2>1, <2>2 DEF ChainInv, LinkInv, Singles
<1> QED
  BY <1>2, <1>3

\* The vector of an answer is the counter of the session (applet 4.3 and newer).
LEMMA IcvIsCounter ==
    ASSUME NEW l, NEW a, NEW sw, ~legacy, l.scp = [f \in ActiveFields |-> l.scp[f]]
    PROVE  IcvUsed(l, a, sw) \subseteq {l.scp.cmd_counter}
<1>1. ASSUME NEW scp, scp = [f \in ActiveFields |-> scp[f]], NEW x
      PROVE  [scp EXCEPT !.last_cmd_len = x].cmd_counter = scp.cmd_counter
  BY <1>1 DEF ActiveFields
<1> QED
  BY <1>1 DEF IcvUsed, resp_counter

\* The outcomes of a complete chain, and what they do to the histories.
LEMMA CompleteChain ==
    ASSUME ChainInv, NEW c \in Conns, NEW piece, piece.apdu \in Singles, handle_i_frame(c, piece)
    PROVE  ChainInv'
<1> DEFINE l == Sends(c, [type |-> "I"])
           reasm == Append(l.reasm, piece)
           a == reasm[1].apdu
<1>1. IsLink(l) /\ l.scp = link[c].scp /\ l.reasm = link[c].reasm
  BY Sending DEF SameResponder, ChainInv, LinkInv
<1>2. a \in Singles
  BY <1>1, FirstPiece
<1>3. PICK out \in Complete(l, store, reasm) :
        /\ out.scp.state = "Pending" /\ out.scp # l.scp => Len(opened) < MaxSessions
        /\ opened' = IF out.scp.state = "Pending" /\ out.scp # l.scp
                     THEN Append(opened, platform_scp_config(store)) ELSE opened
        /\ executed' = IF Whole(reasm) /\ Executes(l, a)
                       THEN [executed EXCEPT ![a.sess] =
                                Append(@, [apdu |-> a, icv |-> IcvUsed(l, a, out.sw), sw |-> out.sw])]
                       ELSE executed
        /\ link' = [link EXCEPT ![c] =
              Answered(c, [l EXCEPT !.reasm = <<>>, !.scp = out.scp, !.ssd = out.ssd,
                                 !.snd = IF c \in Unruly THEN @ ELSE next_snd(@, out.frames)],
                       build_response_frames(l.snd, out.frames))]
  BY DEF handle_i_frame
<1>4. PICK m : /\ link' = [link EXCEPT ![c] = m] /\ IsLink(m) /\ m.reasm = <<>> /\ m.scp = out.scp
  <2> DEFINE snd == IF c \in Unruly THEN l.snd ELSE next_snd(l.snd, out.frames)
             frames == build_response_frames(l.snd, out.frames)
             m == Answered(c, After(l, out.scp, out.ssd, snd), frames)
  <2>1. link' = [link EXCEPT ![c] = m]
    BY <1>3 DEF After
  <2> HIDE DEF l, snd, frames
  <2>2. IsLink(m) /\ m.reasm = <<>> /\ m.scp = out.scp
    BY <1>1, Processed
  <2> HIDE DEF m
  <2> QED
    BY <2>1, <2>2
<1>5. wire' = wire
  BY DEF handle_i_frame
<1>6. /\ IsSeq(m.reasm) /\ \A i \in 1..Len(m.reasm) : m.reasm[i].apdu \in wire
      /\ IsChannel(l.scp)
  BY <1>1, <1>4, EmptyIsSeq DEF ChainInv, ChannelInv
<1> HIDE DEF l, reasm, a
<1>7. CASE Whole(reasm) /\ Executes(l, a)
  <2>1. out = process_apdu(l, store, a)
    BY <1>7 DEF Complete, a
  <2>2. /\ m.scp.state = "Active" /\ IsChannel(m.scp) /\ m.scp.sess = link[c].scp.sess
        /\ m.scp.chained = link[c].scp.chained + 1
        /\ ~legacy => m.scp.cmd_counter = link[c].scp.cmd_counter + 1
    BY <1>1, <1>4, <1>6, <1>7, <2>1, ProcessExecutes
  <2>3. /\ link[c].scp.state = "Active" /\ a.sess = link[c].scp.sess
        /\ a.pos = link[c].scp.chained /\ a.key = opened[a.sess]
    BY <1>1, <1>7 DEF Executes, Verifies, OwnKeys, is_active
  <2>4. a \in wire
    BY <1>1, <1>2, <1>7, ExecutesFromWire
  <2>5. ~legacy => IcvUsed(l, a, out.sw) \subseteq {link[c].scp.cmd_counter}
    BY <1>1, <1>6, <2>3, IcvIsCounter DEF IsChannel, Idle
  <2>6. UNCHANGED <<opened, wire>>
    BY <1>3, <1>4, <1>5, <2>2
  <2>7. PICK icv, sw : /\ executed' = [executed EXCEPT ![a.sess] =
                                           Append(@, [apdu |-> a, icv |-> icv, sw |-> sw])]
                       /\ ~legacy => icv \subseteq {link[c].scp.cmd_counter}
    BY <1>3, <1>7, <2>5
  <2> QED
    BY <1>4, <2>2, <2>3, <2>4, <2>6, <2>7, ExecutesOne
<1>8. CASE ~(Whole(reasm) /\ Executes(l, a))
  <2>1. \/ out.scp = Idle
        \/ out.scp = l.scp
        \/ out.scp = Pending(Len(opened) + 1)
        \/ l.scp.state = "Pending" /\ out.scp = Active(l.scp.sess, a.level)
    <3>1. CASE Whole(reasm)
      <4>1. out = process_apdu(l, store, a)
        BY <3>1 DEF Complete, a
      <4>2. a.kind \in {"SELECT", "INITIALIZE_UPDATE", "WRAPPED", "PLAIN"}
        BY <1>2, SingleKinds DEF ChainInv
      <4> QED
        BY <1>6, <1>8, <3>1, <4>1, <4>2, ProcessOther
    <3>2. CASE ~Whole(reasm)
      BY <3>2, GarbledChannel DEF Complete
    <3> QED
      BY <3>1, <3>2
  <2>2. executed' = executed
    BY <1>3, <1>8
  <2>3. CASE out.scp = Idle \/ out.scp = l.scp
    <3>1. opened' = opened
      BY <1>3, <2>3 DEF Idle
    <3> QED
      BY <1>1, <1>4, <1>5, <1>6, <2>2, <2>3, <3>1, LinkChanges
  <2>4. CASE out.scp = Pending(Len(opened) + 1)
    <3>1. out.scp.state = "Pending" /\ out.scp.sess = Len(opened) + 1 /\ out.scp # Idle
      BY <2>4 DEF Pending, Idle
    <3>2. out.scp # l.scp
      BY <1>1, <3>1, ChainFacts
    <3>3. Len(opened) < MaxSessions /\ opened' = Append(opened, platform_scp_config(store))
      BY <1>3, <3>1, <3>2
    <3> QED
      BY <1>4, <1>5, <2>2, <2>4, <3>3, Opens
  <2>5. CASE l.scp.state = "Pending" /\ out.scp = Active(l.scp.sess, a.level)
    <3>1. opened' = opened
      BY <1>3, <2>5 DEF Active
    <3> QED
      BY <1>1, <1>4, <1>5, <2>2, <2>5, <3>1, Authenticates
  <2> QED
    BY <2>1, <2>3, <2>4, <2>5
<1> QED
  BY <1>7, <1>8

\* Initially nothing is open.
LEMMA ChainInit == CInit => ChainInv
<1> SUFFICES ASSUME CInit PROVE ChainInv
  OBVIOUS
<1>1. SessionInv
  BY EmptyIsSeq, CardAssumption DEF CInit, SessionInv
<1>2. LinkInv
  BY EmptyIsSeq, NewLinkIs DEF CInit, LinkInv
<1>3. ChannelInv
  BY NewLinkIs DEF CInit, ChannelInv, IsChannel, ChannelInStep, Idle
<1>4. HistoryInv
  BY EmptyIsSeq DEF CInit, HistoryInv
<1> QED
  BY <1>1, <1>2, <1>3, <1>4 DEF ChainInv

\* The frames that process no APDU.
LEMMA OtherFrames ==
    ASSUME ChainInv, NEW c \in Conns,
           \/ \E code : handle_s_request(c, code)
           \/ \E type : Unanswered(c, type)
           \/ \E a \in wire : MoreData(c, Piece(a, "first"))
           \/ Reconnect(c)
    PROVE  ChainInv'
<1> USE DEF ChainInv
<1>0. /\ IsLink(link[c]) /\ IsSeq(link[c].reasm)
      /\ \A i \in 1..Len(link[c].reasm) : link[c].reasm[i].apdu \in wire
  BY DEF LinkInv
<1> HIDE DEF ChainInv
<1>1. ASSUME NEW code, handle_s_request(c, code)
      PROVE  ChainInv'
  <2> DEFINE l == Sends(c, [type |-> "S", code |-> code])
             after == IF Resets([type |-> "S", code |-> code]) THEN reset_link(l) ELSE l
             m == Answered(c, after, <<[type |-> "S"]>>)
  <2>1. IsLink(l) /\ l.scp = link[c].scp /\ l.reasm = link[c].reasm
    BY <1>0, Sending DEF SameResponder
  <2>2. link' = [link EXCEPT ![c] = m] /\ UNCHANGED <<opened, wire, executed>>
    BY <1>1 DEF handle_s_request
  <2> HIDE DEF l
  <2>3. IsLink(reset_link(l)) /\ reset_link(l).scp = Idle /\ reset_link(l).reasm = <<>>
    BY <2>1 DEF reset_link, IsLink, LinkFields
  <2>4. /\ IsLink(after) /\ (after.scp = Idle \/ after.scp = link[c].scp)
        /\ (after.reasm = <<>> \/ after.reasm = link[c].reasm)
    BY <2>1, <2>3
  <2> HIDE DEF after
  <2>5. IsLink(m) /\ m.scp = after.scp /\ m.reasm = after.reasm
    BY <2>4, HostSide DEF SameResponder
  <2> HIDE DEF m
  <2>6. IsSeq(m.reasm) /\ \A i \in 1..Len(m.reasm) : m.reasm[i].apdu \in wire
    BY <1>0, <2>4, <2>5, EmptyIsSeq
  <2> QED
    BY <2>2, <2>4, <2>5, <2>6, LinkChanges
<1>2. ASSUME NEW type, Unanswered(c, type)
      PROVE  ChainInv'
  <2> DEFINE l == Sends(c, [type |-> type])
             m == Answered(c, l, <<>>)
  <2>1. IsLink(l) /\ l.scp = link[c].scp /\ l.reasm = link[c].reasm
    BY <1>0, Sending DEF SameResponder
  <2>2. link' = [link EXCEPT ![c] = m] /\ UNCHANGED <<opened, wire, executed>>
    BY <1>2 DEF Unanswered
  <2> HIDE DEF l
  <2>3. IsLink(m) /\ m.scp = link[c].scp /\ m.reasm = link[c].reasm
    BY <2>1, HostSide DEF SameResponder
  <2> HIDE DEF m
  <2> QED
    BY <1>0, <2>2, <2>3, LinkChanges
<1>3. ASSUME NEW a \in wire, MoreData(c, Piece(a, "first"))
      PROVE  ChainInv'
  <2> DEFINE l == Sends(c, [type |-> "I"])
             piece == Piece(a, "first")
             longer == [l EXCEPT !.reasm = Append(@, piece)]
             m == Answered(c, longer, <<[type |-> "R"]>>)
  <2>1. IsLink(l) /\ l.scp = link[c].scp /\ l.reasm = link[c].reasm
    BY <1>0, Sending DEF SameResponder
  <2>2. link' = [link EXCEPT ![c] = m] /\ UNCHANGED <<opened, wire, executed>>
    BY <1>3 DEF MoreData
  <2>3. piece.apdu = a
    BY DEF Piece
  <2> HIDE DEF l, piece
  <2>4. IsLink(longer) /\ longer.scp = link[c].scp /\ longer.reasm = Append(link[c].reasm, piece)
    BY <2>1 DEF IsLink, LinkFields
  <2> HIDE DEF longer
  <2>5. IsLink(m) /\ m.scp = link[c].scp /\ m.reasm = Append(link[c].reasm, piece)
    BY <2>4, HostSide DEF SameResponder
  <2> HIDE DEF m
  <2>6. /\ IsSeq(m.reasm) /\ Len(m.reasm) = Len(link[c].reasm) + 1 /\ Len(link[c].reasm) \in Nat
        /\ \A i \in 1..Len(link[c].reasm) : m.reasm[i] = link[c].reasm[i]
        /\ m.reasm[Len(link[c].reasm) + 1] = piece
    BY <1>0, <2>5, Appended DEF IsSeq
  <2>7. \A i \in 1..Len(m.reasm) : m.reasm[i].apdu \in wire
    <3> SUFFICES ASSUME NEW i \in 1..Len(m.reasm) PROVE m.reasm[i].apdu \in wire
      OBVIOUS
    <3>1. i \in 1..Len(link[c].reasm) \/ i = Len(link[c].reasm) + 1
      BY <2>6
    <3> QED
      BY <1>0, <2>3, <2>6, <3>1
  <2> QED
    BY <2>2, <2>5, <2>6, <2>7, LinkChanges
<1>4. CASE Reconnect(c)
  <2>1. /\ link' = [link EXCEPT ![c] = NewLink] /\ UNCHANGED <<opened, wire, executed>>
    BY <1>4 DEF Reconnect
  <2>2. /\ IsLink(NewLink) /\ NewLink.scp = Idle /\ IsSeq(NewLink.reasm)
        /\ \A i \in 1..Len(NewLink.reasm) : NewLink.reasm[i].apdu \in wire
    BY NewLinkIs, EmptyIsSeq
  <2>3. PICK m : m = NewLink
    OBVIOUS
  <2> QED
    BY <2>1, <2>2, <2>3, LinkChanges
<1> QED
  BY <1>1, <1>2, <1>3, <1>4

\* Every step keeps the invariant.
LEMMA ChainStep == ChainInv /\ [CNext]_cvars => ChainInv'
<1> SUFFICES ASSUME ChainInv, [CNext]_cvars PROVE ChainInv'
  OBVIOUS
<1>1. ASSUME NEW c \in Conns,
             \/ \E code : handle_s_request(c, code)
             \/ \E type : Unanswered(c, type)
             \/ \E a \in wire : MoreData(c, Piece(a, "first"))
             \/ Reconnect(c)
      PROVE  ChainInv'
  BY <1>1, OtherFrames
<1>2. ASSUME NEW c \in Conns, NEW a \in Singles, NEW part, handle_i_frame(c, Piece(a, part))
      PROVE  ChainInv'
  <2>1. Piece(a, part).apdu \in Singles
    BY DEF Piece
  <2> QED
    BY <1>2, <2>1, CompleteChain
<1>3. CASE CardRestart
  <2>1. UNCHANGED <<opened, wire, executed>> /\ link' = [c \in Conns |-> NewLink]
    BY <1>3 DEF CardRestart
  <2>2. SessionInv' /\ HistoryInv'
    BY <2>1 DEF ChainInv, SessionInv, HistoryInv, ExecutedWell
  <2>3. LinkInv'
    BY <2>1, EmptyIsSeq, NewLinkIs DEF ChainInv, LinkInv
  <2>4. ChannelInv'
    BY <2>1, NewLinkIs DEF ChannelInv, IsChannel, ChannelInStep, Idle
  <2> QED
    BY <2>2, <2>3, <2>4 DEF ChainInv
<1>4. ASSUME NEW n, NEW cmd, Wrap(n, cmd)
      PROVE  ChainInv'
  <2>1. /\ UNCHANGED <<link, opened, executed>> /\ wire \subseteq wire'
        /\ \A a \in wire' : a \in wire \/ a.kind = "WRAPPED"
    BY <1>4 DEF Wrap
  <2>2. SessionInv'
    BY <2>1 DEF ChainInv, SessionInv
  <2>3. HistoryInv'
    BY <2>1 DEF ChainInv, HistoryInv, ExecutedWell
  <2>4. LinkInv'
    BY <2>1 DEF ChainInv, LinkInv
  <2>5. ChannelInv'
    BY <2>1 DEF ChainInv, ChannelInv, IsChannel, ChannelInStep
  <2> QED
    BY <2>2, <2>3, <2>4, <2>5 DEF ChainInv
<1>5. CASE UNCHANGED cvars
  <2>1. SessionInv' /\ LinkInv'
    BY <1>5 DEF cvars, ChainInv, SessionInv, LinkInv
  <2>2. ChannelInv'
    BY <1>5 DEF cvars, ChainInv, ChannelInv, IsChannel, ChannelInStep
  <2>3. HistoryInv'
    BY <1>5 DEF cvars, ChainInv, HistoryInv, ExecutedWell
  <2> QED
    BY <2>1, <2>2, <2>3 DEF ChainInv
<1>6. wire \subseteq Singles
  BY DEF Singles
<1> QED
  BY <1>1, <1>2, <1>3, <1>4, <1>5, <1>6 DEF CNext

\* The commands of a session are executed in the order its host wrapped them, each once, however
\* frames are repeated, split, mixed or sent on another connection (scp03/mod.rs, t1.rs).
THEOREM ChainIsOrder == CSpec => []WrappedOnceInOrder
<1>1. ChainInv => WrappedOnceInOrder
  <2> SUFFICES ASSUME ChainInv, NEW n \in DOMAIN opened, NEW i \in DOMAIN executed[n]
               PROVE  LET a == executed[n][i].apdu IN a \in wire /\ a.pos = i /\ a.key = opened[n]
    BY DEF WrappedOnceInOrder
  <2>1. n \in 1..Len(opened)
    BY DEF ChainInv, SessionInv, IsSeq
  <2>2. i \in 1..Len(executed[n])
    BY <2>1, ChainFacts DEF IsSeq
  <2> QED
    BY <2>1, <2>2 DEF ChainInv, HistoryInv, ExecutedWell
<1> QED
  BY <1>1, ChainInit, ChainStep, PTL DEF CSpec

\* From applet 4.3 on, no two encrypted answers of a session share an initial vector: the vector
\* of an answer is the place of its command in the chain (scp03/mod.rs, wrap_response).
THEOREM VectorsAreFresh == CSpec => []ResponseIcvFresh
<1>1. ChainInv => ResponseIcvFresh
  <2> SUFFICES ASSUME ChainInv, ~legacy, NEW n \in DOMAIN opened,
                      NEW i \in DOMAIN executed[n], NEW j \in DOMAIN executed[n], i # j
               PROVE  executed[n][i].icv \cap executed[n][j].icv = {}
    BY DEF ResponseIcvFresh
  <2>1. n \in 1..Len(opened)
    BY DEF ChainInv, SessionInv, IsSeq
  <2>2. i \in 1..Len(executed[n]) /\ j \in 1..Len(executed[n])
    BY <2>1, ChainFacts DEF IsSeq
  <2>3. executed[n][i].icv \subseteq {i} /\ executed[n][j].icv \subseteq {j}
    BY <2>1, <2>2 DEF ChainInv, HistoryInv, ExecutedWell
  <2> QED
    BY <2>3
<1> QED
  BY <1>1, ChainInit, ChainStep, PTL DEF CSpec

\* PUT KEY succeeds only with the data key of the keys in force.
LEMMA PutKeyNeedsKeys ==
    ASSUME NEW l, NEW s, NEW c, c.cmd = "PutKey", Inner(l, s, c).sw = NO_ERROR
    PROVE  c.dek = platform_scp_config(s)
<1>1. \A t : error(t, WRONG_DATA).sw # NO_ERROR
  BY DEF error, Reply, WRONG_DATA, NO_ERROR
<1> QED
  BY <1>1 DEF Inner, put_keys

\* A rotation is made by a host that holds the keys in force at that moment: a channel opened
\* before an earlier rotation cannot undo it (t1.rs, scp03/keys.rs).
THEOREM RotationNeedsKeys == CSpec => RotationNeedsKeysInForce
<1> DEFINE Rotates(n) ==
             Len(executed'[n]) > Len(executed[n]) =>
               LET e == executed'[n][Len(executed'[n])]
               IN  e.apdu.cmd.cmd = "PutKey" /\ e.sw = NO_ERROR =>
                     e.apdu.cmd.dek = platform_scp_config(store)
<1>1. ASSUME ChainInv, NEW n \in DOMAIN opened, executed' = executed
      PROVE  Rotates(n)
  <2>1. Len(executed[n]) \in Nat
    BY <1>1, ChainFacts DEF ChainInv, SessionInv, IsSeq
  <2> QED
    BY <1>1, <2>1
<1>2. ASSUME ChainInv, NEW n \in DOMAIN opened, NEW c \in Conns, NEW piece, handle_i_frame(c, piece)
      PROVE  Rotates(n)
  <2> DEFINE l == Sends(c, [type |-> "I"])
             reasm == Append(l.reasm, piece)
             a == reasm[1].apdu
  <2>1. PICK out \in Complete(l, store, reasm) :
          executed' = IF Whole(reasm) /\ Executes(l, a)
                      THEN [executed EXCEPT ![a.sess] =
                               Append(@, [apdu |-> a, icv |-> IcvUsed(l, a, out.sw), sw |-> out.sw])]
                      ELSE executed
    BY <1>2 DEF handle_i_frame
  <2>2. IsLink(l) /\ l.scp = link[c].scp
    BY <1>2, Sending DEF SameResponder, ChainInv, LinkInv
  <2>3. IsChannel(l.scp)
    BY <1>2, <2>2 DEF ChainInv, ChannelInv
  <2> HIDE DEF l, reasm, a
  <2>4. CASE Whole(reasm) /\ Executes(l, a) /\ a.sess = n
    <3> DEFINE e == [apdu |-> a, icv |-> IcvUsed(l, a, out.sw), sw |-> out.sw]
    <3>1. n \in 1..MaxSessions /\ IsSeq(executed[n])
      BY <1>2, ChainFacts DEF ChainInv, SessionInv, IsSeq
    <3>2. executed'[n] = Append(executed[n], e)
      BY <1>2, <2>1, <2>4, <3>1 DEF ChainInv, SessionInv
    <3>3. e.apdu = a /\ e.sw = out.sw
      OBVIOUS
    <3> HIDE DEF e
    <3>4. executed'[n][Len(executed'[n])] = e
      BY <3>1, <3>2, Appended
    <3>5. out = process_apdu(l, store, a)
      BY <2>4 DEF Complete, a
    <3>6. out.sw = Inner(l, store, a.cmd).sw
      BY <2>3, <2>4, <3>5, ProcessExecutes
    <3> QED
      BY <3>3, <3>4, <3>6, PutKeyNeedsKeys
  <2>5. CASE Whole(reasm) /\ Executes(l, a) /\ a.sess # n
    <3>1. n \in 1..MaxSessions /\ Len(executed[n]) \in Nat
      BY <1>2, ChainFacts DEF ChainInv, SessionInv, IsSeq
    <3>2. executed'[n] = executed[n]
      BY <1>2, <2>1, <2>5, <3>1 DEF ChainInv, SessionInv
    <3> QED
      BY <3>1, <3>2
  <2>6. CASE ~(Whole(reasm) /\ Executes(l, a))
    BY <1>1, <1>2, <2>1, <2>6
  <2> QED
    BY <2>4, <2>5, <2>6
<1>3. ChainInv /\ [CNext]_cvars => [\A n \in DOMAIN opened : Rotates(n)]_cvars
  <2> SUFFICES ASSUME ChainInv, CNext, NEW n \in DOMAIN opened PROVE Rotates(n)
    OBVIOUS
  <2> HIDE DEF Rotates
  <2>1. CASE executed' = executed
    BY <1>1, <2>1
  <2>2. CASE \E c \in Conns : \E piece : handle_i_frame(c, piece)
    BY <1>2, <2>2
  <2> QED
    BY <2>1, <2>2 DEF CNext, handle_s_request, Unanswered, MoreData, Reconnect, CardRestart, Wrap
<1> QED
  BY <1>3, ChainInit, ChainStep, PTL DEF CSpec, RotationNeedsKeysInForce

-----------------------------------------------------------------------------
(***************************************************************************)
(* The hosts that read an answer to its end.                               *)
(***************************************************************************)
\* Such a host and its responder agree on the number of the next I-frame; between the two frames
\* of an answer, the second one is all that is queued.
PoliteLink(l) ==
    /\ IsLink(l) /\ l.instep /\ l.snd \in {0, 1}
    /\ \/ ~l.reading /\ l.chunks = <<>> /\ l.expect = l.snd
       \/ l.reading /\ l.chunks = <<IFrame(l.expect, FALSE)>> /\ l.expect = 1 - l.snd

PoliteInv ==
    /\ link = [c \in Conns |-> link[c]]
    /\ \A c \in Conns \ Unruly : PoliteLink(link[c])

\* A queue of at most two frames.
LEMMA Queues ==
    /\ <<>> \o <<>> = <<>>
    /\ \A f : /\ <<>> \o <<f>> = <<f>> /\ <<f>> \o <<>> = <<f>>
              /\ <<f>> # <<>> /\ Head(<<f>>) = f /\ Tail(<<f>>) = <<>>
    /\ \A f, g : /\ <<>> \o <<f, g>> = <<f, g>>
                 /\ <<f, g>> # <<>> /\ Head(<<f, g>>) = f /\ Tail(<<f, g>>) = <<g>>
<1>1. <<>> \o <<>> = <<>>
  OBVIOUS
<1>2. \A f : <<>> \o <<f>> = <<f>> /\ <<f>> \o <<>> = <<f>>
  OBVIOUS
<1>3. \A f : <<f>> # <<>> /\ Head(<<f>>) = f /\ Tail(<<f>>) = <<>>
  OBVIOUS
<1>4. \A f, g : <<>> \o <<f, g>> = <<f, g>>
  OBVIOUS
<1>5. \A f, g : <<f, g>> # <<>> /\ Head(<<f, g>>) = f /\ Tail(<<f, g>>) = <<g>>
  OBVIOUS
<1> QED
  BY <1>1, <1>2, <1>3, <1>4, <1>5

\* The queue of a link once an answer is added: the frame that is written and what is left.
Queued(l, frames, frame, rest) ==
    /\ l.chunks \o frames # <<>>
    /\ frame = Head(l.chunks \o frames) /\ rest = Tail(l.chunks \o frames)

\* What such a host makes of the frame it is sent.
LEMMA PoliteReads ==
    ASSUME NEW c, c \notin Unruly, NEW l, IsLink(l), NEW frames, NEW frame, NEW rest,
           Queued(l, frames, frame, rest), NEW m, m = Answered(c, l, frames)
    PROVE  /\ IsLink(m) /\ m.snd = l.snd /\ m.chunks = rest
           /\ frame.type # "I" => ~m.reading /\ m.expect = l.expect
           /\ frame.type = "I" => (m.reading <=> frame.multi) /\ m.expect = 1 - l.expect
<1>1. ASSUME NEW x
      PROVE  LET n == [l EXCEPT !.chunks = x]
             IN  IsLink(n) /\ n.snd = l.snd /\ n.chunks = x /\ n.expect = l.expect
  BY DEF IsLink, LinkFields
<1>2. ASSUME NEW n, IsLink(n)
      PROVE  /\ IsLink(Reads(c, n, frame)) /\ Reads(c, n, frame).snd = n.snd
             /\ Reads(c, n, frame).chunks = n.chunks
  BY <1>2 DEF Reads, IsLink, LinkFields
<1>3. ASSUME NEW n, IsLink(n), frame.type # "I"
      PROVE  ~Reads(c, n, frame).reading /\ Reads(c, n, frame).expect = n.expect
  BY <1>3 DEF Reads, IsLink, LinkFields
<1>4. ASSUME NEW n, IsLink(n), frame.type = "I"
      PROVE  (Reads(c, n, frame).reading <=> frame.multi) /\ Reads(c, n, frame).expect = 1 - n.expect
  BY <1>4 DEF Reads, IsLink, LinkFields
<1>5. m = Reads(c, [l EXCEPT !.chunks = rest], frame)
  BY DEF Answered, Queued
<1>6. PICK n : /\ m = Reads(c, n, frame)
               /\ IsLink(n) /\ n.snd = l.snd /\ n.chunks = rest /\ n.expect = l.expect
  BY <1>1, <1>5
<1>7. IsLink(m) /\ m.snd = l.snd /\ m.chunks = rest
  BY <1>2, <1>6
<1>8. frame.type # "I" => ~m.reading /\ m.expect = l.expect
  BY <1>3, <1>6
<1>9. frame.type = "I" => (m.reading <=> frame.multi) /\ m.expect = 1 - l.expect
  BY <1>4, <1>6
<1> QED
  BY <1>7, <1>8, <1>9

\* It stays in step when an I-frame has the number it expects.
LEMMA PoliteInStep ==
    ASSUME NEW c, NEW l, IsLink(l), l.instep, NEW frames, NEW frame, NEW rest,
           Queued(l, frames, frame, rest), NEW m, m = Answered(c, l, frames),
           frame.type = "I" => frame.seq = l.expect
    PROVE  m.instep
<1>1. ASSUME NEW x
      PROVE  LET n == [l EXCEPT !.chunks = x] IN IsLink(n) /\ n.expect = l.expect /\ n.instep
  BY DEF IsLink, LinkFields
<1>2. ASSUME NEW n, IsLink(n), n.instep, frame.type = "I" => frame.seq = n.expect
      PROVE  Reads(c, n, frame).instep
  BY <1>2 DEF Reads, IsLink, LinkFields
<1>3. m = Reads(c, [l EXCEPT !.chunks = rest], frame)
  BY DEF Answered, Queued
<1>4. PICK n : m = Reads(c, n, frame) /\ IsLink(n) /\ n.expect = l.expect /\ n.instep
  BY <1>1, <1>3
<1> QED
  BY <1>2, <1>4

\* An answer takes one frame or two.
LEMMA OneOrTwoFrames ==
    ASSUME NEW l, NEW s, NEW reasm, NEW out \in Complete(l, s, reasm), Whole(reasm) =>
             reasm[1].apdu.kind \in {"SELECT", "INITIALIZE_UPDATE", "WRAPPED", "PLAIN"}
    PROVE  out.frames \in {1, 2}
<1>1. /\ \A scp, sw : Refused(l, scp, s, sw).frames = 1
      /\ \A scp, ssd, t, sw, frames : Out(scp, ssd, t, sw, frames).frames = frames
      /\ \A c, sw : Frames(c, sw) \in {1, 2}
  BY DEF Refused, Out, Frames
<1>2. CASE ~Whole(reasm)
  BY <1>1, <1>2 DEF Complete, garbled
<1>3. CASE Whole(reasm)
  <2> DEFINE a == reasm[1].apdu
  <2>1. out = process_apdu(l, s, a)
    BY <1>3 DEF Complete
  <2> HIDE DEF a
  <2>2. handle_select(l, s, a).frames = 1
    BY <1>1 DEF handle_select
  <2>3. initialize_update(l, s, a).frames = 1
    BY <1>1 DEF initialize_update
  <2>4. external_authenticate(l, s, a).frames = 1
    BY <1>1 DEF external_authenticate
  <2>5. Wrapped(l, s, a).frames \in {1, 2}
    <3>1. ASSUME NEW reply, NEW scp
          PROVE  Out(scp, l.ssd, reply.store, reply.sw, Frames(a.cmd, reply.sw)).frames \in {1, 2}
      BY <1>1
    <3> QED
      BY <1>1, <3>1 DEF Wrapped
  <2>6. plain_command(l, s, a).frames \in {1, 2}
    <3>1. Plain(l, s, a.cmd).frames = Frames(a.cmd, dispatch(s, a.cmd, FALSE).sw)
      BY DEF Plain, Out
    <3>2. Plain(l, s, a.cmd).frames \in {1, 2}
      BY <1>1, <3>1, Zenon
    <3> QED
      BY <1>1, <3>2 DEF plain_command
  <2> QED
    BY <1>3, <2>1, <2>2, <2>3, <2>4, <2>5, <2>6 DEF process_apdu, a
<1> QED
  BY <1>2, <1>3

\* A reset while nothing is queued.
LEMMA PoliteRequest ==
    ASSUME NEW c \in Conns \ Unruly, PoliteLink(link[c]), ~link[c].reading, NEW code,
           handle_s_request(c, code), link = [d \in Conns |-> link[d]]
    PROVE  PoliteLink(link'[c])
<1> DEFINE f == [type |-> "S", code |-> code]
           l == Sends(c, f)
           after == IF Resets(f) THEN reset_link(l) ELSE l
           frames == <<[type |-> "S"]>>
           m == Answered(c, after, frames)
<1>1. link'[c] = m
  BY DEF handle_s_request
<1>2. /\ IsLink(l) /\ l.snd = link[c].snd /\ l.chunks = <<>> /\ l.instep
      /\ l.expect = IF Resets(f) THEN 0 ELSE l.snd
  BY Sending DEF PoliteLink, SameResponder
<1> HIDE DEF l, f
<1>3. /\ IsLink(reset_link(l)) /\ reset_link(l).snd = 0 /\ reset_link(l).chunks = l.chunks
      /\ reset_link(l).expect = l.expect /\ reset_link(l).instep = l.instep
  BY <1>2 DEF reset_link, IsLink, LinkFields
<1>4. /\ IsLink(after) /\ after.snd \in {0, 1} /\ after.chunks = <<>> /\ after.expect = after.snd
      /\ after.instep
  BY <1>2, <1>3 DEF PoliteLink
<1> HIDE DEF after
<1>5. PICK frame, rest : Queued(after, frames, frame, rest) /\ frame.type = "S" /\ rest = <<>>
  <2>1. after.chunks \o frames = frames /\ frames # <<>> /\ Tail(frames) = <<>>
    BY <1>4, Queues
  <2>2. Head(frames).type = "S"
    BY Queues
  <2> QED
    BY <2>1, <2>2 DEF Queued
<1> HIDE DEF frames
<1>6. /\ IsLink(m) /\ m.snd = after.snd /\ m.chunks = <<>> /\ ~m.reading
      /\ m.expect = after.expect
  BY <1>4, <1>5, PoliteReads
<1>7. m.instep
  BY <1>4, <1>5, PoliteInStep
<1> QED
  BY <1>1, <1>4, <1>6, <1>7 DEF PoliteLink

\* The host asks for the second frame of an answer.
LEMMA PoliteAcknowledge ==
    ASSUME NEW c \in Conns \ Unruly, PoliteLink(link[c]), link[c].reading,
           Unanswered(c, "R"), link = [d \in Conns |-> link[d]]
    PROVE  PoliteLink(link'[c])
<1> DEFINE l == Sends(c, [type |-> "R"])
           frames == <<>>
           m == Answered(c, l, frames)
<1>1. link'[c] = m
  BY DEF Unanswered
<1>2. /\ IsLink(l) /\ l.snd = link[c].snd /\ l.snd \in {0, 1} /\ l.instep
      /\ l.expect = 1 - l.snd /\ l.chunks = <<IFrame(l.expect, FALSE)>>
  BY Sending DEF PoliteLink, SameResponder, Resets
<1> HIDE DEF l
<1>3. PICK frame, rest : /\ Queued(l, frames, frame, rest) /\ rest = <<>>
                         /\ frame.type = "I" /\ ~frame.multi /\ frame.seq = l.expect
  <2>1. /\ l.chunks \o frames = l.chunks /\ l.chunks # <<>> /\ Tail(l.chunks) = <<>>
        /\ Head(l.chunks) = IFrame(l.expect, FALSE)
    BY <1>2, Queues
  <2>2. LET h == IFrame(l.expect, FALSE) IN h.type = "I" /\ ~h.multi /\ h.seq = l.expect
    BY DEF IFrame
  <2> QED
    BY <2>1, <2>2 DEF Queued
<1> HIDE DEF frames
<1>4. /\ IsLink(m) /\ m.snd = l.snd /\ m.chunks = <<>> /\ ~m.reading
      /\ m.expect = 1 - l.expect
  BY <1>2, <1>3, PoliteReads
<1>5. m.expect = m.snd
  BY <1>2, <1>4
<1>6. m.instep
  BY <1>2, <1>3, PoliteInStep
<1> QED
  BY <1>1, <1>2, <1>4, <1>5, <1>6 DEF PoliteLink

\* An APDU is answered.
LEMMA PoliteAnswer ==
    ASSUME ChainInv, NEW c \in Conns \ Unruly, PoliteLink(link[c]), ~link[c].reading,
           NEW piece, piece.apdu \in Singles, handle_i_frame(c, piece)
    PROVE  PoliteLink(link'[c])
<1> DEFINE l == Sends(c, [type |-> "I"])
           reasm == Append(l.reasm, piece)
<1>1. /\ IsLink(l) /\ l.snd = link[c].snd /\ l.reasm = link[c].reasm /\ l.chunks = <<>> /\ l.instep
      /\ l.expect = l.snd /\ l.snd \in {0, 1}
  BY Sending DEF PoliteLink, SameResponder, Resets
<1>2. PICK out \in Complete(l, store, reasm) :
        link' = [link EXCEPT ![c] =
              Answered(c, [l EXCEPT !.reasm = <<>>, !.scp = out.scp, !.ssd = out.ssd,
                                 !.snd = IF c \in Unruly THEN @ ELSE next_snd(@, out.frames)],
                       build_response_frames(l.snd, out.frames))]
  BY DEF handle_i_frame
<1>3. out.frames \in {1, 2}
  <2>1. reasm[1].apdu \in Singles
    BY <1>1, FirstPiece
  <2>2. reasm[1].apdu.kind \in {"SELECT", "INITIALIZE_UPDATE", "WRAPPED", "PLAIN"}
    BY <2>1, SingleKinds DEF ChainInv
  <2> HIDE DEF l, reasm
  <2> QED
    BY <2>2, OneOrTwoFrames
<1> DEFINE frames == build_response_frames(l.snd, out.frames)
           snd == next_snd(l.snd, out.frames)
           after == After(l, out.scp, out.ssd, snd)
           m == Answered(c, after, frames)
<1>4. link'[c] = m
  BY <1>2 DEF ChainInv, LinkInv, After
<1> HIDE DEF l
<1>5. /\ IsLink(after) /\ after.chunks = <<>> /\ after.instep /\ after.expect = l.snd
      /\ after.snd = snd
  BY <1>1 DEF After, IsLink, LinkFields
<1>6. \/ snd = 1 - l.snd /\ frames = <<IFrame(l.snd, FALSE)>>
      \/ snd = l.snd /\ frames = <<IFrame(l.snd, TRUE), IFrame(1 - l.snd, FALSE)>>
  BY <1>3 DEF next_snd, build_response_frames
<1> HIDE DEF after, snd, frames
<1>7. LET h == IFrame(l.snd, FALSE) IN h.type = "I" /\ ~h.multi /\ h.seq = l.snd
  BY DEF IFrame
<1>8. LET h == IFrame(l.snd, TRUE) IN h.type = "I" /\ h.multi /\ h.seq = l.snd
  BY DEF IFrame
<1>9. CASE snd = 1 - l.snd /\ frames = <<IFrame(l.snd, FALSE)>>
  <2>1. PICK frame, rest : /\ Queued(after, frames, frame, rest) /\ rest = <<>>
                           /\ frame.type = "I" /\ ~frame.multi /\ frame.seq = l.snd
    <3>1. /\ after.chunks \o frames = frames /\ frames # <<>> /\ Tail(frames) = <<>>
          /\ Head(frames) = IFrame(l.snd, FALSE)
      BY <1>5, <1>9, Queues
    <3> QED
      BY <1>7, <3>1 DEF Queued
  <2>2. IsLink(m) /\ m.snd = snd /\ m.chunks = <<>> /\ ~m.reading /\ m.expect = 1 - l.snd
    BY <1>5, <2>1, PoliteReads
  <2>3. m.instep
    BY <1>5, <2>1, PoliteInStep
  <2>4. snd \in {0, 1}
    BY <1>1, <1>9
  <2> QED
    BY <1>4, <1>9, <2>2, <2>3, <2>4 DEF PoliteLink
<1>10. CASE snd = l.snd /\ frames = <<IFrame(l.snd, TRUE), IFrame(1 - l.snd, FALSE)>>
  <2> DEFINE second == <<IFrame(1 - l.snd, FALSE)>>
  <2>1. PICK frame, rest : /\ Queued(after, frames, frame, rest) /\ rest = second
                           /\ frame.type = "I" /\ frame.multi /\ frame.seq = l.snd
    <3>1. /\ after.chunks \o frames = frames /\ frames # <<>>
          /\ Tail(frames) = second /\ Head(frames) = IFrame(l.snd, TRUE)
      BY <1>5, <1>10, Queues
    <3> HIDE DEF second
    <3> QED
      BY <1>8, <3>1 DEF Queued
  <2> HIDE DEF second
  <2>2. /\ IsLink(m) /\ m.snd = snd /\ m.chunks = second /\ m.reading
        /\ m.expect = 1 - l.snd
    BY <1>5, <2>1, PoliteReads
  <2>3. m.instep
    BY <1>5, <2>1, PoliteInStep
  <2> QED
    BY <1>1, <1>4, <1>10, <2>2, <2>3 DEF PoliteLink, second
<1> QED
  BY <1>6, <1>9, <1>10

\* A host that reads an answer to its end before it sends the next frame sees the sequence numbers
\* it expects, through chained answers and resets (t1.rs, build_response_frames).
THEOREM PoliteHosts == CSpec => []PoliteHostInStep
<1>0. PoliteLink(NewLink)
  BY NewLinkIs DEF PoliteLink, NewLink
<1>1. CInit => PoliteInv
  BY <1>0 DEF CInit, PoliteInv
<1>2. ChainInv /\ PoliteInv /\ [CNext]_cvars => PoliteInv'
  <2> SUFFICES ASSUME ChainInv, PoliteInv, [CNext]_cvars PROVE PoliteInv'
    OBVIOUS
  <2>1. link' = [c \in Conns |-> link'[c]]
    BY ChainStep DEF ChainInv, LinkInv
  <2> SUFFICES ASSUME NEW d \in Conns \ Unruly, link'[d] # link[d] PROVE PoliteLink(link'[d])
    BY <2>1 DEF PoliteInv
  <2>2. PoliteLink(link[d]) /\ link = [c \in Conns |-> link[c]]
    BY DEF PoliteInv
  <2>4. ASSUME NEW code, May(d, "S"), handle_s_request(d, code) PROVE PoliteLink(link'[d])
    BY <2>2, <2>4, PoliteRequest DEF May
  <2>5. ASSUME May(d, "R"), Unanswered(d, "R") PROVE PoliteLink(link'[d])
    BY <2>2, <2>5, PoliteAcknowledge DEF May
  <2>6. ASSUME NEW a \in Singles, May(d, "I"), handle_i_frame(d, Piece(a, "all"))
        PROVE  PoliteLink(link'[d])
    <3>1. Piece(a, "all").apdu \in Singles
      BY DEF Piece
    <3> QED
      BY <2>2, <2>6, <3>1, PoliteAnswer DEF May
  <2>7. ASSUME Reconnect(d) PROVE PoliteLink(link'[d])
    BY <1>0, <2>2, <2>7 DEF Reconnect
  <2>8. ASSUME CardRestart PROVE PoliteLink(link'[d])
    BY <1>0, <2>8 DEF CardRestart
  <2>9. ASSUME NEW c \in Conns, c # d,
               \/ \E code : handle_s_request(c, code)
               \/ \E type : Unanswered(c, type)
               \/ \E piece : handle_i_frame(c, piece)
               \/ \E piece : MoreData(c, piece)
               \/ Reconnect(c)
        PROVE  FALSE
    BY <2>2, <2>9 DEF handle_s_request, Unanswered, MoreData, handle_i_frame, Reconnect
  <2>10. CASE UNCHANGED link
    BY <2>10
  <2> QED
    BY <2>4, <2>5, <2>6, <2>7, <2>8, <2>9, <2>10 DEF CNext, cvars, Wrap
<1>3. PoliteInv => PoliteHostInStep
  BY DEF PoliteInv, PoliteLink, PoliteHostInStep
<1> QED
  BY <1>1, <1>2, <1>3, ChainInit, ChainStep, PTL DEF CSpec

-----------------------------------------------------------------------------
(***************************************************************************)
(* The card implements the service of Se050Service: a frame is one         *)
(* command of the service, one rotation, or nothing.                       *)
(***************************************************************************)
\* What hosts wrap are commands they send over a channel.
WireInv == alive \in BOOLEAN /\ \A a \in wire : a.cmd \in OverChannel

\* Nothing was ever sent at first.
LEMMA WireInit == CInit => WireInv
BY DEF CInit, WireInv

\* What is on the wire was sent over the channel.
LEMMA WireStep == WireInv /\ [CNext]_cvars => WireInv'
<1> SUFFICES ASSUME WireInv, [CNext]_cvars PROVE WireInv'
  OBVIOUS
<1>1. ASSUME wire' = wire, alive' \in BOOLEAN PROVE WireInv'
  BY <1>1 DEF WireInv
<1>2. ASSUME NEW c \in Conns, NEW piece, handle_i_frame(c, piece) PROVE WireInv'
  <2>1. wire' = wire /\ alive' \in BOOLEAN
    BY <1>2 DEF handle_i_frame
  <2> QED
    BY <1>1, <2>1
<1>3. ASSUME NEW c \in Conns,
             \/ \E code : handle_s_request(c, code)
             \/ \E type : Unanswered(c, type)
             \/ \E piece : MoreData(c, piece)
             \/ Reconnect(c)
      PROVE  WireInv'
  <2>1. wire' = wire /\ alive' = alive
    BY <1>3 DEF handle_s_request, Unanswered, MoreData, Reconnect
  <2> QED
    BY <1>1, <2>1 DEF WireInv
<1>4. CASE CardRestart
  BY <1>1, <1>4 DEF CardRestart
<1>5. ASSUME NEW n, NEW cmd \in OverChannel, Wrap(n, cmd) PROVE WireInv'
  BY <1>5 DEF Wrap, WireInv
<1>6. CASE UNCHANGED cvars
  BY <1>6 DEF WireInv, cvars
<1> QED
  BY <1>2, <1>3, <1>4, <1>5, <1>6 DEF CNext

\* What an APDU does to the store: it is refused, or it is a command, a rotation, or a plain
\* command of a card that requires no channel.
Quiet(s, out) == out.store = s /\ out.sw # Panic
Replies(out, reply) == out.store = reply.store /\ out.sw = reply.sw
Serves(l, s, a, out) ==
    \/ Quiet(s, out)
    \/ Executes(l, a) /\ a.cmd.cmd # "PutKey" /\ Replies(out, dispatch(s, a.cmd, TRUE))
    \/ /\ Executes(l, a) /\ a.cmd.cmd = "PutKey" /\ out.sw # Panic
       /\ out.store = [s EXCEPT !.platform_scp = {a.cmd.key}]
    \/ a.kind = "PLAIN" /\ ~s.scp_required /\ Replies(out, dispatch(s, a.cmd, FALSE))

\* What process_apdu does to the store is a command of the object service, or nothing.
LEMMA ProcessServes ==
    ASSUME NEW l, NEW s, NEW a,
           a.kind \in {"SELECT", "INITIALIZE_UPDATE", "WRAPPED", "PLAIN"}
    PROVE  Serves(l, s, a, process_apdu(l, s, a))
<1> DEFINE out == process_apdu(l, s, a)
<1>1. \A scp, ssd, t, sw, frames : /\ Out(scp, ssd, t, sw, frames).store = t
                                   /\ Out(scp, ssd, t, sw, frames).sw = sw
  BY DEF Out
<1>2. \A scp, sw : sw # Panic => Quiet(s, Refused(l, scp, s, sw))
  BY <1>1 DEF Refused, Quiet
<1>3. /\ WrongLength # Panic /\ NotFound # Panic /\ NO_ERROR # Panic /\ Secured # Panic
      /\ WRONG_P1P2 # Panic /\ CONDITIONS_NOT_SATISFIED # Panic /\ WRONG_DATA # Panic
      /\ "FILE_NOT_FOUND" # Panic
  BY DEF WrongLength, NotFound, NO_ERROR, Secured, WRONG_P1P2, CONDITIONS_NOT_SATISFIED, WRONG_DATA,
         Panic
<1>4. CASE a.kind = "SELECT"
  <2>1. out = handle_select(l, s, a)
    BY <1>4 DEF process_apdu
  <2>2. Quiet(s, handle_select(l, s, a))
    BY <1>1, <1>3 DEF handle_select, Quiet
  <2> QED
    BY <2>1, <2>2 DEF Serves
<1>5. CASE a.kind = "INITIALIZE_UPDATE"
  <2>1. out = initialize_update(l, s, a)
    BY <1>5 DEF process_apdu
  <2>2. Quiet(s, initialize_update(l, s, a))
    BY <1>2, <1>3 DEF initialize_update
  <2> QED
    BY <2>1, <2>2 DEF Serves
<1>6. CASE a.kind = "WRAPPED"
  <2>1. CASE a.pos = 0 /\ ~is_active(l.scp)
    <3>1. out = external_authenticate(l, s, a)
      BY <1>6, <2>1 DEF process_apdu
    <3>2. Quiet(s, external_authenticate(l, s, a))
      BY <1>2, <1>3 DEF external_authenticate
    <3> QED
      BY <3>1, <3>2 DEF Serves
  <2>2. CASE ~(a.pos = 0 /\ ~is_active(l.scp))
    <3>1. out = Wrapped(l, s, a)
      BY <1>6, <2>2 DEF process_apdu
    <3>2. CASE ~Executes(l, a)
      <4>1. Quiet(s, Wrapped(l, s, a))
        BY <1>2, <1>3, <1>6, <3>2 DEF Wrapped, Executes
      <4> QED
        BY <3>1, <4>1 DEF Serves
    <3>3. CASE Executes(l, a)
      <4>1. Replies(out, Inner(l, s, a.cmd))
        BY <1>1, <3>1, <3>3 DEF Wrapped, Executes, Replies
      <4> HIDE DEF out
      <4>2. CASE a.cmd.cmd # "PutKey"
        <5>1. Inner(l, s, a.cmd) = dispatch(s, a.cmd, TRUE)
          BY <4>2 DEF Inner
        <5> QED
          BY <3>3, <4>1, <4>2, <5>1 DEF Serves, out
      <4>3. CASE a.cmd.cmd = "PutKey"
        <5>1. /\ error(s, WRONG_DATA).store = s /\ error(s, WRONG_DATA).sw = WRONG_DATA
              /\ \A t, x : success_with(t, x).store = t /\ success_with(t, x).sw = NO_ERROR
          BY DEF error, success_with, Reply
        <5>2. \/ Quiet(s, out)
              \/ out.sw # Panic /\ out.store = [s EXCEPT !.platform_scp = {a.cmd.key}]
          BY <1>3, <4>1, <4>3, <5>1 DEF Inner, put_keys, Replies, Quiet
        <5> QED
          BY <3>3, <4>3, <5>2 DEF Serves, out
      <4> QED
        BY <4>2, <4>3
    <3> QED
      BY <3>2, <3>3
  <2> QED
    BY <2>1, <2>2
<1>7. CASE a.kind = "PLAIN"
  <2>1. out = plain_command(l, s, a)
    BY <1>7 DEF process_apdu
  <2>2. Replies(Plain(l, s, a.cmd), dispatch(s, a.cmd, FALSE))
    BY DEF Plain, Replies, Out
  <2>3. \/ Quiet(s, plain_command(l, s, a))
        \/ ~s.scp_required /\ plain_command(l, s, a) = Plain(l, s, a.cmd)
    BY <1>2, <1>3 DEF plain_command
  <2>4. \/ Quiet(s, out)
        \/ ~s.scp_required /\ Replies(out, dispatch(s, a.cmd, FALSE))
    BY <2>1, <2>2, <2>3
  <2> HIDE DEF out
  <2>5. Serves(l, s, a, out)
    BY <1>7, <2>4 DEF Serves
  <2> QED
    BY <2>5 DEF out
<1> QED
  BY <1>4, <1>5, <1>6, <1>7

\* A store without a file: nothing is ever written.
LEMMA NothingSaved ==
    /\ \A s : Objects!persist({}, s) = {{}}
    /\ \A c, s, reply : Objects!SavedBy({}, c, s, reply) = {{}}
<1>1. \A s : Objects!persist({}, s) = {{}}
  BY DEF Objects!persist
<1> QED
  BY <1>1 DEF Objects!SavedBy

\* The steps of the service.
LEMMA ServiceCommand ==
    ASSUME NEW c, NEW active \in BOOLEAN, c \in (IF active THEN OverChannel ELSE InPlain),
           alive, store.scp_required => active,
           store' = dispatch(store, c, active).store,
           alive' = (dispatch(store, c, active).sw # Panic)
    PROVE  Objects!ONext
<1>1. c \in Commands
  BY CardAssumption
<1>2. Objects!Command(c, active)
  BY NothingSaved DEF Objects!Command, Objects!Admitted
<1> QED
  BY <1>1, <1>2 DEF Objects!ONext

\* A key rotation on the card is one of the object service.
LEMMA ServicePutKey ==
    ASSUME NEW key \in PlatformKeys, alive, alive' = alive,
           store' = [store EXCEPT !.platform_scp = {key}]
    PROVE  Objects!ONext
<1>1. Objects!PutKey(key)
  BY NothingSaved DEF Objects!PutKey
<1> QED
  BY <1>1 DEF Objects!ONext

\* The last frame of a chain.
LEMMA FrameServes ==
    ASSUME ChainInv, WireInv, NEW c \in Conns, NEW piece, piece.apdu \in Singles,
           handle_i_frame(c, piece)
    PROVE  Objects!ONext \/ UNCHANGED <<store, alive>>
<1> DEFINE l == Sends(c, [type |-> "I"])
           reasm == Append(l.reasm, piece)
           a == reasm[1].apdu
<1>1. IsLink(l) /\ l.scp = link[c].scp /\ l.reasm = link[c].reasm
  BY Sending DEF SameResponder, ChainInv, LinkInv
<1>2. a \in Singles
  BY <1>1, FirstPiece
<1>3. /\ alive
      /\ \E out \in Complete(l, store, reasm) : store' = out.store /\ alive' = (out.sw # Panic)
  BY DEF handle_i_frame
<1>4. PICK out \in Complete(l, store, reasm) : store' = out.store /\ alive' = (out.sw # Panic)
  BY <1>3
<1>5. alive = TRUE
  BY <1>3 DEF WireInv
<1> HIDE DEF l, reasm
<1>6. ASSUME Quiet(store, out) PROVE UNCHANGED <<store, alive>>
  BY <1>4, <1>5, <1>6 DEF Quiet
<1>7. CASE ~Whole(reasm)
  <2>1. out \in garbled(l, store, reasm)
    BY <1>4, <1>7 DEF Complete
  <2>2. out.store = store /\ out.sw \in {WrongLength, Secured}
    BY <2>1 DEF garbled, Refused, Out
  <2> QED
    BY <1>6, <2>2 DEF WrongLength, Secured, Panic, Quiet
<1>8. CASE Whole(reasm)
  <2>1. out = process_apdu(l, store, a)
    BY <1>4, <1>8 DEF Complete
  <2>2. a.kind \in {"SELECT", "INITIALIZE_UPDATE", "WRAPPED", "PLAIN"}
    BY <1>2, SingleKinds DEF ChainInv
  <2>3. Executes(l, a) => a.cmd \in OverChannel
    BY <1>1, <1>2, ExecutesFromWire DEF WireInv
  <2>4. a.kind = "PLAIN" => a.cmd \in InPlain
    <3>1. a.kind = "PLAIN" => a \in PlainCommands
      BY <1>2 DEF Singles, Handshakes, Authentications, Authentication, Forgeries, ChainInv, LinkInv
    <3> QED
      BY <3>1 DEF PlainCommands
  <2> HIDE DEF a
  <2>5. Serves(l, store, a, out)
    BY <2>1, <2>2, ProcessServes
  <2>6. CASE Quiet(store, out)
    BY <1>6, <2>6
  <2>7. CASE Executes(l, a) /\ Replies(out, dispatch(store, a.cmd, TRUE))
    BY <1>3, <1>4, <2>3, <2>7, ServiceCommand DEF Replies
  <2>8. CASE /\ Executes(l, a) /\ a.cmd.cmd = "PutKey" /\ out.sw # Panic
             /\ out.store = [store EXCEPT !.platform_scp = {a.cmd.key}]
    <3>1. a.cmd.key \in PlatformKeys
      BY <2>3, <2>8, CardAssumption
    <3>2. alive' = alive
      BY <1>4, <1>5, <2>8
    <3> QED
      BY <1>3, <1>4, <2>8, <3>1, <3>2, ServicePutKey
  <2>9. CASE a.kind = "PLAIN" /\ ~store.scp_required /\ Replies(out, dispatch(store, a.cmd, FALSE))
    BY <1>3, <1>4, <2>4, <2>9, ServiceCommand DEF Replies
  <2> QED
    BY <2>5, <2>6, <2>7, <2>8, <2>9 DEF Serves
<1> QED
  BY <1>7, <1>8

\* Every frame that any connection sends is one atomic command of the service, one rotation of its
\* keys, or no step of it: a plain command is never executed on a card that requires the channel,
\* and the commands a host sends over the channel only never in plain (t1.rs, bin/tcp_server.rs).
THEOREM CardImplementsObjects == CSpec => ImplementsObjects
<1>1. CInit => Objects!OInit
  BY DEF CInit, Objects!OInit
<1>2. ChainInv /\ WireInv /\ [CNext]_cvars => [Objects!ONext]_(Objects!ovars)
  <2> SUFFICES ASSUME ChainInv, WireInv, [CNext]_cvars
               PROVE  Objects!ONext \/ UNCHANGED <<store, alive>>
    BY DEF Objects!ovars
  <2>1. ASSUME NEW c \in Conns, NEW a \in Singles, NEW part, handle_i_frame(c, Piece(a, part))
        PROVE  Objects!ONext \/ UNCHANGED <<store, alive>>
    <3>1. Piece(a, part).apdu \in Singles
      BY DEF Piece
    <3> QED
      BY <2>1, <3>1, FrameServes
  <2>2. CASE CardRestart
    <3>1. Objects!Restart
      BY <2>2 DEF CardRestart, Objects!Restart, Objects!load
    <3> QED
      BY <3>1 DEF Objects!ONext
  <2>3. ASSUME NEW c \in Conns,
               \/ \E code : handle_s_request(c, code)
               \/ \E type : Unanswered(c, type)
               \/ \E piece : MoreData(c, piece)
               \/ Reconnect(c)
        PROVE  UNCHANGED <<store, alive>>
    BY <2>3 DEF handle_s_request, Unanswered, MoreData, Reconnect
  <2>4. ASSUME NEW n, NEW cmd, Wrap(n, cmd) PROVE UNCHANGED <<store, alive>>
    BY <2>4 DEF Wrap
  <2>5. CASE UNCHANGED cvars
    BY <2>5 DEF cvars
  <2>6. wire \subseteq Singles
    BY DEF Singles
  <2> QED
    BY <2>1, <2>2, <2>3, <2>4, <2>5, <2>6 DEF CNext
<1> QED
  BY <1>1, <1>2, ChainInit, ChainStep, WireInit, WireStep, PTL
  DEF CSpec, ImplementsObjects, Objects!OSpec
=============================================================================
