----------------------------- MODULE Pic32Crypto -----------------------------
(***************************************************************************)
(* The crypto engine of the PIC32MZ simulator and the firmware that drives *)
(* it.  The firmware builds buffer descriptors (BDs) in RAM and writes     *)
(* CECON.  START runs a chain within the write; START with POLLING arms a  *)
(* stream: a callback in the global tick registry looks at the chain at    *)
(* every translation block and hashes each BD with DESC_EN set.            *)
(*                                                                         *)
(* A message is the sequence of the positions of its bytes, 0 is padding,  *)
(* a digest is the sequence of the bytes that were hashed, and a byte that *)
(* was enciphered is negative.  The firmware follows the wolfSSL driver,   *)
(* which is not part of the repository.                                    *)
(***************************************************************************)
EXTENDS Integers, Sequences, FiniteSets, SequencesExt

CONSTANTS
    NBD,            \* buffer descriptors of the firmware
    MAX_BD_CHAIN,   \* descriptors that one START executes
    MAX_POLLED,     \* descriptors of a stream
    BUF,            \* bytes in the buffer of a descriptor
    BLOCK,          \* bytes in a cipher block, and in a padded word
    Streams,        \* messages that the firmware streams: [algo, size, ring, addr], where ring is
                    \* the NXTPTR of every descriptor and addr the first descriptor
    Singles,        \* chains that it runs at once: also [en, saf, last] of the first descriptor
    Silicons,       \* subset of {"EF", "EC"}
    MaxArms         \* bound: entries of the tick registry

ASSUME EngineConstants ==
    /\ {NBD, MAX_BD_CHAIN, MAX_POLLED, BUF, BLOCK} \subseteq Nat \ {0}
    /\ MaxArms \in Nat /\ Silicons \subseteq {"EF", "EC"}

\* The descriptors of the firmware, and no ring that is longer than the chain of a stream: the
\* engine would never look at the rest of it.
ASSUME FirmwareConstants ==
    /\ NBD <= MAX_POLLED
    /\ \A m \in Streams \cup Singles :
        m.size \in Nat /\ m.addr \in Nat /\ m.ring \in [1..NBD -> Nat]
    /\ \A m \in Streams : m.algo \in {"hash", "hmac"}
    /\ \A d \in Singles :
        /\ {d.en, d.saf, d.last} \subseteq BOOLEAN
        /\ d.algo \in {"hash", "hmac", "block", "stream", "none"}

VARIABLES
    silicon,    \* EC silicon cannot swap its output
    cecon,      \* flags of CECON
    errop,      \* CESTAT.ERROP
    pktif,      \* CEINTSRC.PKTIF
    cebdpaddr,  \* address of the first descriptor, or 0
    bd,         \* the descriptors, in RAM
    out,        \* what was written to the UPDPTR or DSTADDR of each descriptor
    ticks,      \* the registry of callbacks: the state of a stream, or NoTick
    polling,    \* index of the callback of the engine, or 0
    fw          \* the firmware

engine == <<silicon, cecon, errop, pktif, cebdpaddr, ticks, polling>>
cevars == <<engine, bd, out, fw>>

BDs == 1..NBD
Mapped(a) == a \in BDs
NoOutput == [at |-> "none"]
NoTick == [live |-> FALSE]
Padded(s) == s \o [i \in 1..((BLOCK - (Len(s) % BLOCK)) % BLOCK) |-> 0]
Positions(i, j) == [n \in 1..(j - i + 1) |-> i + n - 1]
Lesser(a, b) == IF a < b THEN a ELSE b

\* op applied to the elements of s, from the left.
Iterate(op(_, _), first, s) ==
    LET after[n \in 0..Len(s)] ==
            IF n = 0 THEN first ELSE CHOOSE r \in {op(x, s[n]) : x \in {after[n - 1]}} : TRUE
    IN  after[Len(s)]
-----------------------------------------------------------------------------
(* A chain that runs at once. *)

\* Bytes that a cipher reaches: whole blocks only in ECB and CBC.
Reached(d) == IF d.algo = "block" THEN (d.msglen \div BLOCK) * BLOCK ELSE d.msglen

\* One operation.  The HMAC bit changes nothing: the message alone is hashed.
execute(d, swap) ==
    CASE d.algo \in {"hash", "hmac"} ->
            [at |-> "upd", bytes |-> SubSeq(d.buf, 1, Lesser(d.msglen, Len(d.buf))), swapped |-> ~swap]
      [] d.algo \in {"block", "stream"} ->
            [at |-> "dst", swapped |-> ~swap,
             bytes |-> [i \in DOMAIN d.buf |-> IF i <= Reached(d) THEN -d.buf[i] ELSE d.buf[i]]]
      [] OTHER -> NoOutput

run_bd(s, swap) ==
    LET d == bd[s.at]
        r == execute(d, swap)
    IN  IF ~Mapped(s.at) \/ ~d.en \/ ~d.saf \/ r = NoOutput
        THEN [s EXCEPT !.state = "failed"]
        ELSE [at |-> d.nxt, out |-> [s.out EXCEPT ![s.at] = r],
              state |-> IF d.last \/ d.nxt \in {0, s.at} THEN "done" ELSE "running"]

\* START: the descriptors from CEBDPADDR on, to the last one.  DESC_EN stays set.
run_chain(swap) ==
    Iterate(LAMBDA s, n : IF s.state = "running" THEN run_bd(s, swap) ELSE s,
             [at |-> cebdpaddr, out |-> out, state |-> "running"],
             Positions(1, MAX_BD_CHAIN))
-----------------------------------------------------------------------------
(* A stream. *)

collect_bd(s) ==
    CASE s.cur \in {0} \cup ToSet(s.addrs) -> [s EXCEPT !.state = "done"]
      [] s.cur # 0 /\ ~Mapped(s.cur) -> [s EXCEPT !.state = "failed"]
      [] OTHER -> [addrs |-> Append(s.addrs, s.cur), cur |-> bd[s.cur].nxt,
                   state |-> IF bd[s.cur].nxt = s.cur THEN "done" ELSE "walking"]

\* The chain is read once, when the stream is armed.
collect_chain ==
    Iterate(LAMBDA s, n : IF s.state = "walking" THEN collect_bd(s) ELSE s,
             [addrs |-> <<>>, cur |-> cebdpaddr, state |-> "walking"],
             Positions(1, MAX_POLLED))

\* The padding goes into the digest.
take_all(d, fed) == d.buf
\* Bytes of a descriptor that belong to the message: MSGLEN cuts the padding of the last one.
take(d, fed) ==
    IF d.msglen = 0 THEN d.buf
    ELSE SubSeq(d.buf, 1, Lesser(Len(d.buf), d.msglen - Lesser(fed, d.msglen)))

\* The error ends the sweep; DESC_EN stays set, and the next tick tries again.
refuse(s, b) == [s EXCEPT !.stop = TRUE]

\* One enabled descriptor.  The first one names the algorithm, which must be a plain hash.
process_bd(s, b) ==
    LET d == s.bd[b]
        bytes == s.st.fed \o take(d, Len(s.st.fed))
        final == d.last /\ d.lifm
    IN  IF ~s.st.ctx /\ (~d.saf \/ d.algo # "hash") THEN refuse(s, b)
        ELSE [st |-> [s.st EXCEPT !.ctx = ~final, !.fed = bytes, !.completed = final],
              bd |-> [s.bd EXCEPT ![b].en = FALSE],
              out |-> IF final THEN [s.out EXCEPT ![b] = [at |-> "upd", bytes |-> bytes,
                                                          swapped |-> ~s.st.swap]]
                      ELSE s.out,
              stop |-> final]

\* A tick that looks at the first descriptor only.
sweep_first(s) ==
    Iterate(LAMBDA a, b : IF a.stop \/ ~a.bd[b].en THEN a ELSE process_bd(a, b), s,
            SubSeq(s.st.chain, 1, 1))
\* A tick of one stream: its descriptors, in the order of the chain.
sweep(s) ==
    Iterate(LAMBDA a, b : IF a.stop \/ ~a.bd[b].en THEN a ELSE process_bd(a, b), s, s.st.chain)

\* The block hook calls every callback that is registered.
dispatch_tick(s, n) ==
    LET st == ticks[n]
        r == sweep([st |-> st, bd |-> s.bd, out |-> s.out, stop |-> FALSE])
    IN  IF ~st.live \/ st.completed THEN s
        ELSE [ticks |-> [s.ticks EXCEPT ![n] = r.st], bd |-> r.bd, out |-> r.out]

Tick ==
    \E r \in {Iterate(dispatch_tick, [ticks |-> ticks, bd |-> bd, out |-> out],
                     Positions(1, Len(ticks)))} :
        /\ ticks' = r.ticks /\ bd' = r.bd /\ out' = r.out
        /\ UNCHANGED <<silicon, cecon, errop, pktif, cebdpaddr, polling, fw>>
-----------------------------------------------------------------------------
(* The registers. *)

atomic_op(current, lane, value) ==
    CASE lane = 0 -> value
      [] lane = 1 -> current \cup value
      [] lane = 2 -> current \ value
      [] lane = 3 -> (current \cup value) \ (current \cap value)

\* The registry without the callback of the engine.
disarm_polling == IF polling = 0 THEN ticks ELSE [ticks EXCEPT ![polling] = NoTick]

out_swap(flags) == silicon # "EC" /\ "OUT_SWAP" \in flags

\* A reset of the registers alone.
reset_registers == UNCHANGED <<ticks, polling>>
software_reset == ticks' = disarm_polling /\ polling' = 0

\* CECON.SWRST.
Swrst ==
    /\ cecon' = {} /\ errop' = FALSE /\ pktif' = FALSE /\ cebdpaddr' = 0
    /\ software_reset
    /\ UNCHANGED <<silicon, bd, out>>

\* START with POLLING: another stream is disarmed, and this one registered.
arm(flags) ==
    LET c == collect_chain
    IN  /\ cecon' = flags \ {"START"}
        /\ Len(ticks) < MaxArms
        /\ IF cebdpaddr # 0 /\ c.state # "failed"
           THEN /\ ticks' = Append(disarm_polling,
                        [live |-> TRUE, ctx |-> FALSE, fed |-> <<>>, completed |-> FALSE,
                         swap |-> out_swap(flags), chain |-> c.addrs])
                /\ polling' = Len(ticks) + 1
                /\ UNCHANGED <<errop, pktif>>
           ELSE /\ ticks' = disarm_polling /\ polling' = 0
                /\ errop' = TRUE /\ pktif' = TRUE
        /\ UNCHANGED <<silicon, cebdpaddr, bd, out>>

\* START alone: the chain has run when the write returns.
start(flags) ==
    LET r == run_chain(out_swap(flags))
    IN  /\ cecon' = flags \ {"START"}
        /\ out' = r.out
        /\ errop' = (errop \/ r.state = "failed")
        /\ pktif' = TRUE
        /\ UNCHANGED <<silicon, cebdpaddr, bd, ticks, polling>>

\* A write of CECON or of one of its SET, CLR and INV lanes.
WriteCecon(lane, value) ==
    LET flags == atomic_op(cecon, lane, value)
    IN  \/ "SWRST" \in flags /\ Swrst
        \/ "SWRST" \notin flags /\ {"START", "POLLING"} \subseteq flags /\ arm(flags)
        \/ "SWRST" \notin flags /\ "START" \in flags /\ "POLLING" \notin flags /\ start(flags)
-----------------------------------------------------------------------------
(* The firmware. *)

\* clean: the firmware knows of nothing that the engine is still at, and of no error.
Idle(clean) == [mode |-> "idle", clean |-> clean]

Reset == WriteCecon(0, {"SWRST"}) /\ fw' = Idle(TRUE)

\* The firmware clears the interrupt flags, lays out its descriptors and gives the first to the
\* engine.
LayOut(table, addr) ==
    /\ fw.mode = "idle"
    /\ bd' = table /\ out' = [b \in BDs |-> NoOutput]
    /\ pktif' = FALSE /\ cebdpaddr' = addr
    /\ UNCHANGED <<silicon, cecon, errop, ticks, polling>>

LayOutStream(m) ==
    /\ LayOut([b \in BDs |-> [en |-> FALSE, saf |-> b = 1, last |-> FALSE, lifm |-> FALSE,
                              buf |-> <<>>, msglen |-> m.size, nxt |-> m.ring[b], algo |-> m.algo]],
              m.addr)
    /\ fw' = [mode |-> "stream", started |-> FALSE, size |-> m.size, sent |-> 0, cur |-> 1,
              final |-> 0, inverted |-> FALSE, algo |-> m.algo, clean |-> fw.clean]

\* The last descriptor of the chain is in order; the first is d.
LayOutSingle(d) ==
    /\ LayOut([b \in BDs |->
            [en |-> d.en \/ b # 1, saf |-> d.saf \/ b # 1, last |-> d.last \/ b # 1, lifm |-> TRUE,
             buf |-> Padded(Positions(1, d.size)), msglen |-> d.size, nxt |-> d.ring[b],
             algo |-> d.algo]], d.addr)
    /\ fw' = [mode |-> "single", started |-> FALSE, first |-> d, clean |-> fw.clean]

\* EF firmware asks for the swap; EC firmware may ask for it in vain.
SwapFlags == IF silicon = "EF" THEN {{"OUT_SWAP"}} ELSE {{}, {"OUT_SWAP"}}

StartStream ==
    /\ fw.mode = "stream" /\ ~fw.started
    /\ \E o \in SwapFlags : WriteCecon(0, {"START", "POLLING"} \cup o)
    /\ fw' = [fw EXCEPT !.started = TRUE]

\* Written to CECON, or to CECONSET, which keeps the flags of the last command.
StartSingle(lane) ==
    /\ fw.mode = "single" /\ ~fw.started
    /\ \E o \in SwapFlags : WriteCecon(lane, {"START"} \cup o)
    /\ fw' = [fw EXCEPT !.started = TRUE, !.clean = @ /\ (lane = 0 \/ "POLLING" \notin cecon)]

\* Descriptors of the stream that come after b in its chain.
Behind(b) ==
    LET chain == ticks[polling].chain
    IN  {chain[j] : j \in {k \in DOMAIN chain : \E i \in DOMAIN chain : i < k /\ chain[i] = b}}

\* The firmware waits for the next descriptor of its ring, fills it and sets DESC_EN.
Fill(k) ==
    LET b == fw.cur
        last == fw.sent + k = fw.size
    IN  /\ fw.mode = "stream" /\ fw.started /\ fw.final = 0
        /\ Mapped(b) /\ ~bd[b].en
        /\ k <= fw.size - fw.sent /\ (last \/ (k > 0 /\ k % BLOCK = 0))
        /\ bd' = [bd EXCEPT ![b].buf = Padded(Positions(fw.sent + 1, fw.sent + k)),
                            ![b].last = last, ![b].lifm = last, ![b].en = TRUE]
        /\ fw' = [fw EXCEPT !.sent = @ + k, !.cur = bd[b].nxt, !.final = IF last THEN b ELSE 0,
                            !.inverted = @ \/ (polling # 0 /\ \E c \in Behind(b) : bd[c].en)]
        /\ UNCHANGED <<engine, out>>

\* The firmware leaves with its result, or gives up.
Leave ==
    /\ fw.mode # "idle"
    /\ fw' = Idle(/\ fw.clean /\ fw.started
                  /\ IF fw.mode = "stream" THEN fw.final # 0 /\ ~bd[fw.final].en ELSE ~errop)
    /\ UNCHANGED <<engine, bd, out>>
-----------------------------------------------------------------------------
CeInit ==
    /\ silicon \in Silicons
    /\ cecon = {} /\ errop = FALSE /\ pktif = FALSE /\ cebdpaddr = 0
    /\ bd = [b \in BDs |-> [en |-> FALSE, saf |-> FALSE, last |-> FALSE, lifm |-> FALSE,
                            buf |-> <<>>, msglen |-> 0, nxt |-> 0, algo |-> "none"]]
    /\ out = [b \in BDs |-> NoOutput]
    /\ ticks = <<>> /\ polling = 0
    /\ fw = Idle(TRUE)

CeNext ==
    \/ Tick
    \/ Reset
    \/ \E m \in Streams : LayOutStream(m)
    \/ \E d \in Singles : LayOutSingle(d)
    \/ StartStream
    \/ \E lane \in 0..1 : StartSingle(lane)
    \/ \E k \in 0..BUF : Fill(k)
    \/ Leave

\* The block hook runs as long as the processor does, whatever the firmware is at.
CeSpec == CeInit /\ [][CeNext]_cevars /\ WF_cevars(Tick)
-----------------------------------------------------------------------------
\* A digest that a stream leaves for the firmware, once the last descriptor is done, is that of
\* the message, without padding, with no byte twice and none left out, and in the byte order the
\* firmware of this silicon expects; unless the firmware enabled a descriptor while one that
\* comes later in the chain was still waiting (the sweep goes by the chain, not by age).
DigestIsMessage ==
    fw.mode = "stream" /\ fw.final # 0 /\ polling # 0 /\ ~fw.inverted =>
        \/ bd[fw.final].en
        \/ out[fw.final] = [at |-> "upd", bytes |-> Positions(1, fw.size), swapped |-> silicon = "EC"]

\* A chain laid out after a reset, or after work that ended well, is not disturbed by an earlier
\* stream: it runs without an error, the interrupt is raised, and the whole blocks of a cipher
\* and the bytes of a hash are those of the message.
SingleUndisturbed ==
    LET d == fw.first
        r == out[1]
    IN  fw.mode = "single" /\ fw.started /\ fw.clean /\ cebdpaddr = 1
            /\ d.en /\ d.saf /\ d.last /\ d.algo # "none" =>
        /\ ~errop /\ pktif /\ r # NoOutput /\ r.swapped = (silicon = "EC")
        /\ IF d.algo \in {"hash", "hmac"} THEN r.bytes = Positions(1, d.size)
           ELSE \A i \in 1..Reached(bd[1]) : r.bytes[i] = -i

\* A descriptor of a supported stream that was armed does not wait for ever, as long as the
\* firmware stays with its message.
StreamProgress ==
    \A b \in BDs :
        (fw.mode = "stream" /\ fw.started /\ polling # 0 /\ fw.algo = "hash" /\ bd[b].en)
            ~> (~bd[b].en \/ fw.mode # "stream" \/ fw.inverted)
=============================================================================
