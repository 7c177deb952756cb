------------------------------ MODULE Stm32Hash ------------------------------
(***************************************************************************)
(* The HASH peripheral of the STM32 simulator, under the wolfSSL driver.   *)
(* The driver keeps many contexts over one peripheral: it loads a context, *)
(* feeds words and saves the context, each time with the hardware mutex    *)
(* held.  The simulator has room for one snapshot, and guesses from the    *)
(* order of the register writes whether CR.INIT starts a digest or loads   *)
(* one.  The driver itself is not part of the repository.                  *)
(*                                                                         *)
(* A hasher is the sequence of what it has absorbed.                       *)
(***************************************************************************)
EXTENDS Naturals, Sequences, FiniteSets

CONSTANTS
    Contexts,   \* contexts of the driver
    Algos,      \* digest algorithms
    MaxWords,   \* bound: full words of a message
    MaxAbsorbed \* bound: items of the hasher, which a mix-up of contexts can make longer

VARIABLES
    hash,       \* the peripheral
    ctx,        \* per context: what the driver knows of it
    left,       \* contexts were given up since the last digest
    got         \* history: whether the last digest that was read is the right one

hashvars == <<hash, ctx, left, got>>

NoHasher == [on |-> FALSE]
fresh_hasher(algo) == [on |-> TRUE, algo |-> algo, data |-> <<>>]
absorb(h, item) == [h EXCEPT !.data = Append(@, item)]
NoSnapshot == [on |-> FALSE]

HashReset ==
    [strw |-> FALSE, pending |-> <<>>, savedpending |-> <<>>, algo |-> "SHA256", hasher |-> NoHasher,
     finalised |-> FALSE, result |-> NoHasher, phase |-> "Off", key |-> <<>>, outer |-> NoHasher,
     saved |-> NoSnapshot]
-----------------------------------------------------------------------------
(* The engine. *)

init_with_mode(h, algo, hmac) ==
    [h EXCEPT !.algo = algo, !.hasher = fresh_hasher(algo), !.finalised = FALSE,
              !.result = NoHasher, !.phase = IF hmac THEN "Key1" ELSE "Off", !.key = <<>>,
              !.outer = NoHasher, !.saved = NoSnapshot]

capture_snapshot(h) ==
    IF ~h.hasher.on THEN h
    ELSE [h EXCEPT !.saved = [on |-> TRUE, hasher |-> h.hasher, phase |-> h.phase, key |-> h.key,
                              outer |-> h.outer]]

restore_from_snapshot(h) ==
    [h EXCEPT !.hasher = h.saved.hasher, !.phase = h.saved.phase, !.key = h.saved.key,
              !.outer = h.saved.outer, !.finalised = FALSE, !.result = NoHasher]

\* A word and the number of its bytes that count.
feed_word(h, w, valid) ==
    LET item == [word |-> w, valid |-> valid]
    IN  IF h.finalised \/ h.phase = "Key2" THEN h
        ELSE IF h.phase = "Key1" THEN [h EXCEPT !.key = Append(@, item)]
        ELSE IF h.hasher.on THEN [h EXCEPT !.hasher = absorb(@, item)]
        ELSE h

finalize_plain(h) ==
    IF ~h.hasher.on THEN h ELSE [h EXCEPT !.result = h.hasher, !.finalised = TRUE]

\* The code leaves a key longer than a block in its buffer; the buffer is read again only in
\* the key phase of a later HMAC, which init_with_mode starts with an empty one.
hmac_finish_key1(h) ==
    [h EXCEPT !.hasher = absorb(fresh_hasher(h.algo), [ipad |-> h.key]),
              !.outer = absorb(fresh_hasher(h.algo), [opad |-> h.key]),
              !.phase = "Msg", !.key = <<>>]

hmac_finish_msg(h) ==
    IF ~h.hasher.on \/ ~h.outer.on THEN h
    ELSE [h EXCEPT !.hasher = absorb(h.outer, [inner |-> h.hasher]), !.outer = NoHasher,
                   !.phase = "Key2"]

hmac_finish_key2(h) ==
    IF ~h.hasher.on THEN h
    ELSE [h EXCEPT !.result = h.hasher, !.finalised = TRUE, !.phase = "Off"]

finalize(h) ==
    CASE h.finalised -> h
      [] ~h.finalised /\ h.phase = "Off" -> finalize_plain(h)
      [] ~h.finalised /\ h.phase = "Key1" -> hmac_finish_key1(h)
      [] ~h.finalised /\ h.phase = "Msg" -> hmac_finish_msg(h)
      [] ~h.finalised /\ h.phase = "Key2" -> hmac_finish_key2(h)
-----------------------------------------------------------------------------
(* The registers. *)

load_snapshot(h) == [restore_from_snapshot(h) EXCEPT !.pending = h.savedpending]

\* CR with INIT: a write of STR since the last write of CR is taken for a context being loaded.
write_cr(h, algo, hmac) ==
    LET r == IF h.strw /\ h.saved.on THEN load_snapshot(h)
             ELSE [init_with_mode(h, algo, hmac) EXCEPT !.pending = <<>>]
    IN  [r EXCEPT !.strw = FALSE]

\* The previous word is complete once another one follows.
write_din(h, w) ==
    [IF h.pending = <<>> THEN h ELSE feed_word(h, h.pending[1], 4) EXCEPT !.pending = <<w>>]

\* STR without DCAL.
write_str(h) == [h EXCEPT !.strw = TRUE]

\* STR with DCAL: NBLW bits of the last word count, all of them if it is 0.
valid_bytes(nblw) == IF nblw = 0 THEN 4 ELSE (nblw + 7) \div 8
\* DCAL that leaves the tracker of STR as it is.
write_dcal_tracked(h, nblw) ==
    [finalize(IF h.pending = <<>> THEN h ELSE feed_word(h, h.pending[1], valid_bytes(nblw)))
        EXCEPT !.pending = <<>>, !.strw = TRUE]
write_dcal(h, nblw) ==
    [finalize(IF h.pending = <<>> THEN h ELSE feed_word(h, h.pending[1], valid_bytes(nblw)))
        EXCEPT !.pending = <<>>, !.strw = FALSE]

\* The first of the context registers is read.
read_csr(h) == [capture_snapshot(h) EXCEPT !.savedpending = h.pending]

read_hr(h) == IF h.finalised THEN h.result ELSE NoHasher
-----------------------------------------------------------------------------
(* The driver. *)

Unused == [used |-> FALSE]
Word(c, n) == [of |-> c, at |-> n]
KeyWord(c) == [of |-> c, at |-> 0]

\* A context is loaded: a new one with CR and then STR, another one with STR and then CR.
Load(c, algo, hmac) ==
    IF ctx[c].used THEN write_cr(write_str(hash), ctx[c].algo, ctx[c].hmac)
    ELSE write_str(write_cr(hash, algo, hmac))

\* The context c as the driver has it, when it is used with this algorithm and mode.  alone: no
\* other context was in progress or given up since c began, nor used since.
Known(c, algo, hmac) ==
    IF ctx[c].used THEN ctx[c]
    ELSE [used |-> TRUE, algo |-> algo, hmac |-> hmac, words |-> 0,
          alone |-> ~left /\ \A d \in Contexts \ {c} : ~ctx[d].used]

\* Other contexts in progress are no longer alone on the peripheral.
Touched(c, k) ==
    [d \in Contexts |-> IF d = c THEN k ELSE IF ctx[d].used THEN [ctx[d] EXCEPT !.alone = FALSE] ELSE ctx[d]]

\* What the driver expects of c after the tail of its message.
Full(c, n) == [i \in 1..n |-> [word |-> Word(c, i), valid |-> 4]]
Message(c, k, tail) ==
    Full(c, k.words) \o (IF tail = 0 THEN <<>> ELSE <<[word |-> Word(c, k.words + 1), valid |-> tail]>>)
Expected(c, k, tail) ==
    LET key == <<[word |-> KeyWord(c), valid |-> 4]>>
        inner == [on |-> TRUE, algo |-> k.algo, data |-> <<[ipad |-> key]>> \o Message(c, k, tail)]
    IN  IF k.hmac THEN [on |-> TRUE, algo |-> k.algo, data |-> <<[opad |-> key], [inner |-> inner]>>]
        ELSE [on |-> TRUE, algo |-> k.algo, data |-> Message(c, k, tail)]

\* The tail of the message, and DCAL.
EndMessage(h, c, k, tail) ==
    write_dcal(IF tail = 0 THEN h ELSE write_din(h, Word(c, k.words + 1)), 8 * tail)

Digested(h, c, k, tail) ==
    IF k.hmac THEN write_dcal(write_din(EndMessage(h, c, k, tail), KeyWord(c)), 0)
    ELSE EndMessage(h, c, k, tail)

Answer(h, c, k, tail) ==
    got' = [alone |-> k.alone, right |-> read_hr(h) = Expected(c, k, tail)]

\* The key of an HMAC: its words, DCAL, and the context saved.
SetKey(c, algo) ==
    /\ ~ctx[c].used
    /\ hash' = read_csr(write_dcal(write_din(Load(c, algo, TRUE), KeyWord(c)), 0))
    /\ ctx' = Touched(c, Known(c, algo, TRUE))
    /\ UNCHANGED <<left, got>>

Update(c, algo) ==
    LET k == Known(c, algo, FALSE)
    IN  /\ k.words < MaxWords /\ (hash.hasher.on => Len(hash.hasher.data) < MaxAbsorbed)
        /\ hash' = read_csr(write_din(Load(c, algo, FALSE), Word(c, k.words + 1)))
        /\ ctx' = Touched(c, [k EXCEPT !.words = @ + 1])
        /\ UNCHANGED <<left, got>>

\* The digest so far: the context is not saved again.
GetHash(c, tail) ==
    /\ ctx[c].used
    /\ LET h == Digested(Load(c, "none", FALSE), c, ctx[c], tail)
       IN  hash' = h /\ Answer(h, c, ctx[c], tail)
    /\ ctx' = Touched(c, ctx[c]) /\ left' = FALSE

Final(c, algo, tail) ==
    /\ LET k == Known(c, algo, FALSE)
           h == Digested(Load(c, algo, FALSE), c, k, tail)
       IN  hash' = h /\ Answer(h, c, k, tail)
    /\ ctx' = Touched(c, Unused) /\ left' = FALSE

\* The context is freed without a digest; the peripheral is not told.
Free(c) ==
    /\ ctx[c].used
    /\ ctx' = [ctx EXCEPT ![c] = Unused] /\ left' = TRUE
    /\ UNCHANGED <<hash, got>>
-----------------------------------------------------------------------------
HashInit ==
    /\ hash = HashReset
    /\ ctx = [c \in Contexts |-> Unused]
    /\ left = FALSE
    /\ got = [alone |-> TRUE, right |-> TRUE]

HashNext ==
    \E c \in Contexts :
        \/ \E a \in Algos : SetKey(c, a) \/ Update(c, a)
        \/ \E tail \in {0, 3} : GetHash(c, tail)
        \/ \E a \in Algos, tail \in {0, 3} : Final(c, a, tail)
        \/ Free(c)

HashSpec == HashInit /\ [][HashNext]_hashvars
-----------------------------------------------------------------------------
\* A digest that is read is that of the message (or the HMAC under the key) of its context, with
\* the bytes of the tail that count, however often it was saved, loaded and read in between, and
\* whatever was digested before: as long as no other context was in progress, or given up, when
\* this one began, or used since.
DigestIsOwn == got.alone => got.right
=============================================================================
