------------------------------ MODULE Stm32Cryp ------------------------------
(***************************************************************************)
(* The AES peripheral of the STM32 simulator, in its two register layouts: *)
(* v1 (CRYP of the H7) and v2 (AES of the U5).  The engine behind them has *)
(* a copy of the configuration, of the key and of the IV, which the        *)
(* adapters refresh when CR, a key register or an IV register is written.  *)
(*                                                                         *)
(* A block is the sequence of its words, a word is its position in the     *)
(* message with the swap it was written under, and what AES computes is a  *)
(* term over keys, blocks and IVs.  The key registers are three pieces:    *)
(* the last one is the key of AES-128, the last two that of AES-192, and   *)
(* all of them that of AES-256.  The driver is not part of the repository. *)
(***************************************************************************)
EXTENDS Naturals, Sequences

CONSTANTS
    BLOCK_WORDS,    \* words in a block
    Crs,            \* per revision: the values that the driver writes to CR
    KeyWrites,      \* the piece of the key and the value of each write to a key register
    Ivs,            \* values of the IV registers
    MaxFed,       \* bound: words that the driver writes under one configuration
    MaxHashed       \* bound: blocks in the hash of GCM

ASSUME CrypAssumption ==
    /\ BLOCK_WORDS \in Nat \ {0}
    /\ \A rev \in {"v1", "v2"} : \A cr \in Crs[rev] : cr.en \in BOOLEAN

VARIABLES
    cryp,           \* the peripheral
    job             \* history: what the driver has written since the last configuration

crypvars == <<cryp, job>>

swap(type, word) == [word |-> word, as |-> type]
Xor(a, b) == [xor |-> {a, b}]
aes_encrypt_block(key, x) == [enc |-> x, key |-> key]
aes_decrypt_block(key, x) == [dec |-> x, key |-> key]
Words(block) == [words |-> block]
Counter(iv, n) == [iv |-> iv, plus |-> n]
\* Both ctr_inc of CTR (128 bits) and ctr32_inc of GCM, which differ after 2^32 blocks.
ctr_inc(c) == [c EXCEPT !.plus = @ + 1]

NoBlock == [left |-> 0]
Staged(block) == [left |-> BLOCK_WORDS, block |-> block]
-----------------------------------------------------------------------------
(* The engine. *)

reset_fifos(e) == [e EXCEPT !.in = <<>>, !.out = NoBlock]

aes_block(e, x) == IF e.dir = "enc" THEN aes_encrypt_block(e.key, x) ELSE aes_decrypt_block(e.key, x)

\* CBC decryption that chains the plaintext.
cbc_plain(e, x) ==
    LET y == IF e.dir = "enc" THEN aes_encrypt_block(e.key, Xor(x, e.iv))
             ELSE Xor(aes_decrypt_block(e.key, x), e.iv)
    IN  [e EXCEPT !.iv = y, !.out = Staged(y)]
cbc(e, x) ==
    LET y == aes_encrypt_block(e.key, Xor(x, e.iv))
    IN  IF e.dir = "enc" THEN [e EXCEPT !.iv = y, !.out = Staged(y)]
        ELSE [e EXCEPT !.iv = x, !.out = Staged(Xor(aes_decrypt_block(e.key, x), e.iv))]

\* A full input FIFO is one block; key derivation drops it.
process_block(e) ==
    LET x == Words(e.in)
        r == CASE e.mode = "ECB" -> [e EXCEPT !.out = Staged(aes_block(e, x))]
               [] e.mode = "CBC" -> cbc(e, x)
               [] e.mode = "CTR" -> [e EXCEPT !.iv = ctr_inc(@),
                                        !.out = Staged(Xor(x, aes_encrypt_block(e.key, e.iv)))]
               [] OTHER -> e
    IN  [r EXCEPT !.in = <<>>]

cryp_write_din(e, word) ==
    LET f == [e EXCEPT !.in = Append(@, swap(e.type, word))]
    IN  IF ~e.enabled \/ Len(e.in) >= BLOCK_WORDS THEN e
        ELSE IF Len(f.in) = BLOCK_WORDS THEN process_block(f)
        ELSE f

read_dout(e) == IF e.out.left = 0 THEN e ELSE [e EXCEPT !.out.left = @ - 1]
-----------------------------------------------------------------------------
(* The phases of GCM. *)

gcm_init(e) ==
    [phase |-> "Init", h |-> e.key, j0 |-> e.iv, counter |-> ctr_inc(e.iv), y |-> <<>>,
     aad |-> 0, text |-> 0]

\* The lengths are counted in words, whole blocks at a time.
ingest_aad(g, x) == [g EXCEPT !.y = Append(@, x), !.aad = @ + BLOCK_WORDS]

\* The ciphertext is hashed, whichever way it goes.
process_payload(g, e, x) ==
    LET y == Xor(x, aes_encrypt_block(e.key, g.counter))
    IN  [out |-> y,
         gcm |-> [g EXCEPT !.counter = ctr_inc(@), !.y = Append(@, IF e.dir = "enc" THEN y ELSE x),
                           !.text = @ + BLOCK_WORDS]]

\* The lengths that the tag takes are the engine's own, whatever the driver writes.
finalise(g) ==
    LET y == Append(g.y, [aad |-> g.aad, text |-> g.text])
    IN  [gcm |-> [g EXCEPT !.y = y], out |-> [ghash |-> y, h |-> g.h, mask |-> g.j0]]
-----------------------------------------------------------------------------
(* The registers: p is the peripheral. *)

\* The first piece of a key of each size.
expand_key(pieces, size) == SubSeq(pieces, CASE size = 128 -> 3 [] size = 192 -> 2 [] size = 256 -> 1, 3)
expand_iv(iv) == Counter(iv, 0)

Mode(cr) == IF cr.mode \in {"ECB", "CBC", "CTR", "KEY", "GCM"} THEN cr.mode ELSE "ECB"
Direction(cr) == IF cr.dir = "enc" THEN "enc" ELSE "dec"

\* INIT starts a message; any other phase goes on with the one there is.
enter_phase(p) ==
    IF p.cr.phase = "Init" THEN [p EXCEPT !.gcm = gcm_init(p.eng)]
    ELSE [p EXCEPT !.gcm.phase = p.cr.phase]

commit_config(p) ==
    LET q == [p EXCEPT !.gin = <<>>,
                       !.deriving = p.rev = "v2" /\ p.cr.dir = "derive",
                       !.eng = [reset_fifos(@) EXCEPT
                                    !.size = p.cr.size, !.type = p.cr.type,
                                    !.dir = Direction(p.cr), !.mode = Mode(p.cr),
                                    !.key = expand_key(p.key, p.cr.size),
                                    !.iv = expand_iv(p.iv)]]
    IN  IF q.eng.mode = "GCM" THEN enter_phase(q) ELSE q

\* The bits of CR other than the enable and the phase.
AlgBits(cr) == <<cr.mode, cr.dir, cr.size, cr.type>>

NextPhase(p) == [enter_phase(p) EXCEPT !.gin = <<>>, !.eng = reset_fifos(@)]

\* In GCM only the phase is looked at while the peripheral stays enabled.
write_cr_v1(p, cr, flush) ==
    LET q == [p EXCEPT !.cr = cr, !.eng = IF flush THEN reset_fifos(@) ELSE @]
    IN  CASE ~p.cr.en /\ cr.en -> [commit_config(q) EXCEPT !.eng.enabled = TRUE]
          [] p.cr.en /\ ~cr.en -> [q EXCEPT !.eng.enabled = FALSE]
          [] p.cr.en /\ cr.en /\ q.eng.mode = "GCM" -> NextPhase(q)
          [] p.cr.en /\ cr.en /\ q.eng.mode # "GCM" /\ AlgBits(cr) # AlgBits(p.cr) -> commit_config(q)
          [] OTHER -> q

\* A change of algorithm that is only seen when the peripheral is enabled.
write_cr_v2_enable(p, cr) ==
    LET q == [p EXCEPT !.cr = cr]
    IN  CASE ~p.cr.en /\ cr.en -> [commit_config(q) EXCEPT !.eng.enabled = TRUE]
          [] p.cr.en /\ ~cr.en -> [q EXCEPT !.eng.enabled = FALSE, !.deriving = FALSE]
          [] p.cr.en /\ cr.en /\ q.eng.mode = "GCM" -> NextPhase(q)
          [] OTHER -> q
write_cr_v2(p, cr) ==
    LET q == [p EXCEPT !.cr = cr]
    IN  CASE ~p.cr.en /\ cr.en -> [commit_config(q) EXCEPT !.eng.enabled = TRUE]
          [] p.cr.en /\ ~cr.en -> [q EXCEPT !.eng.enabled = FALSE, !.deriving = FALSE]
          [] p.cr.en /\ cr.en /\ AlgBits(cr) # AlgBits(p.cr) ->
                [commit_config(q) EXCEPT !.eng.enabled = TRUE]
          [] p.cr.en /\ cr.en /\ AlgBits(cr) = AlgBits(p.cr) /\ q.eng.mode = "GCM" -> NextPhase(q)
          [] OTHER -> q

\* The live key follows the registers.
write_key(p, i, k) ==
    LET q == [p EXCEPT !.key[i] = k]
    IN  IF p.eng.enabled THEN [q EXCEPT !.eng.key = expand_key(q.key, p.eng.size)] ELSE q

write_iv(p, iv) ==
    LET q == [p EXCEPT !.iv = iv]
    IN  IF p.rev = "v2" \/ p.eng.enabled THEN [q EXCEPT !.eng.iv = expand_iv(iv)] ELSE q

\* A block of the phase.  INIT ignores it.
gcm_block(p, x) ==
    LET r == CASE p.gcm.phase = "Payload" -> process_payload(p.gcm, p.eng, x)
               [] p.gcm.phase = "Final" -> finalise(p.gcm)
               [] OTHER -> [gcm |-> IF p.gcm.phase = "Header" THEN ingest_aad(p.gcm, x) ELSE p.gcm]
        q == [p EXCEPT !.gin = <<>>, !.gcm = r.gcm]
    IN  IF p.gcm.phase \in {"Payload", "Final"} THEN [q EXCEPT !.eng.out = Staged(r.out)] ELSE q

gcm_din(p, word) ==
    LET full == Append(p.gin, swap(p.eng.type, word))
    IN  IF Len(full) < BLOCK_WORDS THEN [p EXCEPT !.gin = full] ELSE gcm_block(p, Words(full))

write_dinr(p, word) ==
    IF p.eng.enabled /\ p.eng.mode = "GCM" THEN gcm_din(p, word)
    ELSE [p EXCEPT !.eng = cryp_write_din(@, word)]

\* OFNE of v1; CCF of v2, which is also raised as soon as a key derivation is enabled.
compute_sr(p) == p.eng.out.left > 0 \/ (p.eng.enabled /\ p.deriving)

CrypReset(rev) ==
    [rev |-> rev, key |-> <<0, 0, 0>>, iv |-> 0, gin |-> <<>>, deriving |-> FALSE,
     cr |-> [en |-> FALSE, mode |-> "ECB", dir |-> "enc", size |-> 128, type |-> "Word", phase |-> "Init"],
     eng |-> [key |-> <<0>>, iv |-> expand_iv(0), size |-> 128, mode |-> "ECB", dir |-> "enc",
              type |-> "Word", enabled |-> FALSE, in |-> <<>>, out |-> NoBlock],
     gcm |-> [phase |-> "Init", h |-> <<0>>, j0 |-> expand_iv(0), counter |-> expand_iv(0),
              y |-> <<>>, aad |-> 0, text |-> 0]]
-----------------------------------------------------------------------------
(* The driver. *)

NoMessage == [ok |-> FALSE]
NoPadding == [aad |-> 0, text |-> 0]
NewMessage(p) ==
    [ok |-> TRUE, key |-> expand_key(p.key, p.cr.size), j0 |-> expand_iv(p.iv), aad |-> <<>>,
     text |-> <<>>, padding |-> NoPadding, done |-> FALSE]

\* The length block that the driver writes in FINAL: what it sent, in words, without the padding.
LengthBlock(m) ==
    [aad |-> Len(m.aad) * BLOCK_WORDS - m.padding.aad, text |-> Len(m.text) * BLOCK_WORDS - m.padding.text]

\* Words that make whole blocks.
Whole(words) == SubSeq(words, 1, Len(words) - (Len(words) % BLOCK_WORDS))

\* What the driver knows after a write of CR.  stuck: v1 was enabled in GCM and got another
\* algorithm without being disabled.
Configured(cr, flush) ==
    LET p == cryp
        same == p.cr.en /\ cr.en /\ AlgBits(cr) = AlgBits(p.cr)
        stuck == p.rev = "v1" /\ p.cr.en /\ cr.en /\ (job.stuck \/ (~same /\ p.cr.mode = "GCM"))
    IN  [stuck |-> stuck,
         fed |-> IF same /\ cr.mode # "GCM"
                 THEN (IF flush THEN Whole(job.fed) ELSE job.fed) ELSE <<>>,
         msg |-> IF stuck THEN NoMessage
                 ELSE IF cr.en /\ cr.mode = "GCM" /\ cr.phase = "Init"
                      THEN NewMessage([p EXCEPT !.cr = cr])
                 ELSE job.msg]

\* Any configuration at any time: what the last one left unread or unfinished is given up.
Configure(cr, flush) ==
    /\ cryp' = IF cryp.rev = "v1" THEN write_cr_v1(cryp, cr, flush) ELSE write_cr_v2(cryp, cr)
    /\ job' = Configured(cr, flush)

\* Keys and IVs are written before the data, whether the peripheral is enabled or not.
WriteKey(i, k) ==
    /\ job.fed = <<>>
    /\ cryp' = write_key(cryp, i, k)
    /\ UNCHANGED job

WriteIv(iv) ==
    /\ job.fed = <<>>
    /\ cryp' = write_iv(cryp, iv)
    /\ UNCHANGED job

\* The block that ends with this word.
LastBlock(words) ==
    [words |-> [i \in 1..BLOCK_WORDS |-> swap(cryp.cr.type, words[Len(words) - BLOCK_WORDS + i])]]

\* The message of a GCM that follows its phases, under one key.  pad words of a block are padding:
\* only the last block of the header and that of the payload are padded.
Told(words, pad) ==
    LET m == job.msg
        x == LastBlock(words)
        now == expand_key(cryp.key, cryp.cr.size)
    IN  IF ~m.ok \/ cryp.cr.mode # "GCM" \/ Len(words) % BLOCK_WORDS # 0 THEN m
        ELSE CASE cryp.cr.phase = "Header" ->
                    [m EXCEPT !.aad = Append(@, x), !.padding.aad = pad,
                              !.ok = m.text = <<>> /\ ~m.done /\ m.padding.aad = 0]
               [] cryp.cr.phase = "Payload" ->
                    [m EXCEPT !.text = Append(@, [x |-> x, dir |-> cryp.cr.dir]), !.padding.text = pad,
                              !.ok = m.key = now /\ ~m.done /\ m.padding.text = 0]
               [] cryp.cr.phase = "Final" -> [m EXCEPT !.done = TRUE, !.ok = ~m.done]
               [] OTHER -> m

\* One word, once the output has been read; none during a key derivation of v2, and in GCM the
\* phases come in order.  pad: the words of padding in the block, if it is complete.
Feed(pad) ==
    /\ cryp.cr.en /\ ~cryp.deriving /\ cryp.eng.out.left = 0 /\ ~job.stuck
    /\ Len(job.fed) < MaxFed /\ (cryp.eng.mode = "GCM" => Len(cryp.gcm.y) < MaxHashed)
    /\ LET words == Append(job.fed, Len(job.fed) + 1)
       IN  /\ cryp.cr.mode = "GCM" => Told(words, pad).ok
           /\ cryp' = write_dinr(cryp, Len(words))
           /\ job' = [job EXCEPT !.fed = words, !.msg = Told(words, pad)]

Read ==
    /\ compute_sr(cryp)
    /\ cryp' = [cryp EXCEPT !.eng = read_dout(@)]
    /\ UNCHANGED job
-----------------------------------------------------------------------------
CrypInit ==
    /\ \E rev \in {"v1", "v2"} : cryp = CrypReset(rev)
    /\ job = [stuck |-> FALSE, fed |-> <<>>, msg |-> NoMessage]

CrypNext ==
    \/ \E cr \in Crs[cryp.rev] : \E flush \in IF cryp.rev = "v1" THEN BOOLEAN ELSE {FALSE} :
            Configure(cr, flush)
    \/ \E w \in KeyWrites : WriteKey(w[1], w[2])
    \/ \E iv \in Ivs : WriteIv(iv)
    \/ \E pad \in 0..(BLOCK_WORDS - 1) : Feed(pad)
    \/ Read

CrypSpec == CrypInit /\ [][CrypNext]_crypvars
-----------------------------------------------------------------------------
\* While the peripheral is enabled, what the engine computes with is what the registers say, in
\* whatever order the key, the IV and CR were written and whether it was enabled before or after;
\* except on v1 after GCM was left without disabling it.
EngineInStep ==
    LET e == cryp.eng
    IN  cryp.cr.en /\ ~job.stuck =>
        /\ <<e.mode, e.dir, e.size, e.type>> = <<Mode(cryp.cr), Direction(cryp.cr), cryp.cr.size, cryp.cr.type>>
        /\ e.key = expand_key(cryp.key, cryp.cr.size)
        /\ job.fed = <<>> => e.iv = expand_iv(cryp.iv)

(* The modes of operation, from the whole message. *)
RefBlock(n) ==
    Words([i \in 1..BLOCK_WORDS |-> swap(cryp.cr.type, job.fed[(n - 1) * BLOCK_WORDS + i])])
RefCbc(n) ==
    LET chain[k \in 0..n] ==
            IF k = 0 THEN expand_iv(cryp.iv)
            ELSE aes_encrypt_block(expand_key(cryp.key, cryp.cr.size), Xor(RefBlock(k), chain[k - 1]))
    IN  chain[n]
RefOutput(n) ==
    LET key == expand_key(cryp.key, cryp.cr.size)
        enc == Direction(cryp.cr) = "enc"
    IN  CASE Mode(cryp.cr) = "ECB" ->
                IF enc THEN aes_encrypt_block(key, RefBlock(n)) ELSE aes_decrypt_block(key, RefBlock(n))
          [] Mode(cryp.cr) = "CBC" ->
                IF enc THEN RefCbc(n)
                ELSE Xor(aes_decrypt_block(key, RefBlock(n)),
                         IF n = 1 THEN expand_iv(cryp.iv) ELSE RefBlock(n - 1))
          [] Mode(cryp.cr) = "CTR" ->
                Xor(RefBlock(n), aes_encrypt_block(key, Counter(cryp.iv, n - 1)))
RefPayload(m, n) == Xor(m.text[n].x, aes_encrypt_block(m.key, Counter(m.j0.iv, n)))
RefTag(m) ==
    [ghash |-> m.aad
               \o [n \in 1..Len(m.text) |-> IF m.text[n].dir = "enc" THEN RefPayload(m, n) ELSE m.text[n].x]
               \o <<LengthBlock(m)>>,
     h |-> m.key, mask |-> m.j0]

\* A block that waits to be read is the one that its mode of operation gives for the message
\* since the last configuration, under the key and the IV in the registers, with no word of an
\* earlier job that was given up; in GCM it is the payload block of the message since INIT or its
\* tag, with the driver's length block, whatever was enciphered between its phases, if they came
\* in order under one key.  Of a tag this is said for messages of whole blocks only: finalise does
\* not take the driver's length block, against the contract in the head of gcm.rs.
OutputIsReference ==
    LET m == job.msg
    IN  cryp.cr.en /\ ~job.stuck /\ cryp.eng.out.left > 0 =>
        \/ Mode(cryp.cr) \in {"ECB", "CBC", "CTR"}
            /\ cryp.eng.out.block = RefOutput(Len(job.fed) \div BLOCK_WORDS)
        \/ Mode(cryp.cr) = "GCM" /\ m.ok /\ ~m.done
            /\ cryp.eng.out.block = RefPayload(m, Len(m.text))
        \/ Mode(cryp.cr) = "GCM" /\ m.ok /\ m.done
            /\ (m.padding = NoPadding => cryp.eng.out.block = RefTag(m))
=============================================================================
