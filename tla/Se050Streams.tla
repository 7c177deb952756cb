---------------------------- MODULE Se050Streams ----------------------------
(***************************************************************************)
(* The multi-step digest, cipher and MAC flows of the SE050, watched from  *)
(* outside: next to the store, a history of what the hosts fed into every  *)
(* running context since its Init command and of what came out.            *)
(***************************************************************************)
EXTENDS Se050Objects

CONSTANT MaxFed   \* bound on the bytes fed into one context

VARIABLES
    log,    \* running context -> what was fed into it and what came out
    last    \* the context that the last command finished, and its whole output

svars == <<store, disk, alive, log, last>>

Inits == {"DigestInit", "CipherInit", "MacInit"}
Updates == {"DigestUpdate", "CipherUpdate", "MacUpdate"}
Finals == {"DigestFinal", "CipherFinal", "MacFinal"}

\* What is fed into a context is a string of bytes.
ASSUME DataAssumption == \A c \in Commands : c.cmd \in Updates \cup Finals => c.data \in Seq(Nat)

KeyOf(s, id) == IF exists(s, id) THEN {s.objects[id]} ELSE {}

\* The history after command c, when it answered r.
Started(c) == [key_id |-> c.id, key |-> KeyOf(store, c.id), rekeyed |-> FALSE,
               iv |-> c.iv, fed |-> <<>>, out |-> <<>>]

Fed(entry, c, r) == [entry EXCEPT !.fed = @ \o c.data, !.out = @ \o r.out]

\* The key that a context works with is another object than it was at Init.
Rekeyed(entry, r) == [entry EXCEPT !.rekeyed = @ \/ KeyOf(r.store, entry.key_id) # entry.key]

Logged(c, r) ==
    LET running == [x \in DOMAIN log \cap DOMAIN r.store.crypto_objects |-> Rekeyed(log[x], r)]
    IN  IF r.sw # NO_ERROR THEN running
        ELSE IF c.cmd \in Inits THEN Insert(running, c.crypto, Started(c))
        ELSE IF c.cmd \in Updates THEN Insert(running, c.crypto, Fed(running[c.crypto], c, r))
        ELSE running

Finished(c, r) ==
    IF c.cmd \in Finals /\ r.sw = NO_ERROR
    THEN {[ctx |-> store.crypto_objects[c.crypto], entry |-> Fed(log[c.crypto], c, r),
           expected |-> c.expected]}
    ELSE {}

SInit == OInit /\ log = Empty /\ last = {}

\* A command that does not feed a context beyond the bound.
StreamCommand(c) ==
    LET r == dispatch(store, c, TRUE)
    IN  /\ c.cmd \in Updates \cup Finals /\ c.crypto \in DOMAIN log =>
              Len(log[c.crypto].fed) + Len(c.data) <= MaxFed
        /\ Command(c, TRUE)
        /\ log' = Logged(c, r)
        /\ last' = Finished(c, r)

StreamRestart == Restart /\ log' = Empty /\ last' = {}

SNext == (\E c \in Commands \cap OverChannel : StreamCommand(c)) \/ StreamRestart

SSpec == SInit /\ [][SNext]_svars

-----------------------------------------------------------------------------
(***************************************************************************)
(* Properties.                                                             *)
(***************************************************************************)
\* The one-shot result for the input of a finished context; a validating MAC answers whether
\* the expected MAC is the one-shot result.
OneShotMac(ctx, entry) == <<"MAC", ctx.algo, Get(entry.key).key.v, entry.fed>>

OneShot(ctx, entry, expected) ==
    CASE ctx.kind = "Digest" -> <<<<"H", ctx.algo, entry.fed>>>>
      [] ctx.kind = "Mac" ->
            IF ctx.validate THEN <<expected = {OneShotMac(ctx, entry)}>>
            ELSE <<OneShotMac(ctx, entry)>>
      [] ctx.kind = "Cipher" ->
            apply_mode(ctx.mode, Get(entry.key).key, Initial(entry.iv), entry.fed, ctx.encrypting, TRUE).out

\* However the input is cut into updates, and whatever other commands - of other hosts, or
\* failing ones - come in between, a finished digest, cipher or MAC is the one-shot result
\* of everything fed since Init, as long as nobody replaced or deleted the key.
StreamIsOneShot ==
    \A done \in last :
      ~done.entry.rekeyed => done.entry.out = OneShot(done.ctx, done.entry, done.expected)

\* Every byte that went into a running cipher is either in the blocks that came out or still
\* pending, and less than a block is pending.
NothingLostInCipher ==
    \A x \in DOMAIN store.crypto_objects :
      LET ctx == store.crypto_objects[x]
      IN  ctx.kind = "Cipher" =>
            /\ Len(ctx.pending) < Block
            /\ Len(log[x].fed) = Block * Len(log[x].out) + Len(ctx.pending)
            /\ ctx.pending = SubSeq(log[x].fed, Block * Len(log[x].out) + 1, Len(log[x].fed))
=============================================================================
