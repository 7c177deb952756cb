---------------------- MODULE CryptoPeripheralsProofs ----------------------
(***************************************************************************)
(* Theorems about the crypto peripherals of the microcontrollers: the AES  *)
(* and HASH peripherals of the STM32, for every set of configurations,     *)
(* keys, IVs and contexts and every length of a message, and the crypto    *)
(* engine of the PIC32MZ, for every ring of descriptors and every chain.   *)
(***************************************************************************)
EXTENDS Stm32Hash, Stm32Cryp, Pic32Crypto,
        FiniteSetTheorems, SequenceTheorems, WellFoundedInduction, TLAPS

-----------------------------------------------------------------------------
(***************************************************************************)
(* The AES peripheral.                                                     *)
(***************************************************************************)
\* The peripheral and its engine have their registers.
CrypShape(p) ==
    /\ p = [f \in {"rev", "key", "iv", "gin", "deriving", "cr", "eng", "gcm"} |-> p[f]]
    /\ p.eng = [f \in {"key", "iv", "size", "mode", "dir", "type", "enabled", "in", "out"} |-> p.eng[f]]

\* Some sequence.
IsSequence(s) == \E S : s \in Seq(S)

\* The engine is enabled when CR says so.
CrypOk(p) ==
    /\ CrypShape(p) /\ p.rev \in {"v1", "v2"} /\ p.cr.en \in BOOLEAN /\ p.eng.enabled \in BOOLEAN
    /\ p.eng.enabled <=> p.cr.en
    /\ IsSequence(p.eng.in)

\* The engine has the configuration and the key of the registers.
HasConfig(p) ==
    /\ p.eng.mode = Mode(p.cr) /\ p.eng.dir = Direction(p.cr)
    /\ p.eng.size = p.cr.size /\ p.eng.type = p.cr.type
    /\ p.eng.key = expand_key(p.key, p.cr.size)

\* No block has been processed that n words do not make; the IV is that of the registers until
\* the first one, and in GCM for good.
HasIv(p, n) ==
    /\ Len(p.eng.in) <= n
    /\ n < BLOCK_WORDS \/ p.eng.mode = "GCM" => p.eng.iv = expand_iv(p.iv)

\* The registers that only the driver changes.
SameRegisters(p, q) == q.rev = p.rev /\ q.key = p.key /\ q.iv = p.iv /\ q.cr = p.cr

\* What the engine computes with.
SameConfig(e, f) ==
    f.key = e.key /\ f.size = e.size /\ f.mode = e.mode /\ f.dir = e.dir /\ f.type = e.type
SameEngine(e, f) == SameConfig(e, f) /\ f.iv = e.iv

\* What a commit of the configuration leaves.
LEMMA Commits ==
    ASSUME NEW p, CrypShape(p)
    PROVE  /\ CrypShape(commit_config(p)) /\ SameRegisters(p, commit_config(p))
           /\ HasConfig(commit_config(p))
           /\ commit_config(p).eng.enabled = p.eng.enabled
           /\ commit_config(p).eng.in = <<>>
           /\ commit_config(p).eng.iv = expand_iv(p.iv)
<1> DEFINE e == [reset_fifos(p.eng) EXCEPT
                    !.size = p.cr.size, !.type = p.cr.type, !.dir = Direction(p.cr),
                    !.mode = Mode(p.cr), !.key = expand_key(p.key, p.cr.size),
                    !.iv = expand_iv(p.iv)]
           q == [p EXCEPT !.gin = <<>>, !.deriving = p.rev = "v2" /\ p.cr.dir = "derive", !.eng = e]
<1>1. /\ e = [f \in {"key", "iv", "size", "mode", "dir", "type", "enabled", "in", "out"} |-> e[f]]
      /\ e.size = p.cr.size /\ e.type = p.cr.type /\ e.dir = Direction(p.cr) /\ e.mode = Mode(p.cr)
      /\ e.key = expand_key(p.key, p.cr.size) /\ e.iv = expand_iv(p.iv)
      /\ e.enabled = p.eng.enabled /\ e.in = <<>>
  BY DEF CrypShape, reset_fifos
<1>2. commit_config(p) = IF q.eng.mode = "GCM" THEN enter_phase(q) ELSE q
  BY DEF commit_config
<1> HIDE DEF e
<1>3. CrypShape(q) /\ SameRegisters(p, q) /\ q.eng = e
  BY <1>1 DEF CrypShape, SameRegisters
<1> HIDE DEF q
<1>4. CrypShape(enter_phase(q)) /\ SameRegisters(q, enter_phase(q)) /\ enter_phase(q).eng = q.eng
  BY <1>3 DEF CrypShape, SameRegisters, enter_phase
<1>5. CrypShape(commit_config(p)) /\ SameRegisters(p, commit_config(p)) /\ commit_config(p).eng = e
  BY <1>2, <1>3, <1>4 DEF SameRegisters
<1> QED
  BY <1>1, <1>5 DEF HasConfig, SameRegisters

\* What a change of the phase leaves.
LEMMA PhaseChanges ==
    ASSUME NEW p, CrypShape(p)
    PROVE  /\ CrypShape(NextPhase(p)) /\ SameRegisters(p, NextPhase(p))
           /\ NextPhase(p).eng = reset_fifos(p.eng)
<1>1. CrypShape(enter_phase(p)) /\ SameRegisters(p, enter_phase(p)) /\ enter_phase(p).eng = p.eng
  BY DEF CrypShape, SameRegisters, enter_phase
<1> DEFINE q == enter_phase(p)
<1>2. NextPhase(p) = [q EXCEPT !.gin = <<>>, !.eng = reset_fifos(q.eng)]
  BY DEF NextPhase
<1> HIDE DEF q
<1>3. CrypShape(q) /\ SameRegisters(p, q) /\ q.eng = p.eng
  BY <1>1 DEF q
<1> QED
  BY <1>2, <1>3 DEF CrypShape, SameRegisters, reset_fifos

\* A cleared engine.
LEMMA Resets ==
    ASSUME NEW p, CrypShape(p)
    PROVE  /\ reset_fifos(p.eng)
                = [f \in {"key", "iv", "size", "mode", "dir", "type", "enabled", "in", "out"}
                    |-> reset_fifos(p.eng)[f]]
           /\ SameEngine(p.eng, reset_fifos(p.eng))
           /\ reset_fifos(p.eng).enabled = p.eng.enabled /\ reset_fifos(p.eng).in = <<>>
BY DEF CrypShape, reset_fifos, SameEngine, SameConfig

\* A sequence of words without its last, unfinished block.
LEMMA WholeBlocks ==
    ASSUME NEW words \in Seq(Nat)
    PROVE  /\ Whole(words) \in Seq(Nat)
           /\ Len(Whole(words)) < BLOCK_WORDS => Len(words) < BLOCK_WORDS
<1> DEFINE n == Len(words)
           m == n - (n % BLOCK_WORDS)
<1>1. n \in Nat /\ n % BLOCK_WORDS \in 0..(BLOCK_WORDS - 1)
  BY CrypAssumption, LenProperties
<1>2. n = BLOCK_WORDS * (n \div BLOCK_WORDS) + (n % BLOCK_WORDS) /\ n \div BLOCK_WORDS \in Int
  BY <1>1, CrypAssumption
<1>3. \E d \in Int, r \in 0..(BLOCK_WORDS - 1) : n = BLOCK_WORDS * d + r /\ m = n - r
  BY <1>1, <1>2
<1>4. m \in 0..n /\ (m < BLOCK_WORDS => n < BLOCK_WORDS)
  <2> HIDE DEF m
  <2>1. PICK d \in Int, r \in 0..(BLOCK_WORDS - 1) : n = BLOCK_WORDS * d + r /\ m = n - r
    BY <1>3
  <2>2. m = BLOCK_WORDS * d
    BY <2>1, <1>1, CrypAssumption
  <2>3. d >= 0
    BY <2>1, <1>1, CrypAssumption
  <2>4. m \in 0..n
    BY <2>1, <2>2, <2>3, <1>1, CrypAssumption
  <2>5. m < BLOCK_WORDS => d < 1
    BY <2>2, <2>3, CrypAssumption
  <2>6. d < 1 => m = 0
    BY <2>2, <2>3, CrypAssumption
  <2> QED
    BY <2>1, <2>4, <2>5, <2>6, <1>1, CrypAssumption
<1>5. Whole(words) \in Seq(Nat) /\ Len(Whole(words)) = m
  BY <1>1, <1>4, SubSeqProperties DEF Whole
<1> QED
  BY <1>4, <1>5

\* A peripheral with a new value of CR, and the FIFOs cleared or not.
WithCr(p, cr, flush) == [p EXCEPT !.cr = cr, !.eng = IF flush THEN reset_fifos(@) ELSE @]

\* Writing the control register changes nothing but the register and, with FFLUSH, the engine.
LEMMA CrWritten ==
    ASSUME NEW p, CrypShape(p), NEW cr, NEW flush \in BOOLEAN
    PROVE  /\ CrypShape(WithCr(p, cr, flush)) /\ WithCr(p, cr, flush).cr = cr
           /\ WithCr(p, cr, flush).rev = p.rev /\ WithCr(p, cr, flush).key = p.key
           /\ WithCr(p, cr, flush).iv = p.iv
           /\ WithCr(p, cr, flush).eng = IF flush THEN reset_fifos(p.eng) ELSE p.eng
BY Resets DEF CrypShape, WithCr

\* The enable bit of the engine is set or cleared.
LEMMA Enables ==
    ASSUME NEW p, CrypShape(p), NEW on
    PROVE  LET q == [p EXCEPT !.eng.enabled = on] IN
           /\ CrypShape(q) /\ SameRegisters(p, q)
           /\ SameEngine(p.eng, q.eng) /\ q.eng.in = p.eng.in /\ q.eng.enabled = on
BY DEF CrypShape, SameRegisters, SameEngine, SameConfig

\* The same when key derivation ends.
LEMMA Disables ==
    ASSUME NEW p, CrypShape(p)
    PROVE  LET q == [p EXCEPT !.eng.enabled = FALSE, !.deriving = FALSE] IN
           /\ CrypShape(q) /\ SameRegisters(p, q) /\ ~q.eng.enabled /\ q.eng.enabled \in BOOLEAN
           /\ q.eng.in = p.eng.in
BY DEF CrypShape, SameRegisters

\* A history of the driver.
JobOk(j) ==
    /\ j = [f \in {"stuck", "fed", "msg"} |-> j[f]]
    /\ j.stuck \in BOOLEAN /\ j.fed \in Seq(Nat)

\* EngineInStep, with the FIFO and the IV while blocks are fed.
InStep(p, j) == p.cr.en /\ ~j.stuck => HasConfig(p) /\ HasIv(p, Len(j.fed))

CrypInv ==
    /\ CrypOk(cryp) /\ JobOk(job)
    /\ job.stuck => cryp.rev = "v1"
    /\ InStep(cryp, job)

\* The empty FIFO.
LEMMA EmptyFifo == IsSequence(<<>>) /\ Len(<<>>) = 0
<1>1. <<>> \in Seq(Nat) /\ Len(<<>>) = 0
  BY EmptySeq
<1> QED
  BY <1>1 DEF IsSequence

\* A write of CR on v1.
LEMMA ConfigureV1 ==
    ASSUME CrypInv, cryp.rev = "v1", NEW cr \in Crs["v1"], NEW flush \in BOOLEAN
    PROVE  LET p == write_cr_v1(cryp, cr, flush) IN
           CrypOk(p) /\ p.rev = "v1" /\ InStep(p, Configured(cr, flush))
<1> DEFINE q == WithCr(cryp, cr, flush)
           j == Configured(cr, flush)
           Fine(p) == CrypOk(p) /\ p.rev = "v1" /\ InStep(p, j)
           same == cryp.cr.en /\ cr.en /\ AlgBits(cr) = AlgBits(cryp.cr)
<1> SUFFICES Fine(write_cr_v1(cryp, cr, flush))
  OBVIOUS
<1>0. cr.en \in BOOLEAN /\ CrypOk(cryp) /\ CrypShape(cryp) /\ job.fed \in Seq(Nat)
  BY CrypAssumption DEF CrypInv, CrypOk, JobOk
<1>1. /\ CrypShape(q) /\ q.cr = cr /\ q.rev = "v1" /\ q.key = cryp.key /\ q.iv = cryp.iv
      /\ q.eng = IF flush THEN reset_fifos(cryp.eng) ELSE cryp.eng
  BY <1>0, CrWritten
<1> HIDE DEF q
<1>2. /\ SameEngine(cryp.eng, q.eng)
      /\ q.eng.enabled = cryp.eng.enabled
      /\ q.eng.in = IF flush THEN <<>> ELSE cryp.eng.in
  <2>1. CASE flush
    BY <1>0, <1>1, <2>1, Resets
  <2>2. CASE ~flush
    BY <1>1, <2>2 DEF SameEngine, SameConfig
  <2> QED
    BY <2>1, <2>2
<1>3. IsSequence(q.eng.in)
  BY <1>0, <1>2, EmptyFifo DEF CrypOk
<1>4. /\ j.stuck = (cryp.cr.en /\ cr.en /\ (job.stuck \/ (~same /\ cryp.cr.mode = "GCM")))
      /\ j.fed = IF same /\ cr.mode # "GCM" THEN (IF flush THEN Whole(job.fed) ELSE job.fed) ELSE <<>>
  BY <1>0 DEF Configured
<1> HIDE DEF j
<1>5. ASSUME ~cryp.cr.en, cr.en
      PROVE  Fine([commit_config(q) EXCEPT !.eng.enabled = TRUE])
  <2> DEFINE c == commit_config(q)
             r == [c EXCEPT !.eng.enabled = TRUE]
  <2>1. /\ CrypShape(c) /\ SameRegisters(q, c) /\ HasConfig(c) /\ c.eng.in = <<>>
        /\ c.eng.iv = expand_iv(q.iv)
    BY <1>1, Commits
  <2> HIDE DEF c
  <2>2. /\ CrypShape(r) /\ SameRegisters(c, r)
        /\ SameEngine(c.eng, r.eng) /\ r.eng.in = c.eng.in /\ r.eng.enabled = TRUE
    BY <2>1, Enables
  <2> HIDE DEF r
  <2>3. j.fed = <<>>
    BY <1>4, <1>5
  <2>4. CrypOk(r) /\ r.rev = "v1"
    BY <1>0, <1>1, <1>5, <2>1, <2>2, EmptyFifo DEF CrypOk, SameRegisters
  <2>5. HasConfig(r) /\ HasIv(r, Len(j.fed))
    BY <2>1, <2>2, <2>3, EmptyFifo DEF HasConfig, HasIv, SameRegisters, SameEngine, SameConfig
  <2> QED
    BY <2>4, <2>5 DEF InStep, r, c
<1>6. ASSUME cryp.cr.en, ~cr.en
      PROVE  Fine([q EXCEPT !.eng.enabled = FALSE])
  <2> DEFINE r == [q EXCEPT !.eng.enabled = FALSE]
  <2>1. CrypShape(r) /\ SameRegisters(q, r) /\ r.eng.in = q.eng.in /\ r.eng.enabled = FALSE
    BY <1>1, Enables
  <2> HIDE DEF r
  <2> QED
    BY <1>0, <1>1, <1>3, <1>6, <2>1 DEF CrypOk, InStep, SameRegisters, r
<1>7. ASSUME cryp.cr.en, cr.en, q.eng.mode = "GCM"
      PROVE  Fine(NextPhase(q))
  <2> DEFINE r == NextPhase(q)
  <2>1. CrypShape(r) /\ SameRegisters(q, r) /\ r.eng = reset_fifos(q.eng)
    BY <1>1, PhaseChanges
  <2>2. /\ SameEngine(q.eng, r.eng) /\ r.eng.enabled = q.eng.enabled /\ r.eng.in = <<>>
    BY <1>1, <2>1, Resets
  <2> HIDE DEF r
  <2>3. CrypOk(r) /\ r.rev = "v1"
    BY <1>0, <1>1, <1>2, <1>7, <2>1, <2>2, EmptyFifo DEF CrypOk, SameRegisters
  <2>4. ASSUME ~j.stuck
        PROVE  HasConfig(r) /\ HasIv(r, Len(j.fed))
    <3>1. ~job.stuck /\ HasConfig(cryp) /\ HasIv(cryp, Len(job.fed))
      BY <1>4, <1>7, <2>4 DEF CrypInv, InStep, JobOk
    <3>2. cryp.cr.mode = "GCM"
      BY <3>1, <1>2, <1>7 DEF HasConfig, Mode, SameEngine, SameConfig
    <3>3. AlgBits(cr) = AlgBits(cryp.cr)
      BY <3>1, <3>2, <1>4, <1>7, <2>4
    <3>4. cr.mode = cryp.cr.mode /\ cr.dir = cryp.cr.dir /\ cr.size = cryp.cr.size /\ cr.type = cryp.cr.type
      BY <3>3 DEF AlgBits
    <3>5. j.fed = <<>>
      BY <3>2, <3>4, <1>4
    <3>6. Mode(cr) = Mode(cryp.cr) /\ Direction(cr) = Direction(cryp.cr)
      BY <3>4 DEF Mode, Direction
    <3>7. HasConfig(r)
      BY <3>1, <3>4, <3>6, <1>1, <1>2, <2>1, <2>2 DEF HasConfig, SameRegisters, SameEngine, SameConfig
    <3>8. r.eng.iv = expand_iv(r.iv)
      BY <3>1, <1>1, <1>2, <1>7, <2>1, <2>2 DEF HasIv, SameRegisters, SameEngine, SameConfig
    <3> QED
      BY <3>5, <3>7, <3>8, <2>2, EmptyFifo DEF HasIv
  <2> QED
    BY <2>3, <2>4 DEF InStep, r
<1>8. ASSUME cryp.cr.en, cr.en, q.eng.mode # "GCM", AlgBits(cr) # AlgBits(cryp.cr)
      PROVE  Fine(commit_config(q))
  <2> DEFINE r == commit_config(q)
  <2>1. /\ CrypShape(r) /\ SameRegisters(q, r) /\ HasConfig(r) /\ r.eng.enabled = q.eng.enabled
        /\ r.eng.in = <<>> /\ r.eng.iv = expand_iv(q.iv)
    BY <1>1, Commits
  <2> HIDE DEF r
  <2>2. CrypOk(r) /\ r.rev = "v1"
    BY <1>0, <1>1, <1>2, <1>8, <2>1, EmptyFifo DEF CrypOk, SameRegisters
  <2>3. j.fed = <<>>
    BY <1>4, <1>8
  <2>4. HasIv(r, Len(j.fed))
    BY <1>1, <2>1, <2>3, EmptyFifo DEF HasIv, SameRegisters
  <2> QED
    BY <2>1, <2>2, <2>4 DEF InStep, r
<1>9. ASSUME ~(~cryp.cr.en /\ cr.en), ~(cryp.cr.en /\ ~cr.en),
             ~(cryp.cr.en /\ cr.en /\ q.eng.mode = "GCM"),
             ~(cryp.cr.en /\ cr.en /\ q.eng.mode # "GCM" /\ AlgBits(cr) # AlgBits(cryp.cr))
      PROVE  Fine(q)
  <2>1. CrypOk(q)
    BY <1>0, <1>1, <1>2, <1>3, <1>9 DEF CrypOk
  <2>2. ASSUME cr.en, ~j.stuck
        PROVE  HasConfig(q) /\ HasIv(q, Len(j.fed))
    <3>1. cryp.cr.en /\ AlgBits(cr) = AlgBits(cryp.cr) /\ q.eng.mode # "GCM"
      BY <1>0, <1>9, <2>2
    <3>2. ~job.stuck /\ HasConfig(cryp) /\ HasIv(cryp, Len(job.fed))
      BY <1>4, <2>2, <3>1 DEF CrypInv, InStep, JobOk
    <3>3. cr.mode = cryp.cr.mode /\ cr.dir = cryp.cr.dir /\ cr.size = cryp.cr.size /\ cr.type = cryp.cr.type
      BY <3>1 DEF AlgBits
    <3>4. Mode(cr) = Mode(cryp.cr) /\ Direction(cr) = Direction(cryp.cr)
      BY <3>3 DEF Mode, Direction
    <3>5. cr.mode # "GCM"
      BY <3>1, <3>2, <3>3, <1>2 DEF HasConfig, Mode, SameEngine, SameConfig
    <3>6. j.fed = IF flush THEN Whole(job.fed) ELSE job.fed
      BY <1>4, <2>2, <3>1, <3>5
    <3>7. HasConfig(q)
      BY <3>2, <3>3, <3>4, <1>1, <1>2 DEF HasConfig, SameEngine, SameConfig
    <3>8. Len(q.eng.in) <= Len(j.fed)
      <4>1. Len(<<>>) = 0 /\ Len(Whole(job.fed)) \in Nat
        BY <1>0, WholeBlocks, EmptyFifo, LenProperties
      <4> QED
        BY <4>1, <1>2, <3>2, <3>6 DEF HasIv
    <3>9. Len(j.fed) < BLOCK_WORDS => Len(job.fed) < BLOCK_WORDS
      BY <1>0, <3>6, WholeBlocks
    <3> QED
      BY <3>1, <3>2, <3>7, <3>8, <3>9, <1>1, <1>2 DEF HasIv, SameEngine, SameConfig
  <2> QED
    BY <1>1, <2>1, <2>2 DEF InStep
<1> HIDE DEF Fine
<1> QED
  BY <1>0, <1>5, <1>6, <1>7, <1>8, <1>9 DEF write_cr_v1, q, WithCr

\* A write of CR on v2.
LEMMA ConfigureV2 ==
    ASSUME CrypInv, cryp.rev = "v2", NEW cr \in Crs["v2"]
    PROVE  LET p == write_cr_v2(cryp, cr) IN
           CrypOk(p) /\ p.rev = "v2" /\ InStep(p, Configured(cr, FALSE))
<1> DEFINE q == [cryp EXCEPT !.cr = cr]
           j == Configured(cr, FALSE)
           Fine(p) == CrypOk(p) /\ p.rev = "v2" /\ InStep(p, j)
           same == cryp.cr.en /\ cr.en /\ AlgBits(cr) = AlgBits(cryp.cr)
<1> SUFFICES Fine(write_cr_v2(cryp, cr))
  OBVIOUS
<1>0. cr.en \in BOOLEAN /\ CrypOk(cryp) /\ CrypShape(cryp) /\ job.fed \in Seq(Nat) /\ ~job.stuck
  BY CrypAssumption DEF CrypInv, CrypOk, JobOk
<1>1. CrypShape(q) /\ q.cr = cr /\ q.rev = "v2" /\ q.key = cryp.key /\ q.iv = cryp.iv /\ q.eng = cryp.eng
  BY <1>0 DEF CrypShape
<1>2. j.fed = IF same /\ cr.mode # "GCM" THEN job.fed ELSE <<>>
  BY <1>0 DEF Configured
<1>3. ASSUME cryp.cr.en PROVE HasConfig(cryp) /\ HasIv(cryp, Len(job.fed))
  BY <1>0, <1>3 DEF CrypInv, InStep
<1>4. ASSUME same
      PROVE  /\ cr.mode = cryp.cr.mode /\ cr.dir = cryp.cr.dir /\ cr.size = cryp.cr.size
             /\ cr.type = cryp.cr.type /\ Mode(cr) = Mode(cryp.cr) /\ Direction(cr) = Direction(cryp.cr)
  BY <1>4 DEF AlgBits, Mode, Direction
<1> HIDE DEF q, j
<1>5. ASSUME cr.en, ~same
      PROVE  Fine([commit_config(q) EXCEPT !.eng.enabled = TRUE])
  <2> DEFINE c == commit_config(q)
             r == [c EXCEPT !.eng.enabled = TRUE]
  <2>1. /\ CrypShape(c) /\ SameRegisters(q, c) /\ HasConfig(c) /\ c.eng.in = <<>>
        /\ c.eng.iv = expand_iv(q.iv)
    BY <1>1, Commits
  <2> HIDE DEF c
  <2>2. /\ CrypShape(r) /\ SameRegisters(c, r)
        /\ SameEngine(c.eng, r.eng) /\ r.eng.in = c.eng.in /\ r.eng.enabled = TRUE
    BY <2>1, Enables
  <2> HIDE DEF r
  <2>3. j.fed = <<>>
    BY <1>2, <1>5
  <2>4. CrypOk(r) /\ r.rev = "v2"
    BY <1>0, <1>1, <1>5, <2>1, <2>2, EmptyFifo DEF CrypOk, SameRegisters
  <2>5. HasConfig(r) /\ HasIv(r, Len(j.fed))
    BY <2>1, <2>2, <2>3, EmptyFifo DEF HasConfig, HasIv, SameRegisters, SameEngine, SameConfig
  <2> QED
    BY <2>4, <2>5 DEF InStep, r, c
<1>6. ASSUME cryp.cr.en, ~cr.en
      PROVE  Fine([q EXCEPT !.eng.enabled = FALSE, !.deriving = FALSE])
  <2> DEFINE r == [q EXCEPT !.eng.enabled = FALSE, !.deriving = FALSE]
  <2>1. /\ CrypShape(r) /\ SameRegisters(q, r) /\ r.eng.in = q.eng.in
        /\ ~r.eng.enabled /\ r.eng.enabled \in BOOLEAN
    BY <1>1, Disables
  <2> HIDE DEF r
  <2> QED
    BY <1>0, <1>1, <1>6, <2>1 DEF CrypOk, InStep, SameRegisters, r
<1>7. ASSUME same, q.eng.mode = "GCM"
      PROVE  Fine(NextPhase(q))
  <2> DEFINE r == NextPhase(q)
  <2>1. CrypShape(r) /\ SameRegisters(q, r) /\ r.eng = reset_fifos(q.eng)
    BY <1>1, PhaseChanges
  <2>2. SameEngine(q.eng, r.eng) /\ r.eng.enabled = q.eng.enabled /\ r.eng.in = <<>>
    BY <1>1, <2>1, Resets
  <2> HIDE DEF r
  <2>3. CrypOk(r) /\ r.rev = "v2"
    BY <1>0, <1>1, <1>7, <2>1, <2>2, EmptyFifo DEF CrypOk, SameRegisters
  <2>4. HasConfig(r)
    BY <1>1, <1>3, <1>4, <1>7, <2>1, <2>2 DEF HasConfig, SameRegisters, SameEngine, SameConfig
  <2>5. r.eng.iv = expand_iv(r.iv)
    BY <1>1, <1>3, <1>7, <2>1, <2>2 DEF HasIv, SameRegisters, SameEngine, SameConfig
  <2>6. Len(r.eng.in) <= Len(j.fed)
    BY <1>0, <1>2, <2>2, EmptyFifo, LenProperties
  <2> QED
    BY <2>3, <2>4, <2>5, <2>6 DEF InStep, HasIv, r
<1>8. ASSUME ~(cr.en /\ ~same), ~(cryp.cr.en /\ ~cr.en), ~(same /\ q.eng.mode = "GCM")
      PROVE  Fine(q)
  <2>1. CrypOk(q)
    BY <1>0, <1>1, <1>8 DEF CrypOk
  <2>2. ASSUME cr.en
        PROVE  HasConfig(q) /\ HasIv(q, Len(j.fed))
    <3>1. same /\ q.eng.mode # "GCM"
      BY <1>8, <2>2
    <3>2. cr.mode # "GCM"
      BY <3>1, <1>1, <1>3, <1>4 DEF HasConfig, Mode
    <3>3. j.fed = job.fed
      BY <3>1, <3>2, <1>2
    <3> QED
      BY <3>1, <3>3, <1>1, <1>3, <1>4 DEF HasConfig, HasIv
  <2> QED
    BY <1>1, <2>1, <2>2 DEF InStep
<1> HIDE DEF Fine
<1> QED
  BY <1>0, <1>5, <1>6, <1>7, <1>8 DEF write_cr_v2, q

\* A word that does not make a block stays in the FIFO and leaves the IV.
LEMMA WordFed ==
    ASSUME NEW p, CrypShape(p), IsSequence(p.eng.in), NEW word
    PROVE  /\ CrypShape(write_dinr(p, word)) /\ SameRegisters(p, write_dinr(p, word))
           /\ IsSequence(write_dinr(p, word).eng.in)
           /\ Len(write_dinr(p, word).eng.in) <= Len(p.eng.in) + 1
           /\ write_dinr(p, word).eng.enabled = p.eng.enabled
           /\ SameConfig(p.eng, write_dinr(p, word).eng)
           /\ Len(p.eng.in) + 1 < BLOCK_WORDS \/ (p.eng.enabled /\ p.eng.mode = "GCM") =>
                 write_dinr(p, word).eng.iv = p.eng.iv
<1> DEFINE Fields == {"key", "iv", "size", "mode", "dir", "type", "enabled", "in", "out"}
           Fine(f) == /\ f = [x \in Fields |-> f[x]]
                      /\ IsSequence(f.in) /\ Len(f.in) <= Len(p.eng.in) + 1
                      /\ SameConfig(p.eng, f) /\ f.enabled = p.eng.enabled
           Same(f) == Fine(f) /\ f.iv = p.eng.iv
<1>1. Len(p.eng.in) \in Nat
  BY LenProperties DEF IsSequence
<1>2. Same(p.eng)
  BY <1>1 DEF CrypShape, SameConfig
<1>3. ASSUME NEW f, Fine(f), NEW blk PROVE Fine([f EXCEPT !.out = blk]) /\ [f EXCEPT !.out = blk].iv = f.iv
  BY <1>3 DEF SameConfig
<1>4. ASSUME NEW f, Fine(f), NEW iv, NEW blk PROVE Fine([f EXCEPT !.iv = iv, !.out = blk])
  BY <1>4 DEF SameConfig
<1>5. ASSUME NEW f, Fine(f) PROVE Fine([f EXCEPT !.in = <<>>])
  <2> DEFINE g == [f EXCEPT !.in = <<>>]
  <2>1. g = [x \in Fields |-> g[x]] /\ g.in = <<>> /\ SameConfig(p.eng, g) /\ g.enabled = f.enabled
    BY <1>5 DEF SameConfig
  <2> HIDE DEF g
  <2> QED
    BY <1>1, <1>5, <2>1, EmptyFifo DEF g
<1> DEFINE item == swap(p.eng.type, word)
           s == Append(p.eng.in, item)
           g == [p.eng EXCEPT !.in = s]
<1>6. IsSequence(s) /\ Len(s) = Len(p.eng.in) + 1
  <2>1. PICK S : p.eng.in \in Seq(S)
    BY DEF IsSequence
  <2> HIDE DEF item
  <2>2. p.eng.in \in Seq(S \cup {item})
    BY <2>1, SeqMonotonic
  <2>3. s \in Seq(S \cup {item}) /\ Len(s) = Len(p.eng.in) + 1
    BY <2>2, AppendProperties
  <2> QED
    BY <2>3 DEF IsSequence
<1>7. Same(g) /\ g.in = s
  <2> HIDE DEF s
  <2> QED
    BY <1>1, <1>2, <1>6 DEF SameConfig
<1>9. cryp_write_din(p.eng, word)
        = IF ~p.eng.enabled \/ Len(p.eng.in) >= BLOCK_WORDS THEN p.eng
          ELSE IF Len(g.in) = BLOCK_WORDS THEN process_block(g) ELSE g
  BY DEF cryp_write_din
<1>10. ASSUME NEW f, Fine(f) PROVE Fine(process_block(f))
  <2> HIDE DEF Fine
  <2> QED
    BY <1>3, <1>4, <1>5, <1>10 DEF process_block, cbc
<1> HIDE DEF g, s
<1>11. /\ Fine(cryp_write_din(p.eng, word))
       /\ Len(p.eng.in) + 1 < BLOCK_WORDS => Same(cryp_write_din(p.eng, word))
  <2>1. Fine(p.eng) /\ Fine(g) /\ Fine(process_block(g))
    BY <1>2, <1>7, <1>10
  <2>2. Len(g.in) = Len(p.eng.in) + 1
    BY <1>6, <1>7
  <2>3. Same(p.eng) /\ Same(g)
    BY <1>2, <1>7
  <2> HIDE DEF Fine, Same
  <2> QED
    BY <1>1, <1>9, <2>1, <2>2, <2>3, CrypAssumption
<1> DEFINE Good(q) == CrypShape(q) /\ SameRegisters(p, q) /\ Same(q.eng)
<1>12. ASSUME NEW gin PROVE Good([p EXCEPT !.gin = gin])
  BY <1>2 DEF CrypShape, SameRegisters
<1>13. ASSUME NEW gin, NEW gcm PROVE Good([p EXCEPT !.gin = gin, !.gcm = gcm])
  BY <1>2 DEF CrypShape, SameRegisters
<1>14. ASSUME NEW q, Good(q), NEW blk PROVE Good([q EXCEPT !.eng.out = blk])
  <2> DEFINE f == [q.eng EXCEPT !.out = blk]
  <2>1. Same(f)
    BY <1>3, <1>14
  <2>2. [q EXCEPT !.eng.out = blk] = [q EXCEPT !.eng = f]
    OBVIOUS
  <2> HIDE DEF f
  <2> QED
    BY <1>14, <2>1, <2>2 DEF CrypShape, SameRegisters
<1>15. Good(gcm_din(p, word))
  <2> HIDE DEF Good
  <2>1. ASSUME NEW x PROVE Good(gcm_block(p, x))
    BY <1>13, <1>14 DEF gcm_block
  <2> QED
    BY <1>12, <2>1 DEF gcm_din
<1>16. CASE p.eng.enabled /\ p.eng.mode = "GCM"
  BY <1>15, <1>16 DEF write_dinr
<1>17. CASE ~(p.eng.enabled /\ p.eng.mode = "GCM")
  <2> DEFINE f == cryp_write_din(p.eng, word)
  <2>1. write_dinr(p, word) = [p EXCEPT !.eng = f]
    BY <1>17 DEF write_dinr
  <2> HIDE DEF f
  <2>2. Fine(f) /\ (Len(p.eng.in) + 1 < BLOCK_WORDS => f.iv = p.eng.iv)
    BY <1>11 DEF f
  <2>3. /\ write_dinr(p, word).eng = f /\ CrypShape(write_dinr(p, word))
        /\ SameRegisters(p, write_dinr(p, word))
    BY <2>1, <2>2 DEF CrypShape, SameRegisters
  <2> QED
    BY <1>17, <2>2, <2>3
<1> QED
  BY <1>16, <1>17

\* The inductive invariant holds after reset.
LEMMA CrypInvInit == CrypInit => CrypInv
<1> SUFFICES ASSUME NEW rev \in {"v1", "v2"}, cryp = CrypReset(rev),
                    job = [stuck |-> FALSE, fed |-> <<>>, msg |-> NoMessage]
             PROVE  CrypInv
  BY DEF CrypInit
<1>1. CrypShape(cryp)
  BY DEF CrypShape, CrypReset
<1>2. cryp.rev = rev /\ cryp.cr.en = FALSE /\ cryp.eng.enabled = FALSE /\ cryp.eng.in = <<>>
  BY DEF CrypReset
<1>3. CrypOk(cryp)
  BY <1>1, <1>2, EmptyFifo DEF CrypOk
<1>4. JobOk(job)
  BY EmptySeq DEF JobOk
<1> QED
  BY <1>2, <1>3, <1>4 DEF CrypInv, InStep

\* Every write and read of a register keeps it.
LEMMA CrypInvStep == CrypInv /\ [CrypNext]_crypvars => CrypInv'
<1> SUFFICES ASSUME CrypInv, [CrypNext]_crypvars PROVE CrypInv'
  OBVIOUS
<1>0. /\ CrypOk(cryp) /\ CrypShape(cryp) /\ JobOk(job) /\ InStep(cryp, job)
      /\ job.stuck => cryp.rev = "v1"
  BY DEF CrypInv, CrypOk
<1>1. ASSUME NEW cr \in Crs[cryp.rev], NEW flush \in IF cryp.rev = "v1" THEN BOOLEAN ELSE {FALSE},
             Configure(cr, flush)
      PROVE  CrypInv'
  <2> DEFINE j == Configured(cr, flush)
  <2>1. CrypOk(cryp') /\ cryp'.rev = cryp.rev /\ InStep(cryp', j)
    <3>1. CASE cryp.rev = "v1"
      BY <1>1, <3>1, ConfigureV1 DEF Configure
    <3>2. CASE cryp.rev = "v2"
      BY <1>1, <3>2, ConfigureV2 DEF Configure
    <3> QED
      BY <1>0, <3>1, <3>2 DEF CrypOk
  <2>2. JobOk(j) /\ (j.stuck => cryp.rev = "v1")
    <3>1. cr.en \in BOOLEAN /\ cryp.cr.en \in BOOLEAN
      BY <1>0, CrypAssumption DEF CrypOk
    <3>2. /\ job.fed \in Seq(Nat) /\ Whole(job.fed) \in Seq(Nat) /\ <<>> \in Seq(Nat)
          /\ job.stuck \in BOOLEAN
      BY <1>0, WholeBlocks, EmptySeq DEF JobOk
    <3>3. j.fed \in Seq(Nat)
      BY <3>2 DEF Configured
    <3>4. j.stuck \in BOOLEAN /\ (j.stuck => cryp.rev = "v1")
      BY <3>1, <3>2 DEF Configured
    <3>5. j = [f \in {"stuck", "fed", "msg"} |-> j[f]]
      BY DEF Configured
    <3> QED
      BY <3>3, <3>4, <3>5 DEF JobOk
  <2>3. job' = j
    BY <1>1 DEF Configure
  <2> QED
    BY <2>1, <2>2, <2>3 DEF CrypInv
<1>2. ASSUME NEW i, NEW k, WriteKey(i, k) PROVE CrypInv'
  <2> DEFINE q == [cryp EXCEPT !.key[i] = k]
             r == [q EXCEPT !.eng.key = expand_key(q.key, cryp.eng.size)]
  <2>1. job.fed = <<>> /\ job' = job /\ cryp' = IF cryp.eng.enabled THEN r ELSE q
    BY <1>2 DEF WriteKey, write_key
  <2>2. CrypShape(q) /\ q.rev = cryp.rev /\ q.cr = cryp.cr /\ q.iv = cryp.iv /\ q.eng = cryp.eng
    BY <1>0 DEF CrypShape
  <2> HIDE DEF q
  <2>3. /\ CrypShape(r) /\ SameRegisters(q, r) /\ r.eng.key = expand_key(q.key, cryp.eng.size)
        /\ r.eng.mode = q.eng.mode /\ r.eng.dir = q.eng.dir /\ r.eng.size = q.eng.size
        /\ r.eng.type = q.eng.type /\ r.eng.iv = q.eng.iv /\ r.eng.in = q.eng.in
        /\ r.eng.enabled = q.eng.enabled
    BY <2>2 DEF CrypShape, SameRegisters
  <2> HIDE DEF r
  <2>4. CASE cryp.eng.enabled
    <3>1. CrypOk(r)
      BY <1>0, <2>2, <2>3 DEF CrypOk, SameRegisters
    <3>2. InStep(r, job)
      BY <1>0, <2>2, <2>3 DEF InStep, HasConfig, HasIv, SameRegisters
    <3> QED
      BY <1>0, <2>1, <2>2, <2>3, <2>4, <3>1, <3>2 DEF CrypInv, SameRegisters
  <2>5. CASE ~cryp.eng.enabled
    <3>1. CrypOk(q) /\ InStep(q, job)
      BY <1>0, <2>2, <2>5 DEF CrypOk, InStep
    <3> QED
      BY <1>0, <2>1, <2>2, <2>5, <3>1 DEF CrypInv
  <2> QED
    BY <2>4, <2>5
<1>3. ASSUME NEW iv, WriteIv(iv) PROVE CrypInv'
  <2> DEFINE q == [cryp EXCEPT !.iv = iv]
             r == [q EXCEPT !.eng.iv = expand_iv(iv)]
  <2>1. job' = job /\ cryp' = IF cryp.rev = "v2" \/ cryp.eng.enabled THEN r ELSE q
    BY <1>3 DEF WriteIv, write_iv
  <2>2. CrypShape(q) /\ q.rev = cryp.rev /\ q.cr = cryp.cr /\ q.key = cryp.key /\ q.eng = cryp.eng /\ q.iv = iv
    BY <1>0 DEF CrypShape
  <2> HIDE DEF q
  <2>3. /\ CrypShape(r) /\ SameRegisters(q, r) /\ r.eng.iv = expand_iv(iv)
        /\ SameConfig(q.eng, r.eng) /\ r.eng.in = q.eng.in /\ r.eng.enabled = q.eng.enabled
    BY <2>2 DEF CrypShape, SameRegisters, SameConfig
  <2> HIDE DEF r
  <2>4. CrypOk(r) /\ r.rev = cryp.rev
    BY <1>0, <2>2, <2>3 DEF CrypOk, SameRegisters
  <2>5. InStep(r, job)
    BY <1>0, <2>2, <2>3 DEF InStep, HasConfig, HasIv, SameRegisters, SameConfig
  <2>6. ~cryp.eng.enabled => CrypOk(q) /\ InStep(q, job)
    BY <1>0, <2>2 DEF CrypOk, InStep
  <2> QED
    BY <1>0, <2>1, <2>2, <2>4, <2>5, <2>6 DEF CrypInv
<1>4. ASSUME NEW pad, Feed(pad) PROVE CrypInv'
  <2> DEFINE words == Append(job.fed, Len(job.fed) + 1)
  <2>1. /\ cryp.cr.en /\ ~job.stuck /\ cryp' = write_dinr(cryp, Len(words))
        /\ job' = [job EXCEPT !.fed = words, !.msg = Told(words, pad)]
    BY <1>4 DEF Feed
  <2>2. words \in Seq(Nat) /\ Len(words) = Len(job.fed) + 1 /\ Len(job.fed) \in Nat
    BY <1>0, AppendProperties, LenProperties DEF JobOk
  <2> HIDE DEF words
  <2>3. JobOk(job') /\ job'.fed = words /\ job'.stuck = job.stuck
    BY <1>0, <2>1, <2>2 DEF JobOk
  <2> DEFINE w == Len(words)
             r == write_dinr(cryp, w)
  <2>4. IsSequence(cryp.eng.in) /\ Len(cryp.eng.in) \in Nat
    BY <1>0, LenProperties DEF CrypOk, IsSequence
  <2> HIDE DEF w
  <2>5. /\ CrypShape(r) /\ SameRegisters(cryp, r) /\ IsSequence(r.eng.in)
        /\ Len(r.eng.in) <= Len(cryp.eng.in) + 1
        /\ r.eng.enabled = cryp.eng.enabled /\ SameConfig(cryp.eng, r.eng)
        /\ Len(cryp.eng.in) + 1 < BLOCK_WORDS \/ (cryp.eng.enabled /\ cryp.eng.mode = "GCM") =>
                 r.eng.iv = cryp.eng.iv
    BY <1>0, <2>4, WordFed
  <2>6. cryp' = r
    BY <2>1 DEF w
  <2>7. Len(r.eng.in) \in Nat
    BY <2>5, LenProperties DEF IsSequence
  <2> HIDE DEF r
  <2>8. CrypOk(r) /\ r.rev = cryp.rev
    BY <1>0, <2>5 DEF CrypOk, SameRegisters
  <2>9. HasConfig(cryp) /\ HasIv(cryp, Len(job.fed)) /\ cryp.eng.enabled
    BY <1>0, <2>1 DEF InStep, CrypOk
  <2>10. HasConfig(r)
    BY <2>5, <2>9 DEF HasConfig, SameConfig, SameRegisters
  <2>11. HasIv(r, Len(words))
    <3>1. Len(cryp.eng.in) <= Len(job.fed)
      BY <2>9 DEF HasIv
    <3>2. Len(r.eng.in) <= Len(words)
      <4>1. ASSUME NEW a \in Nat, NEW b \in Nat, NEW c \in Nat, a <= b + 1, b <= c PROVE a <= c + 1
        BY <4>1
      <4>2. Len(r.eng.in) <= Len(cryp.eng.in) + 1
        BY <2>5
      <4>3. Len(r.eng.in) <= Len(job.fed) + 1
        BY <2>2, <2>4, <2>7, <3>1, <4>1, <4>2
      <4> QED
        BY <2>2, <4>3
    <3>3. ASSUME Len(words) < BLOCK_WORDS PROVE r.eng.iv = expand_iv(r.iv)
      <4>1. Len(job.fed) < BLOCK_WORDS /\ Len(cryp.eng.in) + 1 < BLOCK_WORDS
        BY <2>2, <2>4, <3>1, <3>3, CrypAssumption
      <4> QED
        BY <2>5, <2>9, <4>1 DEF HasIv, SameRegisters
    <3>4. ASSUME r.eng.mode = "GCM" PROVE r.eng.iv = expand_iv(r.iv)
      BY <2>5, <2>9, <3>4 DEF HasIv, SameConfig, SameRegisters
    <3> QED
      BY <3>2, <3>3, <3>4 DEF HasIv
  <2> QED
    BY <1>0, <2>3, <2>6, <2>8, <2>10, <2>11 DEF CrypInv, InStep
<1>5. CASE Read
  <2> DEFINE e == read_dout(cryp.eng)
             r == [cryp EXCEPT !.eng = e]
  <2>1. cryp' = r /\ job' = job
    BY <1>5 DEF Read
  <2>2. /\ e = [f \in {"key", "iv", "size", "mode", "dir", "type", "enabled", "in", "out"} |-> e[f]]
        /\ SameEngine(cryp.eng, e) /\ e.in = cryp.eng.in /\ e.enabled = cryp.eng.enabled
    BY <1>0 DEF CrypShape, read_dout, SameEngine, SameConfig
  <2> HIDE DEF e
  <2>3. CrypShape(r) /\ SameRegisters(cryp, r) /\ r.eng = e
    BY <1>0, <2>2 DEF CrypShape, SameRegisters
  <2> HIDE DEF r
  <2>4. CrypOk(r) /\ r.rev = cryp.rev
    BY <1>0, <2>2, <2>3 DEF CrypOk, SameRegisters
  <2>5. InStep(r, job)
    BY <1>0, <2>2, <2>3 DEF InStep, HasConfig, HasIv, SameRegisters, SameEngine, SameConfig
  <2> QED
    BY <1>0, <2>1, <2>4, <2>5 DEF CrypInv
<1>6. CASE UNCHANGED crypvars
  BY <1>6 DEF crypvars, CrypInv
<1> QED
  BY <1>1, <1>2, <1>3, <1>4, <1>5, <1>6 DEF CrypNext

\* While the AES peripheral is enabled its engine has the configuration, the key and the IV of the
\* registers, in whatever order and however often they were written, with and without FFLUSH and
\* between the words of a block (commit_config, write_key and write_iv of cryp/v1.rs and v2.rs).
THEOREM EngineFollowsRegisters == CrypSpec => []EngineInStep
<1>1. CrypInv => EngineInStep
  <2> SUFFICES ASSUME CrypInv, cryp.cr.en, ~job.stuck
               PROVE  /\ HasConfig(cryp)
                      /\ job.fed = <<>> => cryp.eng.iv = expand_iv(cryp.iv)
    BY DEF EngineInStep, HasConfig
  <2>1. HasConfig(cryp) /\ HasIv(cryp, Len(job.fed))
    BY DEF CrypInv, InStep
  <2> QED
    BY <2>1, EmptyFifo, CrypAssumption DEF HasIv
<1> QED
  BY <1>1, CrypInvInit, CrypInvStep, PTL DEF CrypSpec

-----------------------------------------------------------------------------
(***************************************************************************)
(* The HASH peripheral.                                                    *)
(***************************************************************************)
Phases == {"Off", "Key1", "Msg", "Key2"}

\* The peripheral has its registers, and is in a phase, also in the snapshot.
HashOk(h) ==
    /\ h = [f \in {"strw", "pending", "savedpending", "algo", "hasher", "finalised", "result",
                    "phase", "key", "outer", "saved"} |-> h[f]]
    /\ h.finalised \in BOOLEAN /\ h.phase \in Phases
    /\ h.saved.on => h.saved.phase \in Phases

SameSnapshot(h, g) == g.saved = h.saved /\ g.savedpending = h.savedpending

\* The engine between two writes of registers.
LEMMA FeedIsOk ==
    ASSUME NEW h, HashOk(h), NEW w, NEW v
    PROVE  HashOk(feed_word(h, w, v)) /\ SameSnapshot(h, feed_word(h, w, v))
BY DEF HashOk, SameSnapshot, feed_word

\* Computing a digest keeps the snapshot.
LEMMA FinalizeIsOk ==
    ASSUME NEW h, HashOk(h)
    PROVE  HashOk(finalize(h)) /\ SameSnapshot(h, finalize(h))
<1> DEFINE Fine(g) == HashOk(g) /\ SameSnapshot(h, g)
<1>1. Fine(h)
  BY DEF SameSnapshot
<1>2. Fine(finalize_plain(h))
  BY DEF HashOk, SameSnapshot, finalize_plain
<1>3. Fine(hmac_finish_key1(h))
  BY DEF HashOk, SameSnapshot, hmac_finish_key1, Phases
<1>4. Fine(hmac_finish_msg(h))
  BY DEF HashOk, SameSnapshot, hmac_finish_msg, Phases
<1>5. Fine(hmac_finish_key2(h))
  BY DEF HashOk, SameSnapshot, hmac_finish_key2, Phases
<1>6. h.finalised \in BOOLEAN /\ h.phase \in Phases
  BY DEF HashOk
<1> HIDE DEF Fine
<1>7. Fine(finalize(h))
  BY <1>1, <1>2, <1>3, <1>4, <1>5, <1>6 DEF finalize, Phases
<1> QED
  BY <1>7 DEF Fine

\* The registers.
LEMMA DinIsOk ==
    ASSUME NEW h, HashOk(h), NEW w
    PROVE  HashOk(write_din(h, w)) /\ SameSnapshot(h, write_din(h, w))
<1> DEFINE g == IF h.pending = <<>> THEN h ELSE feed_word(h, h.pending[1], 4)
<1>1. HashOk(g) /\ SameSnapshot(h, g)
  BY FeedIsOk DEF SameSnapshot
<1>2. write_din(h, w) = [g EXCEPT !.pending = <<w>>]
  BY DEF write_din
<1> HIDE DEF g
<1> QED
  BY <1>1, <1>2 DEF HashOk, SameSnapshot

\* Writing DCAL feeds the pending word, computes the digest and keeps the snapshot.
LEMMA DcalIsOk ==
    ASSUME NEW h, HashOk(h), NEW nblw
    PROVE  /\ HashOk(write_dcal(h, nblw)) /\ SameSnapshot(h, write_dcal(h, nblw))
           /\ ~write_dcal(h, nblw).strw /\ write_dcal(h, nblw).pending = <<>>
<1> DEFINE g == IF h.pending = <<>> THEN h ELSE feed_word(h, h.pending[1], valid_bytes(nblw))
<1>1. HashOk(g) /\ SameSnapshot(h, g)
  BY FeedIsOk DEF SameSnapshot
<1> HIDE DEF g
<1> DEFINE f == finalize(g)
<1>2. HashOk(f) /\ SameSnapshot(h, f)
  BY <1>1, FinalizeIsOk DEF SameSnapshot
<1>3. write_dcal(h, nblw) = [f EXCEPT !.pending = <<>>, !.strw = FALSE]
  BY DEF write_dcal, g
<1> HIDE DEF f
<1> QED
  BY <1>2, <1>3 DEF HashOk, SameSnapshot

\* Writing STR keeps the snapshot.
LEMMA StrIsOk ==
    ASSUME NEW h, HashOk(h)
    PROVE  HashOk(write_str(h)) /\ SameSnapshot(h, write_str(h))
BY DEF HashOk, SameSnapshot, write_str

\* Writing CR restores the snapshot that was written, or initialises the engine.
LEMMA CrIsOk ==
    ASSUME NEW h, HashOk(h), NEW algo, NEW hmac
    PROVE  HashOk(write_cr(h, algo, hmac))
<1>1. ASSUME h.saved.on PROVE HashOk([load_snapshot(h) EXCEPT !.strw = FALSE])
  BY <1>1 DEF HashOk, load_snapshot, restore_from_snapshot
<1> DEFINE i == init_with_mode(h, algo, hmac)
<1>2. HashOk(i)
  BY DEF HashOk, init_with_mode, Phases, NoSnapshot
<1> HIDE DEF i
<1>3. HashOk([[i EXCEPT !.pending = <<>>] EXCEPT !.strw = FALSE])
  BY <1>2 DEF HashOk
<1> QED
  BY <1>1, <1>3 DEF write_cr, i

\* Reading CSR takes a snapshot.
LEMMA CsrIsOk ==
    ASSUME NEW h, HashOk(h)
    PROVE  HashOk(read_csr(h))
BY DEF HashOk, read_csr, capture_snapshot

\* A context switch ends in a well-formed peripheral.
LEMMA LoadIsOk ==
    ASSUME HashOk(hash), NEW c, NEW algo, NEW hmac
    PROVE  HashOk(Load(c, algo, hmac))
BY StrIsOk, CrIsOk DEF Load

\* Finishing a message ends in a well-formed peripheral and keeps the snapshot.
LEMMA DigestedIsOk ==
    ASSUME NEW h, HashOk(h), NEW c, NEW k, NEW tail
    PROVE  /\ HashOk(Digested(h, c, k, tail)) /\ SameSnapshot(h, Digested(h, c, k, tail))
           /\ ~Digested(h, c, k, tail).strw
<1> DEFINE d == IF tail = 0 THEN h ELSE write_din(h, Word(c, k.words + 1))
<1>1. HashOk(d) /\ SameSnapshot(h, d)
  BY DinIsOk DEF SameSnapshot
<1> HIDE DEF d
<1> DEFINE e == write_dcal(d, 8 * tail)
<1>2. HashOk(e) /\ SameSnapshot(h, e) /\ ~e.strw
  BY <1>1, DcalIsOk DEF SameSnapshot
<1>3. EndMessage(h, c, k, tail) = e
  BY DEF EndMessage, d
<1> HIDE DEF e
<1>4. HashOk(write_din(e, KeyWord(c))) /\ SameSnapshot(h, write_din(e, KeyWord(c)))
  BY <1>2, DinIsOk DEF SameSnapshot
<1> DEFINE f == write_dcal(write_din(e, KeyWord(c)), 0)
<1>5. HashOk(f) /\ SameSnapshot(h, f) /\ ~f.strw
  BY <1>4, DcalIsOk DEF SameSnapshot
<1>6. Digested(h, c, k, tail) = IF k.hmac THEN f ELSE e
  BY <1>3 DEF Digested
<1> QED
  BY <1>2, <1>5, <1>6

\* What a hasher has absorbed of the message of context c, with the key of an HMAC before it.
KeyOf(c) == <<[word |-> KeyWord(c), valid |-> 4]>>
Item(w, v) == [word |-> w, valid |-> v]
Prefix(c, k) == IF k.hmac THEN <<[ipad |-> KeyOf(c)]>> ELSE <<>>
Keyed(c, k, data) == Prefix(c, k) \o data
Absorbed(c, k, n) == Keyed(c, k, Full(c, n))
Items(c) == {[ipad |-> KeyOf(c)]} \cup {Item(Word(c, i), v) : i \in Nat, v \in Nat}

\* The words that a client writes are items of its message.
LEMMA ItemOf ==
    ASSUME NEW c, NEW i \in Nat, NEW v \in Nat
    PROVE  Item(Word(c, i), v) \in Items(c)
BY DEF Items

\* The first n full words of a client are a sequence of n items.
LEMMA FullIsSeq ==
    ASSUME NEW c, NEW n \in Nat
    PROVE  Full(c, n) \in Seq(Items(c)) /\ Len(Full(c, n)) = n
<1>1. Full(c, n) \in [1..n -> Items(c)]
  BY DEF Full, Items, Item
<1>2. Full(c, n) \in Seq(Items(c))
  BY <1>1, SeqDef
<1> QED
  BY <1>1, <1>2, LenProperties

\* One more full word after n of them makes the first n + 1.
LEMMA FullGrows ==
    ASSUME NEW c, NEW n \in Nat
    PROVE  Append(Full(c, n), Item(Word(c, n + 1), 4)) = Full(c, n + 1)
<1> DEFINE s == Full(c, n)
           t == Full(c, n + 1)
           x == Item(Word(c, n + 1), 4)
           a == Append(s, x)
<1>1. s \in Seq(Items(c)) /\ Len(s) = n /\ t \in Seq(Items(c)) /\ Len(t) = n + 1 /\ x \in Items(c)
  <2>1. n + 1 \in Nat /\ 4 \in Nat
    OBVIOUS
  <2> QED
    BY <2>1, FullIsSeq, ItemOf
<1>2. \A i \in 1..n : s[i] = t[i]
  BY DEF Full
<1>3. t[n + 1] = x
  BY DEF Full, Item
<1> HIDE DEF s, t, x
<1>4. a \in Seq(Items(c)) /\ Len(a) = n + 1 /\ (\A i \in 1..n : a[i] = s[i]) /\ a[n + 1] = x
  BY <1>1, AppendProperties
<1> HIDE DEF a
<1>5. \A i \in 1..Len(a) : a[i] = t[i]
  BY <1>2, <1>3, <1>4
<1>6. a = t
  BY <1>1, <1>4, <1>5, SeqEqual
<1> QED
  BY <1>6 DEF a, s, t, x

\* The key that an HMAC absorbs first is a sequence of items.
LEMMA HeadIsSeq ==
    ASSUME NEW c, NEW k
    PROVE  Prefix(c, k) \in Seq(Items(c))
<1>1. <<>> \in Seq(Items(c))
  BY EmptySeq
<1>2. <<[ipad |-> KeyOf(c)]>> \in Seq(Items(c))
  BY DEF Items
<1> QED
  BY <1>1, <1>2 DEF Prefix

\* What follows a prefix.
LEMMA AppendAfter ==
    ASSUME NEW S, NEW s \in Seq(S), NEW t \in Seq(S), NEW x \in S
    PROVE  /\ Append(s \o t, x) = s \o Append(t, x)
           /\ t \o <<x>> = Append(t, x)
           /\ t \o <<>> = t /\ <<>> \o t = t
<1>1. s \o t \in Seq(S) /\ <<x>> \in Seq(S)
  BY ConcatProperties
<1>2. Append(s \o t, x) = (s \o t) \o <<x>>
  BY <1>1, AppendIsConcat
<1>3. (s \o t) \o <<x>> = s \o (t \o <<x>>)
  BY <1>1, ConcatAssociative
<1>4. Append(t, x) = t \o <<x>>
  BY AppendIsConcat
<1>5. t \o <<>> = t /\ <<>> \o t = t
  BY ConcatEmptySeq
<1> QED
  BY <1>2, <1>3, <1>4, <1>5, Zenon

\* Appending to the data is appending behind the key.
LEMMA PrefixStays ==
    ASSUME NEW c, NEW k, NEW data \in Seq(Items(c)), NEW y \in Items(c)
    PROVE  Append(Keyed(c, k, data), y) = Keyed(c, k, Append(data, y))
<1>1. Prefix(c, k) \in Seq(Items(c))
  BY HeadIsSeq
<1> DEFINE S == Items(c)
           h == Prefix(c, k)
<1>2. h \o data \in Seq(S) /\ <<y>> \in Seq(S)
  BY <1>1, ConcatProperties
<1>3. Append(h \o data, y) = (h \o data) \o <<y>>
  BY <1>2, AppendIsConcat
<1>4. (h \o data) \o <<y>> = h \o (data \o <<y>>)
  BY <1>1, <1>2, ConcatAssociative
<1>5. Append(data, y) = data \o <<y>>
  BY AppendIsConcat
<1> QED
  BY <1>3, <1>4, <1>5, Zenon DEF Keyed

\* Absorbing one more word of the client makes what it is to have absorbed by then.
LEMMA AbsorbedGrows ==
    ASSUME NEW c, NEW k, NEW n \in Nat
    PROVE  Append(Absorbed(c, k, n), Item(Word(c, n + 1), 4)) = Absorbed(c, k, n + 1)
<1> DEFINE s == Full(c, n)
           x == Item(Word(c, n + 1), 4)
<1>1. s \in Seq(Items(c)) /\ x \in Items(c)
  BY FullIsSeq, ItemOf
<1>2. Append(s, x) = Full(c, n + 1)
  BY FullGrows
<1> HIDE DEF s, x
<1>3. Append(Keyed(c, k, s), x) = Keyed(c, k, Append(s, x))
  BY <1>1, PrefixStays
<1> QED
  BY <1>2, <1>3 DEF Absorbed, s, x

\* After the last word, what was absorbed is the client's whole message.
LEMMA AbsorbedIsMessage ==
    ASSUME NEW c, NEW k, k.words \in Nat
    PROVE  /\ Absorbed(c, k, k.words) = Keyed(c, k, Message(c, k, 0))
           /\ Append(Absorbed(c, k, k.words), Item(Word(c, k.words + 1), 3)) = Keyed(c, k, Message(c, k, 3))
           /\ \A tail \in {0, 3} : <<>> \o Message(c, k, tail) = Message(c, k, tail)
<1> DEFINE s == Full(c, k.words)
           x == Item(Word(c, k.words + 1), 3)
<1>1. s \in Seq(Items(c)) /\ x \in Items(c)
  BY FullIsSeq, ItemOf
<1>2. Message(c, k, 0) = s \o <<>> /\ Message(c, k, 3) = s \o <<x>>
  BY DEF Message, Item
<1> HIDE DEF s, x
<1>3. Message(c, k, 0) = s /\ Message(c, k, 3) = Append(s, x) /\ Append(s, x) \in Seq(Items(c))
  BY <1>1, <1>2, AppendAfter, AppendProperties
<1>4. <<>> \o s = s /\ <<>> \o Append(s, x) = Append(s, x)
  BY <1>1, <1>3, AppendAfter
<1>5. Append(Keyed(c, k, s), x) = Keyed(c, k, Append(s, x))
  BY <1>1, PrefixStays
<1> QED
  BY <1>3, <1>4, <1>5 DEF Absorbed, s, x

Hasher(algo, data) == [on |-> TRUE, algo |-> algo, data |-> data]
Outer(c, k) == Hasher(k.algo, <<[opad |-> KeyOf(c)]>>)
MessagePhase(k) == IF k.hmac THEN "Msg" ELSE "Off"

\* Absorbing appends the item to the data of a running hasher.
LEMMA Absorbs ==
    ASSUME NEW algo, NEW data, NEW item
    PROVE  /\ absorb(Hasher(algo, data), item) = Hasher(algo, Append(data, item))
           /\ Hasher(algo, data).on
<1> DEFINE d == Append(data, item)
<1>1. absorb(Hasher(algo, data), item) = [Hasher(algo, data) EXCEPT !.data = d]
  BY DEF absorb, Hasher
<1> HIDE DEF d
<1>2. [Hasher(algo, data) EXCEPT !.data = d] = Hasher(algo, d)
  <2> DEFINE D == {"on", "algo", "data"}
             a == [Hasher(algo, data) EXCEPT !.data = d]
             b == Hasher(algo, d)
  <2>1. a = [x \in D |-> a[x]] /\ b = [x \in D |-> b[x]]
    BY DEF Hasher
  <2>2. a.on = b.on /\ a.algo = b.algo /\ a.data = b.data
    BY DEF Hasher
  <2> HIDE DEF a, b
  <2>3. \A x \in D : a[x] = b[x]
    BY <2>2
  <2>4. a = b
    BY <2>1, <2>3
  <2> QED
    BY <2>4 DEF a, b
<1> QED
  BY <1>1, <1>2 DEF Hasher, d

\* The peripheral works on context c, known as k: it has absorbed data and looks ahead at pending.
Holds(h, c, k, data, pending) ==
    /\ HashOk(h) /\ ~h.finalised
    /\ h.pending = pending /\ h.hasher = Hasher(k.algo, data) /\ h.phase = MessagePhase(k)
    /\ k.hmac => h.outer = Outer(c, k)

\* It has the full words of c but the last, which it looks ahead at.
Pending(c, k) == IF k.words = 0 THEN <<>> ELSE <<Word(c, k.words)>>
FedWords(k) == IF k.words = 0 THEN 0 ELSE k.words - 1
HasLoaded(h, c, k) == Holds(h, c, k, Absorbed(c, k, FedWords(k)), Pending(c, k))

\* The snapshot has the same.
Snapshot(h, c, k) ==
    /\ h.saved.on /\ h.savedpending = Pending(c, k)
    /\ h.saved.hasher = Hasher(k.algo, Absorbed(c, k, FedWords(k)))
    /\ h.saved.phase = MessagePhase(k)
    /\ k.hmac => h.saved.outer = Outer(c, k)

\* The word that was looked at is absorbed.
LEMMA PendingFed ==
    ASSUME NEW h, NEW c, NEW k, NEW data, NEW w, NEW v, Holds(h, c, k, data, <<w>>)
    PROVE  /\ h.pending[1] = w /\ h.pending # <<>>
           /\ Holds(feed_word(h, w, v), c, k, Append(data, Item(w, v)), <<w>>)
<1> DEFINE g == [h EXCEPT !.hasher = Hasher(k.algo, Append(data, Item(w, v)))]
<1>1. h.phase \notin {"Key1", "Key2"} /\ h.hasher.on
  BY Absorbs DEF Holds, MessagePhase
<1>2. feed_word(h, w, v) = g
  <2>1. absorb(h.hasher, Item(w, v)) = Hasher(k.algo, Append(data, Item(w, v)))
    BY Absorbs DEF Holds
  <2>2. feed_word(h, w, v) = [h EXCEPT !.hasher = absorb(h.hasher, Item(w, v))]
    BY <1>1 DEF feed_word, Item, Holds
  <2> QED
    BY <2>1, <2>2
<1>3. HashOk(g)
  BY <1>2, FeedIsOk DEF Holds
<1>4. /\ g.finalised = h.finalised /\ g.pending = h.pending /\ g.phase = h.phase
      /\ g.outer = h.outer /\ g.hasher = Hasher(k.algo, Append(data, Item(w, v)))
  BY DEF Holds, HashOk
<1> HIDE DEF g
<1>5. h.pending[1] = w /\ h.pending # <<>>
  BY DEF Holds
<1> QED
  BY <1>2, <1>3, <1>4, <1>5 DEF Holds

\* A word is written.
LEMMA DinHolds ==
    ASSUME NEW h, NEW c, NEW k, NEW data, NEW x
    PROVE  /\ Holds(h, c, k, data, <<>>) => Holds(write_din(h, x), c, k, data, <<x>>)
           /\ \A w : Holds(h, c, k, data, <<w>>) =>
                        Holds(write_din(h, x), c, k, Append(data, Item(w, 4)), <<x>>)
<1>1. ASSUME NEW g, NEW d, NEW p, Holds(g, c, k, d, p)
      PROVE  Holds([g EXCEPT !.pending = <<x>>], c, k, d, <<x>>)
  <2> DEFINE f == [g EXCEPT !.pending = <<x>>]
  <2>1. /\ HashOk(f) /\ f.finalised = g.finalised /\ f.pending = <<x>> /\ f.phase = g.phase
        /\ f.outer = g.outer /\ f.hasher = g.hasher
    BY <1>1 DEF Holds, HashOk
  <2> HIDE DEF f
  <2> QED
    BY <1>1, <2>1 DEF Holds, f
<1>2. ASSUME Holds(h, c, k, data, <<>>)
      PROVE  Holds(write_din(h, x), c, k, data, <<x>>)
  <2>1. write_din(h, x) = [h EXCEPT !.pending = <<x>>]
    BY <1>2 DEF write_din, Holds
  <2> QED
    BY <1>1, <1>2, <2>1
<1>3. ASSUME NEW w, Holds(h, c, k, data, <<w>>)
      PROVE  Holds(write_din(h, x), c, k, Append(data, Item(w, 4)), <<x>>)
  <2>1. /\ h.pending[1] = w /\ h.pending # <<>>
        /\ Holds(feed_word(h, w, 4), c, k, Append(data, Item(w, 4)), <<w>>)
    BY <1>3, PendingFed
  <2>2. write_din(h, x) = [feed_word(h, w, 4) EXCEPT !.pending = <<x>>]
    BY <2>1 DEF write_din
  <2> QED
    BY <1>1, <2>1, <2>2
<1> QED
  BY <1>2, <1>3

\* The next full word of a context that is loaded.
LEMMA WordWritten ==
    ASSUME NEW h, NEW c, NEW k, k.words \in Nat, HasLoaded(h, c, k)
    PROVE  Holds(write_din(h, Word(c, k.words + 1)), c, k, Absorbed(c, k, k.words),
                 <<Word(c, k.words + 1)>>)
<1>1. CASE k.words = 0
  BY <1>1, DinHolds DEF HasLoaded, Pending, FedWords
<1>2. CASE k.words # 0
  <2>1. Holds(h, c, k, Absorbed(c, k, k.words - 1), <<Word(c, k.words)>>)
    BY <1>2 DEF HasLoaded, Pending, FedWords
  <2>2. k.words - 1 \in Nat /\ (k.words - 1) + 1 = k.words
    BY <1>2
  <2>3. Append(Absorbed(c, k, k.words - 1), Item(Word(c, k.words), 4)) = Absorbed(c, k, k.words)
    BY <2>2, AbsorbedGrows
  <2> QED
    BY <2>1, <2>3, DinHolds
<1> QED
  BY <1>1, <1>2

\* A context that is loaded is in the snapshot once it is saved.
LEMMA SavesContext ==
    ASSUME NEW h, NEW c, NEW k, HasLoaded(h, c, k)
    PROVE  Snapshot(read_csr(h), c, k)
<1>1. h.hasher.on /\ HashOk(h)
  BY Absorbs DEF HasLoaded, Holds
<1> DEFINE s == [on |-> TRUE, hasher |-> h.hasher, phase |-> h.phase, key |-> h.key, outer |-> h.outer]
<1>2. read_csr(h) = [[h EXCEPT !.saved = s] EXCEPT !.savedpending = h.pending]
  BY <1>1 DEF read_csr, capture_snapshot
<1>3. s.on /\ s.hasher = h.hasher /\ s.phase = h.phase /\ s.outer = h.outer
  OBVIOUS
<1> HIDE DEF s
<1>4. read_csr(h).saved = s /\ read_csr(h).savedpending = h.pending
  BY <1>1, <1>2 DEF HashOk
<1> QED
  BY <1>3, <1>4 DEF HasLoaded, Holds, Snapshot

\* A context that is in the snapshot is loaded from there, and the snapshot stays.
LEMMA LoadsContext ==
    ASSUME HashOk(hash), NEW c, NEW algo, NEW hmac, ctx[c].used, Snapshot(hash, c, ctx[c])
    PROVE  /\ HasLoaded(Load(c, algo, hmac), c, ctx[c])
           /\ SameSnapshot(hash, Load(c, algo, hmac))
<1> DEFINE h == write_str(hash)
           g == load_snapshot(h)
           l == [g EXCEPT !.strw = FALSE]
<1>1. HashOk(h) /\ SameSnapshot(hash, h) /\ h.strw
  BY StrIsOk DEF HashOk, write_str
<1>2. Load(c, algo, hmac) = l
  BY <1>1 DEF Load, write_cr, Snapshot, SameSnapshot
<1> HIDE DEF h
<1>3. /\ HashOk(l) /\ SameSnapshot(h, l) /\ ~l.finalised /\ l.pending = h.savedpending
      /\ l.hasher = h.saved.hasher /\ l.phase = h.saved.phase /\ l.outer = h.saved.outer
  <2>1. h.saved.on
    BY <1>1 DEF Snapshot, SameSnapshot
  <2> QED
    BY <1>1, <2>1 DEF HashOk, SameSnapshot, load_snapshot, restore_from_snapshot
<1> HIDE DEF l
<1> QED
  BY <1>1, <1>2, <1>3 DEF Snapshot, SameSnapshot, HasLoaded, Holds

Initialised(h, algo, hmac) ==
    /\ HashOk(h) /\ ~h.finalised /\ h.pending = <<>> /\ h.hasher = Hasher(algo, <<>>)
    /\ h.algo = algo /\ h.key = <<>> /\ h.phase = IF hmac THEN "Key1" ELSE "Off"

\* A new context is initialised, and not taken for one being loaded, unless STR was written since.
LEMMA StartsContext ==
    ASSUME HashOk(hash), ~hash.strw, NEW c, NEW algo, NEW hmac \in BOOLEAN, ~ctx[c].used
    PROVE  Initialised(Load(c, algo, hmac), algo, hmac)
<1> DEFINE i == init_with_mode(hash, algo, hmac)
           l == write_str([[i EXCEPT !.pending = <<>>] EXCEPT !.strw = FALSE])
<1>1. Load(c, algo, hmac) = l
  BY DEF Load, write_cr
<1>2. HashOk(l)
  BY <1>1, LoadIsOk
<1>3. /\ i.finalised = FALSE /\ i.hasher = Hasher(algo, <<>>) /\ i.algo = algo
      /\ i.key = <<>> /\ i.phase = IF hmac THEN "Key1" ELSE "Off"
      /\ i = [f \in {"strw", "pending", "savedpending", "algo", "hasher", "finalised", "result",
                      "phase", "key", "outer", "saved"} |-> i[f]]
  BY DEF HashOk, init_with_mode, fresh_hasher, Hasher
<1> HIDE DEF i
<1>4. /\ l.finalised = i.finalised /\ l.pending = <<>> /\ l.hasher = i.hasher /\ l.algo = i.algo
      /\ l.key = i.key /\ l.phase = i.phase
  BY <1>3 DEF write_str
<1> HIDE DEF l
<1> QED
  BY <1>1, <1>2, <1>3, <1>4 DEF Initialised

\* Before the first word, only an HMAC has absorbed anything: its key.
LEMMA NothingAbsorbed ==
    ASSUME NEW c, NEW k
    PROVE  /\ k.hmac => Absorbed(c, k, 0) = <<[ipad |-> KeyOf(c)]>>
           /\ ~k.hmac => Absorbed(c, k, 0) = <<>>
<1>1. Full(c, 0) = <<>>
  BY FullIsSeq, EmptySeq
<1>2. <<[ipad |-> KeyOf(c)]>> \in Seq({[ipad |-> KeyOf(c)]}) /\ <<>> \in Seq({[ipad |-> KeyOf(c)]})
  BY EmptySeq
<1>3. <<[ipad |-> KeyOf(c)]>> \o <<>> = <<[ipad |-> KeyOf(c)]>> /\ <<>> \o <<>> = <<>>
  BY <1>2, ConcatEmptySeq
<1> QED
  BY <1>1, <1>3 DEF Absorbed, Keyed, Prefix

\* A plain digest begins.
LEMMA StartsPlain ==
    ASSUME HashOk(hash), ~hash.strw, NEW c, NEW algo, ~ctx[c].used
    PROVE  HasLoaded(Load(c, algo, FALSE), c, Known(c, algo, FALSE))
<1> DEFINE k == Known(c, algo, FALSE)
<1>1. k.words = 0 /\ k.hmac = FALSE /\ k.algo = algo
  BY DEF Known
<1> HIDE DEF k
<1>2. Absorbed(c, k, 0) = <<>>
  BY <1>1, NothingAbsorbed
<1>3. Initialised(Load(c, algo, FALSE), algo, FALSE)
  BY StartsContext
<1>4. HasLoaded(Load(c, algo, FALSE), c, k)
  BY <1>1, <1>2, <1>3 DEF Initialised, HasLoaded, Holds, Pending, FedWords, MessagePhase
<1> QED
  BY <1>4 DEF k

\* An HMAC begins: its key is written and finished.
LEMMA StartsHmac ==
    ASSUME HashOk(hash), ~hash.strw, NEW c, NEW algo, ~ctx[c].used
    PROVE  HasLoaded(write_dcal(write_din(Load(c, algo, TRUE), KeyWord(c)), 0), c, Known(c, algo, TRUE))
<1> DEFINE k == Known(c, algo, TRUE)
           h == Load(c, algo, TRUE)
           d == [h EXCEPT !.pending = <<KeyWord(c)>>]
           e == [d EXCEPT !.key = KeyOf(c)]
           f == hmac_finish_key1(e)
           g == [f EXCEPT !.pending = <<>>, !.strw = FALSE]
<1>1. k.words = 0 /\ k.hmac = TRUE /\ k.algo = algo
  BY DEF Known
<1> HIDE DEF k
<1>2. /\ HashOk(h) /\ ~h.finalised /\ h.pending = <<>> /\ h.algo = algo /\ h.key = <<>>
      /\ h.phase = "Key1"
  <2>1. Initialised(h, algo, TRUE)
    BY StartsContext
  <2> HIDE DEF h
  <2> QED
    BY <2>1 DEF Initialised
<1> HIDE DEF h
<1>3. write_din(h, KeyWord(c)) = d
  BY <1>2 DEF write_din
<1>4. /\ HashOk(d) /\ ~d.finalised /\ d.pending = <<KeyWord(c)>> /\ d.algo = algo /\ d.key = <<>>
      /\ d.phase = "Key1" /\ d.pending # <<>> /\ d.pending[1] = KeyWord(c)
  BY <1>2 DEF HashOk
<1> HIDE DEF d
<1>5. feed_word(d, KeyWord(c), 4) = e
  <2>1. Append(<<>>, Item(KeyWord(c), 4)) = KeyOf(c)
    BY DEF Item, KeyOf
  <2>2. feed_word(d, KeyWord(c), 4) = [d EXCEPT !.key = Append(d.key, Item(KeyWord(c), 4))]
    BY <1>4 DEF feed_word, Item
  <2> QED
    BY <1>4, <2>1, <2>2
<1>6. HashOk(e) /\ ~e.finalised /\ e.algo = algo /\ e.key = KeyOf(c) /\ e.phase = "Key1"
  BY <1>4 DEF HashOk
<1> HIDE DEF e
<1>7. valid_bytes(0) = 4
  BY DEF valid_bytes
<1>8. write_dcal(d, 0) = g
  BY <1>4, <1>5, <1>6, <1>7 DEF write_dcal, finalize
<1>9. HashOk(f)
  <2>1. finalize(e) = f
    BY <1>6 DEF finalize
  <2> QED
    BY <1>6, <2>1, FinalizeIsOk
<1>10. /\ f.hasher = Hasher(algo, <<[ipad |-> KeyOf(c)]>>) /\ f.outer = Hasher(algo, <<[opad |-> KeyOf(c)]>>)
       /\ f.phase = "Msg" /\ f.finalised = e.finalised
  <2>1. ASSUME NEW item PROVE absorb(fresh_hasher(algo), item) = Hasher(algo, <<item>>)
    <3>1. fresh_hasher(algo) = Hasher(algo, <<>>) /\ Append(<<>>, item) = <<item>>
      BY DEF fresh_hasher, Hasher
    <3>2. absorb(Hasher(algo, <<>>), item) = Hasher(algo, Append(<<>>, item))
      BY Absorbs
    <3> QED
      BY <3>1, <3>2, Zenon
  <2> DEFINE a == absorb(fresh_hasher(algo), [ipad |-> KeyOf(c)])
             b == absorb(fresh_hasher(algo), [opad |-> KeyOf(c)])
  <2>2. a = Hasher(algo, <<[ipad |-> KeyOf(c)]>>) /\ b = Hasher(algo, <<[opad |-> KeyOf(c)]>>)
    BY <2>1
  <2>3. f = [e EXCEPT !.hasher = a, !.outer = b, !.phase = "Msg", !.key = <<>>]
    BY <1>6 DEF hmac_finish_key1
  <2> HIDE DEF a, b
  <2>4. f.hasher = a /\ f.outer = b /\ f.phase = "Msg" /\ f.finalised = e.finalised
    BY <1>6, <2>3 DEF HashOk
  <2> QED
    BY <2>2, <2>4
<1> HIDE DEF f
<1>11. /\ HashOk(g) /\ g.pending = <<>> /\ g.hasher = f.hasher /\ g.outer = f.outer
       /\ g.phase = f.phase /\ g.finalised = f.finalised
  BY <1>9 DEF HashOk
<1> HIDE DEF g
<1>12. HasLoaded(g, c, k)
  <2>1. Absorbed(c, k, FedWords(k)) = <<[ipad |-> KeyOf(c)]>> /\ Pending(c, k) = <<>>
    BY <1>1, NothingAbsorbed DEF FedWords, Pending
  <2> QED
    BY <1>1, <1>6, <1>10, <1>11, <2>1 DEF HasLoaded, Holds, MessagePhase, Outer
<1> QED
  BY <1>3, <1>8, <1>12 DEF h, k

\* Context c in state g, before it is finalised, with all of its message absorbed.
Ending(g, h, c, k, tail) ==
    /\ Holds(g, c, k, Keyed(c, k, Message(c, k, tail)), g.pending)
    /\ EndMessage(h, c, k, tail) = [finalize(g) EXCEPT !.pending = <<>>, !.strw = FALSE]

\* The message of a context that holds all but the word it looks at, ended by DCAL.
LEMMA EndsMessage ==
    ASSUME NEW h, NEW c, NEW k, k.words \in Nat, HasLoaded(h, c, k), NEW tail \in {0, 3}
    PROVE  \E g : Ending(g, h, c, k, tail)
<1>1. valid_bytes(8 * 0) = 4 /\ valid_bytes(8 * 3) = 3
  BY DEF valid_bytes
<1>2. CASE tail = 0 /\ k.words = 0
  <2>1. Holds(h, c, k, Keyed(c, k, Message(c, k, 0)), <<>>)
    BY <1>2, AbsorbedIsMessage DEF HasLoaded, Pending, FedWords
  <2>2. h.pending = <<>>
    BY <2>1 DEF Holds
  <2>3. EndMessage(h, c, k, tail) = [finalize(h) EXCEPT !.pending = <<>>, !.strw = FALSE]
    BY <1>2, <2>2 DEF EndMessage, write_dcal
  <2> QED
    BY <1>2, <2>1, <2>2, <2>3 DEF Ending
<1>3. CASE tail = 0 /\ k.words # 0
  <2> DEFINE w == Word(c, k.words)
             g == feed_word(h, w, 4)
  <2>1. Holds(h, c, k, Absorbed(c, k, k.words - 1), <<w>>)
    BY <1>3 DEF HasLoaded, Pending, FedWords
  <2>2. k.words - 1 \in Nat /\ (k.words - 1) + 1 = k.words
    BY <1>3
  <2>3. Append(Absorbed(c, k, k.words - 1), Item(w, 4)) = Absorbed(c, k, k.words)
    BY <2>2, AbsorbedGrows
  <2> HIDE DEF w
  <2>4. h.pending[1] = w /\ h.pending # <<>> /\ Holds(g, c, k, Absorbed(c, k, k.words), <<w>>)
    <3> DEFINE data == Absorbed(c, k, k.words - 1)
    <3>1. Holds(h, c, k, data, <<w>>)
      BY <2>1
    <3> HIDE DEF data
    <3>2. h.pending[1] = w /\ h.pending # <<>> /\ Holds(g, c, k, Append(data, Item(w, 4)), <<w>>)
      BY <3>1, PendingFed
    <3> QED
      BY <2>3, <3>2 DEF data
  <2>5. EndMessage(h, c, k, tail) = [finalize(g) EXCEPT !.pending = <<>>, !.strw = FALSE]
    BY <1>1, <1>3, <2>4 DEF EndMessage, write_dcal
  <2>6. Holds(g, c, k, Keyed(c, k, Message(c, k, tail)), g.pending)
    BY <1>3, <2>4, AbsorbedIsMessage DEF Holds
  <2> QED
    BY <2>5, <2>6 DEF Ending
<1>4. CASE tail = 3
  <2> DEFINE w == Word(c, k.words + 1)
             d == write_din(h, w)
             g == feed_word(d, w, 3)
  <2>1. Holds(d, c, k, Absorbed(c, k, k.words), <<w>>)
    BY WordWritten
  <2>2. Append(Absorbed(c, k, k.words), Item(w, 3)) = Keyed(c, k, Message(c, k, 3))
    BY AbsorbedIsMessage
  <2>3. EndMessage(h, c, k, tail) = write_dcal(d, 8 * 3)
    BY <1>4 DEF EndMessage
  <2> HIDE DEF w, d
  <2>4. d.pending[1] = w /\ d.pending # <<>> /\ Holds(g, c, k, Keyed(c, k, Message(c, k, 3)), <<w>>)
    <3> DEFINE data == Absorbed(c, k, k.words)
    <3>1. Holds(d, c, k, data, <<w>>)
      BY <2>1
    <3> HIDE DEF data
    <3>2. d.pending[1] = w /\ d.pending # <<>> /\ Holds(g, c, k, Append(data, Item(w, 3)), <<w>>)
      BY <3>1, PendingFed
    <3> QED
      BY <2>2, <3>2 DEF data
  <2>5. EndMessage(h, c, k, tail) = [finalize(g) EXCEPT !.pending = <<>>, !.strw = FALSE]
    BY <1>1, <2>3, <2>4 DEF write_dcal
  <2>6. Holds(g, c, k, Keyed(c, k, Message(c, k, tail)), g.pending)
    BY <1>4, <2>4 DEF Holds
  <2> QED
    BY <2>5, <2>6 DEF Ending
<1> QED
  BY <1>2, <1>3, <1>4

\* The digest of a context that is loaded is the one its driver expects.
LEMMA DigestsContext ==
    ASSUME NEW h, NEW c, NEW k, k.words \in Nat, k.hmac \in BOOLEAN, HasLoaded(h, c, k),
           NEW tail \in {0, 3}
    PROVE  read_hr(Digested(h, c, k, tail)) = Expected(c, k, tail)
<1> DEFINE m == EndMessage(h, c, k, tail)
           data == Keyed(c, k, Message(c, k, tail))
<1>0. PICK g : Ending(g, h, c, k, tail)
  BY EndsMessage
<1>1. Holds(g, c, k, data, g.pending) /\ m = [finalize(g) EXCEPT !.pending = <<>>, !.strw = FALSE]
  BY <1>0 DEF Ending
<1> HIDE DEF m
<1>2. HashOk(g) /\ ~g.finalised /\ g.hasher = Hasher(k.algo, data) /\ g.hasher.on
  BY <1>1, Absorbs DEF Holds
<1>3. CASE ~k.hmac
  <2>1. data = Message(c, k, tail)
    BY <1>3, AbsorbedIsMessage DEF Keyed, Prefix
  <2>2. Expected(c, k, tail) = Hasher(k.algo, data)
    BY <1>3, <2>1 DEF Expected, Hasher
  <2>3. g.phase = "Off"
    BY <1>1, <1>3 DEF Holds, MessagePhase
  <2> DEFINE f == [g EXCEPT !.result = g.hasher, !.finalised = TRUE]
  <2>4. finalize(g) = f
    BY <1>2, <2>3 DEF finalize, finalize_plain
  <2>5. f.result = g.hasher /\ f.finalised /\ HashOk(f)
    BY <1>2 DEF HashOk
  <2> HIDE DEF f, data
  <2>6. m.result = g.hasher /\ m.finalised
    BY <1>1, <2>4, <2>5 DEF HashOk
  <2>7. Digested(h, c, k, tail) = m
    BY <1>3 DEF Digested, m
  <2> QED
    BY <1>2, <2>2, <2>6, <2>7 DEF read_hr
<1>4. CASE k.hmac
  <2> DEFINE inner == Hasher(k.algo, data)
             full == Hasher(k.algo, <<[opad |-> KeyOf(c)], [inner |-> inner]>>)
             f == [g EXCEPT !.hasher = full, !.outer = NoHasher, !.phase = "Key2"]
             e == [m EXCEPT !.pending = <<KeyWord(c)>>]
  <2>1. data = <<[ipad |-> KeyOf(c)]>> \o Message(c, k, tail)
    BY <1>4 DEF Keyed, Prefix
  <2>2. Expected(c, k, tail) = full
    BY <1>4, <2>1 DEF Expected, Hasher, KeyOf
  <2>3. g.phase = "Msg" /\ g.outer = Outer(c, k) /\ g.outer.on
    BY <1>1, <1>4, Absorbs DEF Holds, MessagePhase, Outer
  <2> HIDE DEF data
  <2>4. absorb(g.outer, [inner |-> g.hasher]) = full
    <3>1. Append(<<[opad |-> KeyOf(c)]>>, [inner |-> inner]) = <<[opad |-> KeyOf(c)], [inner |-> inner]>>
      <4>1. ASSUME NEW x, NEW y PROVE Append(<<x>>, y) = <<x, y>>
        <5> DEFINE S == {x, y}
                   a == Append(<<x>>, y)
                   b == <<x, y>>
        <5>1. <<x>> \in Seq(S) /\ Len(<<x>>) = 1 /\ <<x>>[1] = x /\ y \in S
          OBVIOUS
        <5>2. b \in Seq(S) /\ Len(b) = 2 /\ b[1] = x /\ b[2] = y
          OBVIOUS
        <5>3. a \in Seq(S) /\ Len(a) = 2 /\ a[1] = x /\ a[2] = y
          BY <5>1, AppendProperties
        <5> HIDE DEF a, b
        <5>4. \A i \in 1..Len(a) : a[i] = b[i]
          BY <5>2, <5>3
        <5>5. a = b
          BY <5>2, <5>3, <5>4, SeqEqual
        <5> QED
          BY <5>5 DEF a, b
      <4> QED
        BY <4>1
    <3>2. absorb(g.outer, [inner |-> g.hasher])
            = Hasher(k.algo, Append(<<[opad |-> KeyOf(c)]>>, [inner |-> inner]))
      BY <1>2, <2>3, Absorbs DEF Outer
    <3> QED
      BY <3>1, <3>2
  <2>5. full.on
    BY Absorbs
  <2> HIDE DEF full
  <2>6. finalize(g) = f
    <3>1. finalize(g) = hmac_finish_msg(g)
      BY <1>2, <2>3 DEF finalize
    <3> QED
      BY <1>2, <2>3, <2>4, <3>1 DEF hmac_finish_msg
  <2>7. HashOk(f) /\ f.hasher = full /\ f.phase = "Key2" /\ ~f.finalised
    BY <1>2 DEF HashOk, Phases
  <2> HIDE DEF f
  <2>8. HashOk(m) /\ m.hasher = full /\ m.phase = "Key2" /\ ~m.finalised /\ m.pending = <<>>
    BY <1>1, <2>6, <2>7 DEF HashOk
  <2>9. write_din(m, KeyWord(c)) = e
    BY <2>8 DEF write_din
  <2>10. HashOk(e) /\ e.hasher = full /\ e.phase = "Key2" /\ ~e.finalised
    BY <2>8 DEF HashOk
  <2> HIDE DEF e
  <2>11. feed_word(e, e.pending[1], valid_bytes(0)) = e
    BY <2>10 DEF feed_word
  <2> DEFINE r == [e EXCEPT !.result = e.hasher, !.finalised = TRUE, !.phase = "Off"]
  <2>12. finalize(e) = r
    BY <2>5, <2>10 DEF finalize, hmac_finish_key2
  <2>13. HashOk(r) /\ r.result = full /\ r.finalised
    BY <2>10 DEF HashOk, Phases
  <2> HIDE DEF r
  <2>14. write_dcal(e, 0) = [r EXCEPT !.pending = <<>>, !.strw = FALSE]
    BY <2>11, <2>12 DEF write_dcal
  <2>15. write_dcal(e, 0).result = full /\ write_dcal(e, 0).finalised
    BY <2>13, <2>14 DEF HashOk
  <2>16. Digested(h, c, k, tail) = write_dcal(e, 0)
    BY <1>4, <2>9 DEF Digested, m
  <2> QED
    BY <2>2, <2>15, <2>16 DEF read_hr
<1> QED
  BY <1>3, <1>4

\* A context in use.
Context(k) ==
    /\ k = [f \in {"used", "algo", "hmac", "words", "alone"} |-> k[f]]
    /\ k.used /\ k.hmac \in BOOLEAN /\ k.words \in Nat /\ k.alone \in BOOLEAN

\* The contexts of the driver.  One that is alone is the one in the snapshot.
ContextsOk(h, x) ==
    /\ x = [c \in Contexts |-> x[c]]
    /\ \A c \in Contexts : x[c] = Unused \/ Context(x[c])
    /\ \A c \in Contexts : x[c].used /\ x[c].alone => Snapshot(h, c, x[c])

\* With no context in use, and none given up, the next CR is not taken for a load.
Ready == ~left /\ (\A c \in Contexts : ~ctx[c].used) => ~hash.strw

HashInv ==
    /\ HashOk(hash) /\ ContextsOk(hash, ctx) /\ left \in BOOLEAN
    /\ Ready /\ DigestIsOwn

\* After a step of context c the others are not alone.
LEMMA TouchedOk ==
    ASSUME ContextsOk(hash, ctx), NEW c \in Contexts, NEW h, NEW k,
           k = Unused \/ (Context(k) /\ (k.alone => Snapshot(h, c, k)))
    PROVE  ContextsOk(h, Touched(c, k)) /\ Touched(c, k)[c] = k
<1> DEFINE x == Touched(c, k)
<1>1. x = [d \in Contexts |-> x[d]] /\ x[c] = k
  BY DEF Touched
<1>2. ASSUME NEW d \in Contexts, d # c
      PROVE  (x[d] = Unused \/ Context(x[d])) /\ ~(x[d].used /\ x[d].alone)
  <2>1. x[d] = IF ctx[d].used THEN [ctx[d] EXCEPT !.alone = FALSE] ELSE ctx[d]
    BY <1>2 DEF Touched
  <2>2. CASE Context(ctx[d])
    <3> DEFINE g == [ctx[d] EXCEPT !.alone = FALSE]
    <3>1. Context(g) /\ ~g.alone
      BY <2>2 DEF Context
    <3> QED
      BY <2>1, <2>2, <3>1 DEF Context
  <2>3. CASE ctx[d] = Unused
    BY <2>1, <2>3 DEF Unused
  <2> QED
    BY <2>2, <2>3 DEF ContextsOk
<1>3. ~Unused.used
  BY DEF Unused
<1> HIDE DEF x
<1>4. \A d \in Contexts : x[d] = Unused \/ Context(x[d])
  BY <1>1, <1>2
<1>5. \A d \in Contexts : x[d].used /\ x[d].alone => Snapshot(h, d, x[d])
  BY <1>1, <1>2, <1>3
<1> QED
  BY <1>1, <1>4, <1>5 DEF ContextsOk, x

\* A step that leaves the snapshot registers alone leaves a context's snapshot in them.
LEMMA SnapshotStays ==
    ASSUME NEW h, NEW g, NEW c, NEW k, Snapshot(h, c, k), SameSnapshot(h, g)
    PROVE  Snapshot(g, c, k)
BY DEF Snapshot, SameSnapshot

\* A context that is used while it is alone is the one that the peripheral works on.
LEMMA KnownIsLoaded ==
    ASSUME HashInv, NEW c \in Contexts, NEW algo
    PROVE  /\ Context(Known(c, algo, FALSE))
           /\ Known(c, algo, FALSE).alone =>
                 HasLoaded(Load(c, algo, FALSE), c, Known(c, algo, FALSE))
<1> DEFINE k == Known(c, algo, FALSE)
<1>1. CASE ctx[c].used
  <2>1. k = ctx[c] /\ Context(ctx[c])
    BY <1>1 DEF Known, HashInv, ContextsOk, Unused
  <2>2. ctx[c].alone => Snapshot(hash, c, ctx[c])
    BY <1>1 DEF HashInv, ContextsOk
  <2>3. ctx[c].alone => HasLoaded(Load(c, algo, FALSE), c, ctx[c])
    BY <1>1, <2>2, LoadsContext DEF HashInv
  <2> QED
    BY <2>1, <2>3
<1>2. CASE ~ctx[c].used
  <2>1. Context(k) /\ k.alone = (~left /\ \A d \in Contexts \ {c} : ~ctx[d].used)
    BY <1>2 DEF Known, Context, HashInv
  <2>2. k.alone => ~hash.strw
    BY <1>2, <2>1 DEF HashInv, Ready
  <2>3. ~hash.strw => HasLoaded(Load(c, algo, FALSE), c, k)
    BY <1>2, StartsPlain DEF HashInv
  <2> QED
    BY <2>1, <2>2, <2>3
<1> QED
  BY <1>1, <1>2

\* A word more.
LEMMA UpdatesContext ==
    ASSUME NEW h, NEW c, NEW k, Context(k)
    PROVE  LET g == write_din(h, Word(c, k.words + 1))
               k1 == [k EXCEPT !.words = @ + 1]
           IN  /\ Context(k1) /\ k1.alone = k.alone
               /\ HasLoaded(h, c, k) => HasLoaded(g, c, k1)
<1> DEFINE g == write_din(h, Word(c, k.words + 1))
           k1 == [k EXCEPT !.words = @ + 1]
<1>1. Context(k1) /\ k1.alone = k.alone /\ k1.words = k.words + 1 /\ k1.hmac = k.hmac /\ k1.algo = k.algo
  BY DEF Context
<1> HIDE DEF k1
<1>2. ASSUME HasLoaded(h, c, k) PROVE HasLoaded(g, c, k1)
  <2>1. Holds(g, c, k, Absorbed(c, k, k.words), <<Word(c, k.words + 1)>>)
    BY <1>2, WordWritten DEF Context
  <2> HIDE DEF g
  <2>2. FedWords(k1) = k.words /\ Pending(c, k1) = <<Word(c, k.words + 1)>>
    BY <1>1 DEF FedWords, Pending, Context
  <2>3. Absorbed(c, k1, k.words) = Absorbed(c, k, k.words)
    BY <1>1 DEF Absorbed, Keyed, Prefix
  <2>4. Outer(c, k1) = Outer(c, k) /\ MessagePhase(k1) = MessagePhase(k)
    BY <1>1 DEF Outer, MessagePhase
  <2> QED
    BY <1>1, <2>1, <2>2, <2>3, <2>4 DEF HasLoaded, Holds
<1> QED
  BY <1>1, <1>2 DEF k1

\* The inductive invariant holds after reset.
LEMMA HashInvInit == HashInit => HashInv
<1> SUFFICES ASSUME HashInit PROVE HashInv
  OBVIOUS
<1>1. HashOk(hash) /\ ~hash.strw
  BY DEF HashInit, HashReset, HashOk, Phases, NoSnapshot
<1>2. ~Unused.used
  BY DEF Unused
<1>3. ContextsOk(hash, ctx)
  BY <1>2 DEF HashInit, ContextsOk
<1>4. left \in BOOLEAN /\ DigestIsOwn
  BY DEF HashInit, DigestIsOwn
<1> QED
  BY <1>1, <1>3, <1>4 DEF HashInv, Ready

\* Every operation of the driver keeps it.
LEMMA HashInvStep == HashInv /\ [HashNext]_hashvars => HashInv'
<1> SUFFICES ASSUME HashInv, [HashNext]_hashvars PROVE HashInv'
  OBVIOUS
<1>0. HashOk(hash) /\ ContextsOk(hash, ctx) /\ left \in BOOLEAN /\ DigestIsOwn
  BY DEF HashInv
<1>1. ASSUME NEW c \in Contexts, NEW algo \in Algos, SetKey(c, algo) PROVE HashInv'
  <2> DEFINE k == Known(c, algo, TRUE)
             g == write_dcal(write_din(Load(c, algo, TRUE), KeyWord(c)), 0)
  <2>1. ~ctx[c].used /\ hash' = read_csr(g) /\ ctx' = Touched(c, k) /\ left' = left /\ got' = got
    BY <1>1 DEF SetKey
  <2>2. HashOk(g)
    BY <1>0, LoadIsOk, DinIsOk, DcalIsOk
  <2>3. HashOk(hash')
    BY <2>1, <2>2, CsrIsOk
  <2>4. Context(k) /\ k.alone = (~left /\ \A d \in Contexts \ {c} : ~ctx[d].used)
    BY <1>0, <2>1 DEF Known, Context
  <2>5. k.alone => HasLoaded(g, c, k)
    BY <1>0, <2>1, <2>4, StartsHmac DEF HashInv, Ready
  <2> HIDE DEF k, g
  <2>6. k.alone => Snapshot(hash', c, k)
    BY <2>1, <2>5, SavesContext
  <2>7. ContextsOk(hash', ctx') /\ ctx'[c] = k
    BY <1>0, <2>1, <2>4, <2>6, TouchedOk
  <2>8. Ready'
    BY <2>4, <2>7 DEF Ready, Context
  <2> QED
    BY <1>0, <2>1, <2>3, <2>7, <2>8 DEF HashInv, DigestIsOwn
<1>2. ASSUME NEW c \in Contexts, NEW algo \in Algos, Update(c, algo) PROVE HashInv'
  <2> DEFINE k == Known(c, algo, FALSE)
             h == Load(c, algo, FALSE)
             g == write_din(h, Word(c, k.words + 1))
             k1 == [k EXCEPT !.words = @ + 1]
  <2>1. hash' = read_csr(g) /\ ctx' = Touched(c, k1) /\ left' = left /\ got' = got
    BY <1>2 DEF Update
  <2>2. HashOk(g)
    BY <1>0, LoadIsOk, DinIsOk
  <2>3. HashOk(hash')
    BY <2>1, <2>2, CsrIsOk
  <2>4. Context(k) /\ (k.alone => HasLoaded(h, c, k))
    BY KnownIsLoaded
  <2> HIDE DEF k, h
  <2>5. Context(k1) /\ k1.alone = k.alone /\ (HasLoaded(h, c, k) => HasLoaded(g, c, k1))
    BY <2>4, UpdatesContext
  <2> HIDE DEF k1, g
  <2>6. k1.alone => Snapshot(hash', c, k1)
    BY <2>1, <2>4, <2>5, SavesContext
  <2>7. ContextsOk(hash', ctx') /\ ctx'[c] = k1
    BY <1>0, <2>1, <2>5, <2>6, TouchedOk
  <2>8. Ready'
    BY <2>5, <2>7 DEF Ready, Context
  <2> QED
    BY <1>0, <2>1, <2>3, <2>7, <2>8 DEF HashInv, DigestIsOwn
<1>3. ASSUME NEW c \in Contexts, NEW tail \in {0, 3}, GetHash(c, tail) PROVE HashInv'
  <2> DEFINE k == ctx[c]
             l == Load(c, "none", FALSE)
             h == Digested(l, c, k, tail)
  <2>1. /\ k.used /\ hash' = h /\ ctx' = Touched(c, k) /\ left' = FALSE
        /\ got' = [alone |-> k.alone, right |-> read_hr(h) = Expected(c, k, tail)]
    BY <1>3 DEF GetHash, Answer
  <2>2. Context(k) /\ (k.alone => Snapshot(hash, c, k))
    BY <1>0, <2>1 DEF ContextsOk, Unused
  <2>3. HashOk(h) /\ SameSnapshot(l, h)
    BY <1>0, LoadIsOk, DigestedIsOk
  <2>4. k.alone => HasLoaded(l, c, k) /\ SameSnapshot(hash, l)
    BY <1>0, <2>1, <2>2, LoadsContext
  <2> HIDE DEF l, k
  <2>5. k.alone => read_hr(h) = Expected(c, k, tail)
    BY <2>2, <2>4, DigestsContext DEF Context
  <2> HIDE DEF h
  <2>6. k.alone => Snapshot(h, c, k)
    BY <2>2, <2>3, <2>4, SnapshotStays
  <2>7. ContextsOk(hash', ctx') /\ ctx'[c] = k
    BY <1>0, <2>1, <2>2, <2>6, TouchedOk
  <2>8. Ready'
    BY <2>2, <2>7 DEF Ready, Context
  <2>9. DigestIsOwn'
    BY <2>1, <2>5 DEF DigestIsOwn
  <2> QED
    BY <2>1, <2>3, <2>7, <2>8, <2>9 DEF HashInv
<1>4. ASSUME NEW c \in Contexts, NEW algo \in Algos, NEW tail \in {0, 3}, Final(c, algo, tail)
      PROVE  HashInv'
  <2> DEFINE k == Known(c, algo, FALSE)
             l == Load(c, algo, FALSE)
             h == Digested(l, c, k, tail)
  <2>1. /\ hash' = h /\ ctx' = Touched(c, Unused) /\ left' = FALSE
        /\ got' = [alone |-> k.alone, right |-> read_hr(h) = Expected(c, k, tail)]
    BY <1>4 DEF Final, Answer
  <2>2. HashOk(h) /\ ~h.strw
    BY <1>0, LoadIsOk, DigestedIsOk
  <2>3. Context(k) /\ (k.alone => HasLoaded(l, c, k))
    BY KnownIsLoaded
  <2>4. k.alone => read_hr(h) = Expected(c, k, tail)
    BY <2>3, DigestsContext DEF Context
  <2> HIDE DEF l, h, k
  <2>5. ContextsOk(hash', ctx')
    BY <1>0, <2>1, TouchedOk
  <2>6. Ready'
    BY <2>1, <2>2 DEF Ready
  <2>7. DigestIsOwn'
    BY <2>1, <2>4 DEF DigestIsOwn
  <2> QED
    BY <2>1, <2>2, <2>5, <2>6, <2>7 DEF HashInv
<1>5. ASSUME NEW c \in Contexts, Free(c) PROVE HashInv'
  <2>1. ctx' = [ctx EXCEPT ![c] = Unused] /\ left' = TRUE /\ hash' = hash /\ got' = got
    BY <1>5 DEF Free
  <2>2. ~Unused.used
    BY DEF Unused
  <2>3. ContextsOk(hash', ctx')
    BY <1>0, <2>1, <2>2 DEF ContextsOk
  <2> QED
    BY <1>0, <2>1, <2>3 DEF HashInv, Ready, DigestIsOwn
<1>6. CASE UNCHANGED hashvars
  BY <1>6 DEF hashvars, HashInv, Ready, DigestIsOwn
<1> QED
  BY <1>1, <1>2, <1>3, <1>4, <1>5, <1>6 DEF HashNext

\* A context that is alone on the HASH peripheral gets the digest or HMAC of its own message,
\* with the bytes of the tail that count, for messages of every length, however often it is
\* saved, loaded and read (hash/mod.rs, hash/v1.rs).
THEOREM DigestsAreOwn == HashSpec => []DigestIsOwn
<1>1. HashInv => DigestIsOwn
  BY DEF HashInv
<1> QED
  BY <1>1, HashInvInit, HashInvStep, PTL DEF HashSpec

-----------------------------------------------------------------------------
(***************************************************************************)
(* The output of the AES peripheral is that of the modes of operation.     *)
(***************************************************************************)
\* The words after the first m, and block n of the message, as they are written.
Run(type, m, r) == [i \in 1..r |-> swap(type, m + i)]
Block(type, n) == Words(Run(type, (n - 1) * BLOCK_WORDS, BLOCK_WORDS))

\* The words so far are a sequence.
LEMMA RunIsSequence ==
    ASSUME NEW type, NEW m \in Nat, NEW r \in Nat
    PROVE  /\ Run(type, m, r) \in Seq({swap(type, i) : i \in Nat}) /\ IsSequence(Run(type, m, r))
           /\ Len(Run(type, m, r)) = r
<1> DEFINE S == {swap(type, i) : i \in Nat}
           s == Run(type, m, r)
<1>1. s \in [1..r -> S]
  BY DEF Run
<1> HIDE DEF S, s
<1>2. s \in Seq(S)
  BY <1>1, SeqDef
<1>3. Len(s) = r
  BY <1>1, <1>2, LenProperties
<1> QED
  BY <1>2, <1>3 DEF IsSequence, S, s

\* As many as there are.
LEMMA RunLength ==
    ASSUME NEW type, NEW m \in Nat, NEW r \in Nat
    PROVE  Len(Run(type, m, r)) = r
BY RunIsSequence

\* One more word.
LEMMA RunGrows ==
    ASSUME NEW type, NEW m \in Nat, NEW r \in Nat
    PROVE  Append(Run(type, m, r), swap(type, m + (r + 1))) = Run(type, m, r + 1)
<1> DEFINE S == {swap(type, i) : i \in Nat}
           s == Run(type, m, r)
           t == Run(type, m, r + 1)
           x == swap(type, m + (r + 1))
           a == Append(s, x)
<1>0. r + 1 \in Nat
  OBVIOUS
<1>1. s \in Seq(S) /\ Len(s) = r
  BY RunIsSequence
<1>8. t \in Seq(S) /\ Len(t) = r + 1
  <2> DEFINE q == r + 1
  <2> HIDE DEF q
  <2>1. Run(type, m, q) \in Seq(S) /\ Len(Run(type, m, q)) = q
    BY <1>0, RunIsSequence DEF q
  <2> QED
    BY <2>1 DEF q
<1>2. x \in S
  OBVIOUS
<1>3. \A i \in 1..r : s[i] = t[i]
  BY DEF Run
<1>4. t[r + 1] = x
  BY DEF Run
<1> HIDE DEF S, s, t, x
<1>5. a \in Seq(S) /\ Len(a) = r + 1 /\ (\A i \in 1..r : a[i] = s[i]) /\ a[r + 1] = x
  BY <1>1, <1>2, AppendProperties
<1> HIDE DEF a
<1>6. \A i \in 1..(r + 1) : a[i] = t[i]
  BY <1>3, <1>4, <1>5
<1>7. a = t
  BY <1>5, <1>6, <1>8, SeqEqual
<1> QED
  BY <1>7 DEF a, s, t, x

\* Whole blocks and the words of the next one.
LEMMA BlocksAndWords ==
    ASSUME NEW n \in Nat, NEW r \in 0..(BLOCK_WORDS - 1)
    PROVE  /\ n * BLOCK_WORDS \in Nat
           /\ (n * BLOCK_WORDS + r) \div BLOCK_WORDS = n
           /\ (n * BLOCK_WORDS + r) % BLOCK_WORDS = r
<1> DEFINE w == BLOCK_WORDS
<1>0. w \in Nat \ {0}
  BY CrypAssumption
<1> HIDE DEF w
<1>1. n * w \in Nat
  BY <1>0
<1>2. (n * w + r) % w = r
  BY <1>0 DEF w
<1>3. (n * w + r) \div w = n
  BY <1>0 DEF w
<1> QED
  BY <1>1, <1>2, <1>3 DEF w

-----------------------------------------------------------------------------
\* A chain of cipher blocks; v is the last one of every chain of n blocks, and there is one.
IsChain(c, key, type, iv, n) ==
    c = [k \in 0..n |-> IF k = 0 THEN expand_iv(iv)
                        ELSE aes_encrypt_block(key, Xor(Block(type, k), c[k - 1]))]
Chained(key, type, iv, n, v) ==
    /\ \E c : IsChain(c, key, type, iv, n)
    /\ \A c : IsChain(c, key, type, iv, n) => c[n] = v

\* The chain of no blocks is the IV.
LEMMA ChainStarts ==
    ASSUME NEW key, NEW type, NEW iv
    PROVE  Chained(key, type, iv, 0, expand_iv(iv))
<1> DEFINE c == [k \in 0..0 |-> expand_iv(iv)]
<1>1. IsChain(c, key, type, iv, 0)
  BY DEF IsChain
<1>2. ASSUME NEW d, IsChain(d, key, type, iv, 0) PROVE d[0] = expand_iv(iv)
  BY <1>2 DEF IsChain
<1> QED
  BY <1>1, <1>2 DEF Chained

\* One more block.
LEMMA ChainGrows ==
    ASSUME NEW key, NEW type, NEW iv, NEW n \in Nat, NEW v, Chained(key, type, iv, n, v)
    PROVE  Chained(key, type, iv, n + 1, aes_encrypt_block(key, Xor(Block(type, n + 1), v)))
<1> DEFINE y == aes_encrypt_block(key, Xor(Block(type, n + 1), v))
<1>1. PICK c : IsChain(c, key, type, iv, n)
  BY DEF Chained
<1>2. c[n] = v
  BY <1>1 DEF Chained
<1> DEFINE d == [k \in 0..(n + 1) |-> IF k = n + 1 THEN y ELSE c[k]]
<1>3. /\ c = [k \in 0..n |-> c[k]] /\ c[0] = expand_iv(iv)
      /\ \A k \in 1..n : c[k] = aes_encrypt_block(key, Xor(Block(type, k), c[k - 1]))
  BY <1>1 DEF IsChain
<1>4. d = [k \in 0..(n + 1) |-> d[k]] /\ d[n + 1] = y /\ \A k \in 0..n : d[k] = c[k]
  OBVIOUS
<1> HIDE DEF d
<1>5. \A k \in 0..(n + 1) :
        d[k] = IF k = 0 THEN expand_iv(iv) ELSE aes_encrypt_block(key, Xor(Block(type, k), d[k - 1]))
  <2> SUFFICES ASSUME NEW k \in 0..(n + 1)
               PROVE  d[k] = IF k = 0 THEN expand_iv(iv)
                             ELSE aes_encrypt_block(key, Xor(Block(type, k), d[k - 1]))
    OBVIOUS
  <2>1. CASE k = 0
    BY <1>3, <1>4, <2>1
  <2>2. CASE k \in 1..n
    <3>0. k \in 0..n /\ k - 1 \in 0..n
      BY <2>2
    <3>1. d[k] = c[k] /\ d[k - 1] = c[k - 1]
      BY <1>4, <3>0
    <3> QED
      BY <1>3, <2>2, <3>1
  <2>3. CASE k = n + 1
    <3>0. k - 1 = n /\ k # 0 /\ n \in 0..n
      BY <2>3
    <3>1. k # 0 /\ d[k - 1] = v
      BY <1>2, <1>4, <3>0
    <3> QED
      BY <1>4, <2>3, <3>1
  <2> QED
    BY <2>1, <2>2, <2>3
<1>6. IsChain(d, key, type, iv, n + 1)
  BY <1>4, <1>5 DEF IsChain
<1>7. ASSUME NEW f, IsChain(f, key, type, iv, n + 1) PROVE f[n + 1] = y
  <2> DEFINE g == [k \in 0..n |-> f[k]]
  <2>1. \A k \in 0..(n + 1) :
          f[k] = IF k = 0 THEN expand_iv(iv) ELSE aes_encrypt_block(key, Xor(Block(type, k), f[k - 1]))
    BY <1>7 DEF IsChain
  <2>2. \A k \in 0..n : g[k] = f[k]
    OBVIOUS
  <2>3. g = [k \in 0..n |-> g[k]]
    OBVIOUS
  <2> HIDE DEF g
  <2>4. \A k \in 0..n :
          g[k] = IF k = 0 THEN expand_iv(iv) ELSE aes_encrypt_block(key, Xor(Block(type, k), g[k - 1]))
    BY <2>1, <2>2
  <2>5. IsChain(g, key, type, iv, n)
    BY <2>3, <2>4 DEF IsChain
  <2>6. f[n] = v
    BY <2>2, <2>5 DEF Chained
  <2>7. f[n + 1] = aes_encrypt_block(key, Xor(Block(type, n + 1), f[(n + 1) - 1]))
    BY <2>1
  <2> QED
    BY <2>6, <2>7
<1> QED
  BY <1>6, <1>7 DEF Chained

\* Nothing was fed but the words in order.
Counting(words) == words \in Seq(Nat) /\ \A i \in 1..Len(words) : words[i] = i

\* A word of a whole block is one that was fed.
LEMMA WordOfBlock ==
    ASSUME NEW n \in Nat, NEW k \in 1..n, NEW i \in 1..BLOCK_WORDS, NEW len \in Nat,
           n * BLOCK_WORDS <= len
    PROVE  (k - 1) * BLOCK_WORDS + i \in 1..len
<1> DEFINE w == BLOCK_WORDS
<1>0. w \in Nat \ {0}
  BY CrypAssumption
<1>1. PICK d \in Nat : n = (k - 1) + (d + 1)
  <2>1. n - k \in Nat /\ n = (k - 1) + ((n - k) + 1)
    OBVIOUS
  <2> QED
    BY <2>1
<1> DEFINE m == k - 1
<1>2. m \in Nat /\ n = m + (d + 1)
  BY <1>1
<1> HIDE DEF m, w
<1>3. n * w = ((m * w) + (d * w)) + w
  BY <1>0, <1>2
<1>4. m * w \in Nat /\ d * w \in Nat
  BY <1>0, <1>2
<1> DEFINE a == m * w
           b == d * w
<1> HIDE DEF a, b
<1>5. ((a + b) + w) <= len /\ i \in 1..w /\ a \in Nat /\ b \in Nat
  BY <1>3, <1>4 DEF a, b, w
<1>6. a + i \in 1..len
  BY <1>0, <1>5
<1> QED
  BY <1>6 DEF a, m, w

\* The blocks of the reference are those that were written.
LEMMA RefBlocks ==
    ASSUME Counting(job.fed), NEW n \in Nat, n * BLOCK_WORDS <= Len(job.fed), NEW k \in 1..n
    PROVE  RefBlock(k) = Block(cryp.cr.type, k)
<1>1. Len(job.fed) \in Nat
  BY LenProperties DEF Counting
<1>2. \A i \in 1..BLOCK_WORDS : job.fed[(k - 1) * BLOCK_WORDS + i] = (k - 1) * BLOCK_WORDS + i
  BY <1>1, WordOfBlock DEF Counting
<1> QED
  BY <1>2 DEF RefBlock, Block, Run

\* The chain of the reference is the chain.
LEMMA RefChain ==
    ASSUME Counting(job.fed), NEW n \in Nat, n * BLOCK_WORDS <= Len(job.fed), NEW v,
           Chained(expand_key(cryp.key, cryp.cr.size), cryp.cr.type, cryp.iv, n, v)
    PROVE  RefCbc(n) = v
<1> DEFINE key == expand_key(cryp.key, cryp.cr.size)
           type == cryp.cr.type
           iv == cryp.iv
           Ref(c) == c = [k \in 0..n |-> IF k = 0 THEN expand_iv(cryp.iv)
                            ELSE aes_encrypt_block(expand_key(cryp.key, cryp.cr.size),
                                                   Xor(RefBlock(k), c[k - 1]))]
           chain == CHOOSE c : Ref(c)
<1>1. RefCbc(n) = chain[n]
  BY DEF RefCbc
<1>2. ASSUME NEW c PROVE Ref(c) <=> IsChain(c, key, type, iv, n)
  <2>1. \A k \in 0..n :
            (IF k = 0 THEN expand_iv(iv) ELSE aes_encrypt_block(key, Xor(RefBlock(k), c[k - 1])))
          = (IF k = 0 THEN expand_iv(iv) ELSE aes_encrypt_block(key, Xor(Block(type, k), c[k - 1])))
    <3> SUFFICES ASSUME NEW k \in 0..n, k # 0 PROVE RefBlock(k) = Block(type, k)
      OBVIOUS
    <3>1. k \in 1..n
      OBVIOUS
    <3> QED
      BY <3>1, RefBlocks
  <2> QED
    BY <2>1 DEF IsChain
<1>3. \E c : Ref(c)
  BY <1>2 DEF Chained
<1> HIDE DEF Ref
<1>4. Ref(chain)
  BY <1>3
<1> QED
  BY <1>1, <1>2, <1>4 DEF Chained

\* Block b is what the mode of operation gives for block n.
IsOut(e, iv, n, b) ==
    /\ e.mode \in {"ECB", "CBC", "CTR"}
    /\ e.mode = "ECB" => b = IF e.dir = "enc" THEN aes_encrypt_block(e.key, Block(e.type, n))
                             ELSE aes_decrypt_block(e.key, Block(e.type, n))
    /\ e.mode = "CBC" /\ e.dir = "enc" => Chained(e.key, e.type, iv, n, b)
    /\ e.mode = "CBC" /\ e.dir # "enc" =>
         b = Xor(aes_decrypt_block(e.key, Block(e.type, n)),
                 IF n = 1 THEN expand_iv(iv) ELSE Block(e.type, n - 1))
    /\ e.mode = "CTR" => b = Xor(Block(e.type, n), aes_encrypt_block(e.key, Counter(iv, n - 1)))

\* The IV after n blocks.
IvAfter(e, iv, n) ==
    /\ e.mode = "CBC" /\ e.dir = "enc" => Chained(e.key, e.type, iv, n, e.iv)
    /\ e.mode = "CBC" /\ e.dir # "enc" => e.iv = IF n = 0 THEN expand_iv(iv) ELSE Block(e.type, n)
    /\ e.mode = "CTR" => e.iv = Counter(iv, n)

\* What the engine has for block n is what the reference says.
LEMMA OutIsReference ==
    ASSUME HasConfig(cryp), Counting(job.fed), NEW n \in Nat \ {0}, n * BLOCK_WORDS <= Len(job.fed),
           NEW b, IsOut(cryp.eng, cryp.iv, n, b)
    PROVE  Mode(cryp.cr) \in {"ECB", "CBC", "CTR"} /\ b = RefOutput(n)
<1>1. /\ cryp.eng.mode = Mode(cryp.cr) /\ cryp.eng.dir = Direction(cryp.cr)
      /\ cryp.eng.type = cryp.cr.type /\ cryp.eng.key = expand_key(cryp.key, cryp.cr.size)
  BY DEF HasConfig
<1>2. n \in 1..n /\ (n # 1 => n - 1 \in 1..n)
  OBVIOUS
<1>3. RefBlock(n) = Block(cryp.cr.type, n) /\ (n # 1 => RefBlock(n - 1) = Block(cryp.cr.type, n - 1))
  BY <1>2, RefBlocks
<1>4. CASE Mode(cryp.cr) = "ECB"
  BY <1>1, <1>3, <1>4 DEF IsOut, RefOutput
<1>5. CASE Mode(cryp.cr) = "CTR"
  BY <1>1, <1>3, <1>5 DEF IsOut, RefOutput
<1>6. CASE Mode(cryp.cr) = "CBC" /\ Direction(cryp.cr) = "enc"
  <2>1. Chained(expand_key(cryp.key, cryp.cr.size), cryp.cr.type, cryp.iv, n, b)
    BY <1>1, <1>6 DEF IsOut
  <2>2. RefCbc(n) = b
    BY <2>1, RefChain
  <2> QED
    BY <1>6, <2>2 DEF RefOutput
<1>7. CASE Mode(cryp.cr) = "CBC" /\ Direction(cryp.cr) # "enc"
  BY <1>1, <1>3, <1>7 DEF IsOut, RefOutput
<1> QED
  BY <1>1, <1>4, <1>5, <1>6, <1>7 DEF IsOut

-----------------------------------------------------------------------------
EngineFields == {"key", "iv", "size", "mode", "dir", "type", "enabled", "in", "out"}
IsEngine(e) == e = [f \in EngineFields |-> e[f]]

\* A block is processed.
LEMMA Processed ==
    ASSUME NEW e, IsEngine(e), NEW n \in Nat, NEW iv, IvAfter(e, iv, n),
           e.mode \in {"ECB", "CBC", "CTR", "KEY"}, Words(e.in) = Block(e.type, n + 1)
    PROVE  /\ IsEngine(process_block(e)) /\ SameConfig(e, process_block(e))
           /\ process_block(e).enabled = e.enabled /\ process_block(e).in = <<>>
           /\ IvAfter(process_block(e), iv, n + 1)
           /\ e.mode = "KEY" => process_block(e).out = e.out
           /\ e.mode # "KEY" => /\ process_block(e).out = Staged(process_block(e).out.block)
                                /\ IsOut(process_block(e), iv, n + 1, process_block(e).out.block)
<1> DEFINE x == Block(e.type, n + 1)
           Made(f, i, b) == f = [e EXCEPT !.iv = i, !.out = Staged(b), !.in = <<>>]
<1>1. ASSUME NEW i, NEW b, NEW f, Made(f, i, b)
      PROVE  /\ IsEngine(f) /\ SameConfig(e, f) /\ f.enabled = e.enabled /\ f.in = <<>>
             /\ f.iv = i /\ f.out = Staged(b) /\ f.out.block = b
  BY <1>1 DEF IsEngine, EngineFields, SameConfig, Staged
<1>2. n + 1 # 0 /\ (n + 1) - 1 = n /\ n + 1 \in Nat /\ (n = 0 <=> n + 1 = 1)
  OBVIOUS
<1> HIDE DEF x, Made
<1>3. CASE e.mode = "KEY"
  <2>1. process_block(e) = [e EXCEPT !.in = <<>>]
    BY <1>3 DEF process_block
  <2> QED
    BY <1>3, <2>1 DEF IsEngine, EngineFields, SameConfig, IvAfter
<1>4. CASE e.mode = "ECB"
  <2> DEFINE b == aes_block(e, x)
  <2>1. Made(process_block(e), e.iv, b)
    <3> HIDE DEF b
    <3>1. process_block(e) = [[e EXCEPT !.out = Staged(b)] EXCEPT !.in = <<>>]
      BY <1>4 DEF process_block, x, b
    <3> QED
      BY <3>1 DEF Made, IsEngine, EngineFields
  <2>2. b = IF e.dir = "enc" THEN aes_encrypt_block(e.key, x) ELSE aes_decrypt_block(e.key, x)
    BY DEF aes_block
  <2> HIDE DEF b
  <2> QED
    BY <1>1, <1>4, <2>1, <2>2 DEF IvAfter, IsOut, SameConfig, x
<1>5. CASE e.mode = "CTR"
  <2> DEFINE b == Xor(x, aes_encrypt_block(e.key, e.iv))
             i == ctr_inc(e.iv)
  <2>1. e.iv = Counter(iv, n)
    BY <1>5 DEF IvAfter
  <2>2. i = Counter(iv, n + 1)
    BY <2>1 DEF ctr_inc, Counter
  <2>3. Made(process_block(e), i, b)
    <3> HIDE DEF b, i
    <3>1. process_block(e) = [[e EXCEPT !.iv = i, !.out = Staged(b)] EXCEPT !.in = <<>>]
      BY <1>5 DEF process_block, x, b, i
    <3> QED
      BY <3>1 DEF Made, IsEngine, EngineFields
  <2>4. b = Xor(x, aes_encrypt_block(e.key, Counter(iv, n)))
    BY <2>1
  <2> HIDE DEF b, i
  <2> QED
    BY <1>1, <1>2, <1>5, <2>2, <2>3, <2>4 DEF IvAfter, IsOut, SameConfig, x
<1>6. CASE e.mode = "CBC" /\ e.dir = "enc"
  <2> DEFINE b == aes_encrypt_block(e.key, Xor(x, e.iv))
  <2>1. Made(process_block(e), b, b)
    <3> HIDE DEF b
    <3>1. process_block(e) = [[e EXCEPT !.iv = b, !.out = Staged(b)] EXCEPT !.in = <<>>]
      BY <1>6 DEF process_block, cbc, x, b
    <3> QED
      BY <3>1 DEF Made, IsEngine, EngineFields
  <2>2. Chained(e.key, e.type, iv, n, e.iv)
    BY <1>6 DEF IvAfter
  <2>3. Chained(e.key, e.type, iv, n + 1, b)
    BY <2>2, ChainGrows DEF x
  <2> HIDE DEF b
  <2> QED
    BY <1>1, <1>6, <2>1, <2>3 DEF IvAfter, IsOut, SameConfig
<1>7. CASE e.mode = "CBC" /\ e.dir # "enc"
  <2> DEFINE b == Xor(aes_decrypt_block(e.key, x), e.iv)
  <2>1. Made(process_block(e), x, b)
    <3> HIDE DEF b
    <3>1. process_block(e) = [[e EXCEPT !.iv = x, !.out = Staged(b)] EXCEPT !.in = <<>>]
      BY <1>7 DEF process_block, cbc, x, b
    <3> QED
      BY <3>1 DEF Made, IsEngine, EngineFields
  <2>2. e.iv = IF n = 0 THEN expand_iv(iv) ELSE Block(e.type, n)
    BY <1>7 DEF IvAfter
  <2>3. b = Xor(aes_decrypt_block(e.key, x), IF n = 0 THEN expand_iv(iv) ELSE Block(e.type, n))
    BY <2>2
  <2> HIDE DEF b
  <2> QED
    BY <1>1, <1>2, <1>7, <2>1, <2>3 DEF IvAfter, IsOut, SameConfig, x
<1> QED
  BY <1>3, <1>4, <1>5, <1>6, <1>7

\* A block that waits to be read.
OutOk(e) == e.out.left \in Nat /\ (e.out.left > 0 => e.out = [left |-> e.out.left, block |-> e.out.block])

\* The engine after len words: n whole blocks, r words in the FIFO, and the output of the last
\* block if it waits.
Fifo(e, iv, len) ==
    /\ OutOk(e)
    /\ \E n \in Nat, r \in 0..(BLOCK_WORDS - 1) :
         /\ len = n * BLOCK_WORDS + r
         /\ e.in = Run(e.type, n * BLOCK_WORDS, r)
         /\ IvAfter(e, iv, n)
         /\ e.out.left > 0 => n > 0 /\ IsOut(e, iv, n, e.out.block)

\* No words.
LEMMA EmptyRun ==
    ASSUME NEW type, NEW m \in Nat
    PROVE  Run(type, m, 0) = <<>>
<1>1. Run(type, m, 0) \in Seq({swap(type, i) : i \in Nat}) /\ Len(Run(type, m, 0)) = 0
  BY RunIsSequence
<1> QED
  BY <1>1, EmptySeq

\* The engine before the first word.
LEMMA FifoStarts ==
    ASSUME NEW e, NEW iv, e.in = <<>>, e.iv = expand_iv(iv), OutOk(e), e.out.left = 0
    PROVE  Fifo(e, iv, 0)
<1>1. 0 \in 0..(BLOCK_WORDS - 1) /\ 0 = 0 * BLOCK_WORDS + 0 /\ 0 * BLOCK_WORDS = 0
  BY CrypAssumption
<1>2. e.in = Run(e.type, 0 * BLOCK_WORDS, 0)
  BY <1>1, EmptyRun
<1>3. IvAfter(e, iv, 0)
  BY ChainStarts DEF IvAfter, expand_iv
<1> QED
  BY <1>1, <1>2, <1>3 DEF Fifo

\* No block and no word of one before the first word.
LEMMA FifoIsEmpty ==
    ASSUME NEW e, NEW iv, Fifo(e, iv, 0)
    PROVE  e.in = <<>> /\ OutOk(e) /\ e.out.left = 0
<1>1. PICK n \in Nat, r \in 0..(BLOCK_WORDS - 1) :
         /\ 0 = n * BLOCK_WORDS + r
         /\ e.in = Run(e.type, n * BLOCK_WORDS, r)
         /\ e.out.left > 0 => n > 0
  BY DEF Fifo
<1>2. n = 0 /\ r = 0
  <2>1. (n * BLOCK_WORDS + r) \div BLOCK_WORDS = n /\ (n * BLOCK_WORDS + r) % BLOCK_WORDS = r
    BY BlocksAndWords
  <2>2. 0 \div BLOCK_WORDS = 0 /\ 0 % BLOCK_WORDS = 0
    BY CrypAssumption
  <2> QED
    BY <1>1, <2>1, <2>2
<1>3. 0 * BLOCK_WORDS = 0
  BY CrypAssumption
<1>4. e.in = <<>>
  BY <1>1, <1>2, <1>3, EmptyRun
<1> QED
  BY <1>1, <1>2, <1>4 DEF Fifo, OutOk

\* Its output, its input and its IV are all that the invariant is about.
LEMMA FifoDepends ==
    ASSUME NEW e, NEW f, NEW iv, NEW len, Fifo(e, iv, len), SameEngine(e, f), f.in = e.in, OutOk(f),
           f.out.left > 0 => e.out.left > 0 /\ f.out.block = e.out.block
    PROVE  Fifo(f, iv, len)
<1>1. PICK n \in Nat, r \in 0..(BLOCK_WORDS - 1) :
         /\ len = n * BLOCK_WORDS + r
         /\ e.in = Run(e.type, n * BLOCK_WORDS, r)
         /\ IvAfter(e, iv, n)
         /\ e.out.left > 0 => n > 0 /\ IsOut(e, iv, n, e.out.block)
  BY DEF Fifo
<1>2. IvAfter(f, iv, n)
  BY <1>1 DEF IvAfter, SameEngine, SameConfig
<1>3. f.in = Run(f.type, n * BLOCK_WORDS, r)
  BY <1>1 DEF SameEngine, SameConfig
<1>4. ASSUME f.out.left > 0 PROVE n > 0 /\ IsOut(f, iv, n, f.out.block)
  <2>1. n > 0 /\ IsOut(e, iv, n, f.out.block)
    BY <1>1, <1>4
  <2> QED
    BY <2>1 DEF IsOut, SameEngine, SameConfig
<1> QED
  BY <1>1, <1>2, <1>3, <1>4 DEF Fifo

\* The FIFOs are cleared: the words of the unfinished block are lost.
LEMMA FifoCleared ==
    ASSUME NEW e, IsEngine(e), NEW iv, NEW words \in Seq(Nat), Fifo(e, iv, Len(words))
    PROVE  Fifo(reset_fifos(e), iv, Len(Whole(words)))
<1> DEFINE f == reset_fifos(e)
<1>1. PICK n \in Nat, r \in 0..(BLOCK_WORDS - 1) : Len(words) = n * BLOCK_WORDS + r /\ IvAfter(e, iv, n)
  BY DEF Fifo
<1>2. f.in = <<>> /\ f.out = NoBlock /\ f.out.left = 0 /\ SameEngine(e, f)
  BY DEF reset_fifos, IsEngine, EngineFields, NoBlock, SameEngine, SameConfig
<1> HIDE DEF f
<1>3. n * BLOCK_WORDS \in Nat /\ Len(words) % BLOCK_WORDS = r
  BY <1>1, BlocksAndWords
<1> DEFINE m == n * BLOCK_WORDS
<1> HIDE DEF m
<1>4. m \in Nat /\ Len(words) = m + r /\ Len(words) - (Len(words) % BLOCK_WORDS) = m /\ m <= Len(words)
  <2>1. r \in Nat
    BY CrypAssumption
  <2> QED
    BY <1>1, <1>3, <2>1 DEF m
<1>5. Len(Whole(words)) = m
  <2>1. Whole(words) = SubSeq(words, 1, m)
    BY <1>4 DEF Whole
  <2>2. m \in 0..Len(words)
    BY <1>4
  <2> QED
    BY <1>4, <2>1, <2>2, SubSeqProperties
<1>6. IvAfter(f, iv, n)
  BY <1>1, <1>2 DEF IvAfter, SameEngine, SameConfig
<1>7. 0 \in 0..(BLOCK_WORDS - 1) /\ m = n * BLOCK_WORDS + 0 /\ f.in = Run(f.type, n * BLOCK_WORDS, 0)
  <2>3. 0 \in 0..(BLOCK_WORDS - 1)
    BY CrypAssumption
  <2>4. m = m + 0
    BY <1>4
  <2>1. n * BLOCK_WORDS \in Nat /\ n * BLOCK_WORDS = m
    BY <1>4 DEF m
  <2>2. f.in = Run(f.type, n * BLOCK_WORDS, 0)
    BY <1>2, <2>1, EmptyRun
  <2> QED
    BY <2>1, <2>2, <2>3, <2>4
<1>8. OutOk(f)
  BY <1>2 DEF OutOk
<1> QED
  BY <1>2, <1>5, <1>6, <1>7, <1>8 DEF Fifo, f

\* The next word.
LEMMA FifoFed ==
    ASSUME NEW e, IsEngine(e), NEW iv, NEW len \in Nat, Fifo(e, iv, len), e.enabled, e.out.left = 0,
           e.mode \in {"ECB", "CBC", "CTR", "KEY"}
    PROVE  Fifo(cryp_write_din(e, len + 1), iv, len + 1)
<1>1. PICK n \in Nat, r \in 0..(BLOCK_WORDS - 1) :
         /\ len = n * BLOCK_WORDS + r
         /\ e.in = Run(e.type, n * BLOCK_WORDS, r)
         /\ IvAfter(e, iv, n)
  BY DEF Fifo
<1> DEFINE m == n * BLOCK_WORDS
           w == BLOCK_WORDS
           s == Append(e.in, swap(e.type, len + 1))
           f == [e EXCEPT !.in = s]
<1>2. m \in Nat /\ w \in Nat \ {0} /\ r \in Nat /\ r < w
  BY BlocksAndWords, CrypAssumption
<1>3. cryp_write_din(e, len + 1)
        = IF ~e.enabled \/ Len(e.in) >= w THEN e
          ELSE IF Len(f.in) = w THEN process_block(f) ELSE f
  BY DEF cryp_write_din
<1> HIDE DEF m
<1>4. len = m + r /\ len + 1 = m + (r + 1) /\ e.in = Run(e.type, m, r)
  BY <1>1, <1>2 DEF m
<1>5. Len(e.in) = r
  BY <1>2, <1>4, RunLength
<1>6. s = Run(e.type, m, r + 1)
  <2>1. Append(Run(e.type, m, r), swap(e.type, m + (r + 1))) = Run(e.type, m, r + 1)
    BY <1>2, RunGrows
  <2> QED
    BY <1>4, <2>1
<1>7. Len(s) = r + 1
  <2> DEFINE q == r + 1
  <2>1. q \in Nat
    BY <1>2
  <2> HIDE DEF q
  <2>2. Len(Run(e.type, m, q)) = q
    BY <1>2, <2>1, RunLength
  <2> QED
    BY <1>6, <2>2 DEF q
<1> HIDE DEF s
<1>8. /\ IsEngine(f) /\ f.in = s /\ SameEngine(e, f) /\ f.enabled = e.enabled /\ f.out = e.out
  BY DEF IsEngine, EngineFields, SameEngine, SameConfig
<1>9. IvAfter(f, iv, n)
  BY <1>1, <1>8 DEF IvAfter, SameEngine, SameConfig
<1> HIDE DEF f
<1>10. OutOk(f) /\ f.out.left = 0
  BY <1>8 DEF Fifo, OutOk
<1>11. CASE r + 1 < w
  <2>1. cryp_write_din(e, len + 1) = f
    BY <1>2, <1>3, <1>5, <1>7, <1>8, <1>11
  <2>2. r + 1 \in 0..(w - 1) /\ len + 1 = n * w + (r + 1) /\ f.in = Run(f.type, n * w, r + 1)
    <3>1. r + 1 \in 0..(w - 1)
      BY <1>2, <1>11
    <3>2. f.type = e.type
      BY <1>8 DEF SameEngine, SameConfig
    <3> QED
      BY <1>4, <1>6, <1>8, <3>1, <3>2 DEF m
  <2> QED
    BY <1>9, <1>10, <2>1, <2>2 DEF Fifo
<1>12. CASE r + 1 = w
  <2> DEFINE g == process_block(f)
  <2>1. cryp_write_din(e, len + 1) = g
    BY <1>2, <1>3, <1>5, <1>7, <1>8, <1>12
  <2>2. Words(f.in) = Block(f.type, n + 1)
    <3>1. (n + 1) - 1 = n
      OBVIOUS
    <3>2. f.in = Run(f.type, n * w, w)
      BY <1>6, <1>8, <1>12 DEF m, SameEngine, SameConfig
    <3> QED
      BY <3>1, <3>2 DEF Block
  <2>3. f.mode \in {"ECB", "CBC", "CTR", "KEY"} /\ f.mode = e.mode
    BY <1>8 DEF SameEngine, SameConfig
  <2>4. /\ SameConfig(f, g) /\ g.in = <<>> /\ IvAfter(g, iv, n + 1)
        /\ f.mode = "KEY" => g.out = f.out
        /\ f.mode # "KEY" => g.out = Staged(g.out.block) /\ IsOut(g, iv, n + 1, g.out.block)
    BY <1>8, <1>9, <2>2, <2>3, Processed
  <2> HIDE DEF g
  <2>5. OutOk(g)
    <3>1. CASE f.mode = "KEY"
      BY <1>10, <2>4, <3>1 DEF OutOk
    <3>2. CASE f.mode # "KEY"
      <4>1. g.out = [left |-> w, block |-> g.out.block]
        BY <2>4, <3>2 DEF Staged
      <4>2. g.out.left = w
        BY <4>1
      <4> QED
        BY <1>2, <4>1, <4>2 DEF OutOk
    <3> QED
      BY <3>1, <3>2
  <2>6. g.out.left > 0 => IsOut(g, iv, n + 1, g.out.block)
    BY <1>10, <2>4
  <2>7. n + 1 \in Nat /\ n + 1 > 0 /\ 0 \in 0..(w - 1)
    BY <1>2
  <2>8. len + 1 = (n + 1) * w + 0 /\ (n + 1) * w \in Nat
    <3>1. (n + 1) * w = n * w + w
      BY <1>2
    <3> QED
      BY <1>2, <1>4, <1>12, <3>1 DEF m
  <2>9. g.in = Run(g.type, (n + 1) * w, 0)
    BY <2>4, <2>8, EmptyRun
  <2> QED
    BY <2>1, <2>4, <2>5, <2>6, <2>7, <2>8, <2>9 DEF Fifo
<1> QED
  BY <1>2, <1>11, <1>12

-----------------------------------------------------------------------------
(* GCM. *)

\* The ciphertext of a message, as the tag hashes it.
Ciphertext(m) ==
    [n \in 1..Len(m.text) |-> IF m.text[n].dir = "enc" THEN RefPayload(m, n) ELSE m.text[n].x]

MessageFields == {"ok", "key", "j0", "aad", "text", "padding", "done"}
GcmFields == {"phase", "h", "j0", "counter", "y", "aad", "text"}

\* The engine has the message so far: its key, its IV, its counter and its hash.
MessageOk(g, m) ==
    m.ok => /\ m = [f \in MessageFields |-> m[f]] /\ g = [f \in GcmFields |-> g[f]]
            /\ IsSequence(m.aad) /\ IsSequence(m.text) /\ m.done \in BOOLEAN
            /\ g.h = m.key /\ g.j0 = m.j0 /\ m.j0 = expand_iv(m.j0.iv)
            /\ ~m.done => /\ g.counter = Counter(m.j0.iv, Len(m.text) + 1)
                          /\ g.y = m.aad \o Ciphertext(m)
                          /\ g.aad = Len(m.aad) * BLOCK_WORDS /\ g.text = Len(m.text) * BLOCK_WORDS

\* The tag with the lengths of the whole blocks: that of the message if none is padded.
WholeTag(m) ==
    [ghash |-> m.aad \o Ciphertext(m)
               \o <<[aad |-> Len(m.aad) * BLOCK_WORDS, text |-> Len(m.text) * BLOCK_WORDS]>>,
     h |-> m.key, mask |-> m.j0]

\* The block that the message is answered with.
GcmOut(m) == IF m.done THEN WholeTag(m) ELSE RefPayload(m, Len(m.text))

\* A block more, in words.
LEMMA WordsGrow ==
    ASSUME NEW n \in Nat
    PROVE  n * BLOCK_WORDS \in Nat /\ (n + 1) * BLOCK_WORDS = n * BLOCK_WORDS + BLOCK_WORDS
BY CrypAssumption

\* An item more in a sequence of any items.
LEMMA SequenceGrows ==
    ASSUME NEW s, IsSequence(s), NEW x
    PROVE  /\ IsSequence(Append(s, x)) /\ Len(s) \in Nat /\ Len(Append(s, x)) = Len(s) + 1
           /\ \A i \in 1..Len(s) : Append(s, x)[i] = s[i]
           /\ Append(s, x)[Len(s) + 1] = x
<1>1. PICK S : s \in Seq(S)
  BY DEF IsSequence
<1>2. s \in Seq(S \cup {x})
  BY <1>1, SeqMonotonic
<1>3. x \in S \cup {x}
  OBVIOUS
<1> DEFINE T == S \cup {x}
<1> HIDE DEF T
<1>4. Append(s, x) \in Seq(T)
  BY <1>2, <1>3, AppendProperties DEF T
<1>5. /\ Len(Append(s, x)) = Len(s) + 1
      /\ \A i \in 1..Len(s) : Append(s, x)[i] = s[i]
      /\ Append(s, x)[Len(s) + 1] = x
  BY <1>2, <1>3, AppendProperties DEF T
<1>6. Len(s) \in Nat
  BY <1>1, LenProperties
<1> QED
  BY <1>4, <1>5, <1>6 DEF IsSequence

\* An item more behind two sequences of any items.
LEMMA SequencesJoin ==
    ASSUME NEW s, IsSequence(s), NEW t, IsSequence(t), NEW x
    PROVE  /\ Append(s \o t, x) = s \o Append(t, x)
           /\ Append(s \o t, x) = s \o t \o <<x>>
           /\ s \o <<>> = s /\ <<>> \o t = t /\ IsSequence(s \o t)
<1>1. PICK S : s \in Seq(S)
  BY DEF IsSequence
<1>2. PICK T : t \in Seq(T)
  BY DEF IsSequence
<1> DEFINE U == (S \cup T) \cup {x}
<1>3. s \in Seq(U) /\ t \in Seq(U)
  BY <1>1, <1>2, SeqMonotonic
<1>4. x \in U
  OBVIOUS
<1> HIDE DEF U
<1>5. Append(s \o t, x) = s \o Append(t, x) /\ <<>> \o t = t
  <2>1. <<x>> \in Seq(U) /\ s \o t \in Seq(U)
    BY <1>3, <1>4, ConcatProperties
  <2>2. Append(s \o t, x) = (s \o t) \o <<x>> /\ Append(t, x) = t \o <<x>>
    BY <1>3, <1>4, <2>1, AppendIsConcat
  <2>3. (s \o t) \o <<x>> = s \o (t \o <<x>>)
    BY <1>3, <2>1, ConcatAssociative
  <2>4. <<>> \o t = t
    BY <1>3, ConcatEmptySeq
  <2> QED
    BY <2>2, <2>3, <2>4, Zenon
<1>6. s \o <<>> = s
  BY <1>3, <1>4, AppendAfter
<1>7. s \o t \in Seq(U)
  BY <1>3, ConcatProperties
<1>8. Append(s \o t, x) = s \o t \o <<x>>
  BY <1>4, <1>7, AppendIsConcat
<1> QED
  BY <1>5, <1>6, <1>7, <1>8 DEF IsSequence

\* The ciphertext is a sequence.
LEMMA CiphertextIsSequence ==
    ASSUME NEW m, IsSequence(m.text)
    PROVE  /\ IsSequence(Ciphertext(m)) /\ Len(Ciphertext(m)) = Len(m.text)
           /\ m.text = <<>> => Ciphertext(m) = <<>>
<1> DEFINE c == Ciphertext(m)
           F(n) == IF m.text[n].dir = "enc" THEN RefPayload(m, n) ELSE m.text[n].x
           l == Len(m.text)
           S == {F(n) : n \in 1..l}
<1>1. l \in Nat
  BY LenProperties DEF IsSequence
<1>2. c = [n \in 1..l |-> F(n)]
  BY DEF Ciphertext
<1> HIDE DEF c, F, l
<1>3. c \in [1..l -> S]
  BY <1>2
<1> HIDE DEF S
<1>4. c \in Seq(S)
  BY <1>1, <1>3, SeqDef
<1>5. Len(c) = l
  BY <1>1, <1>3, <1>4, LenProperties
<1>6. m.text = <<>> => c = <<>>
  <2>1. m.text = <<>> => Len(c) = 0
    BY <1>5, EmptyFifo DEF l
  <2> QED
    BY <2>1, <1>4, EmptySeq
<1> QED
  BY <1>4, <1>5, <1>6 DEF IsSequence, c, l

\* A message of GCM starts.
LEMMA MessageStarts ==
    ASSUME NEW p, NEW e, e.key = expand_key(p.key, p.cr.size), e.iv = expand_iv(p.iv)
    PROVE  /\ MessageOk(gcm_init(e), NewMessage(p)) /\ gcm_init(e).phase = "Init"
           /\ NewMessage(p).ok = TRUE
<1> DEFINE m == NewMessage(p)
           g == gcm_init(e)
           key == expand_key(p.key, p.cr.size)
           iv == p.iv
<1> HIDE DEF key
<1>1. m = [ok |-> TRUE, key |-> key, j0 |-> expand_iv(iv), aad |-> <<>>, text |-> <<>>,
           padding |-> NoPadding, done |-> FALSE]
  BY DEF NewMessage, key
<1>2. g = [phase |-> "Init", h |-> key, j0 |-> expand_iv(iv), counter |-> ctr_inc(expand_iv(iv)),
           y |-> <<>>, aad |-> 0, text |-> 0]
  BY DEF gcm_init, key
<1> HIDE DEF m, g, iv
<1>3. /\ m = [f \in MessageFields |-> m[f]] /\ m.ok = TRUE /\ m.key = key /\ m.j0 = expand_iv(iv)
      /\ m.aad = <<>> /\ m.text = <<>> /\ m.done = FALSE
  BY <1>1 DEF MessageFields
<1>4. /\ g = [f \in GcmFields |-> g[f]] /\ g.phase = "Init" /\ g.h = key /\ g.j0 = expand_iv(iv)
      /\ g.counter = ctr_inc(expand_iv(iv)) /\ g.y = <<>> /\ g.aad = 0 /\ g.text = 0
  BY <1>2 DEF GcmFields
<1>5. m.j0.iv = iv /\ g.counter = Counter(iv, 1)
  BY <1>3, <1>4 DEF expand_iv, Counter, ctr_inc
<1>6. IsSequence(m.aad) /\ IsSequence(m.text) /\ Len(m.aad) = 0 /\ Len(m.text) = 0
  BY <1>3, EmptyFifo
<1>7. m.aad \o Ciphertext(m) = <<>>
  <2>1. Ciphertext(m) = <<>>
    BY <1>3, <1>6, CiphertextIsSequence
  <2> QED
    BY <1>3, <2>1, EmptyFifo, SequencesJoin
<1>8. g.counter = Counter(m.j0.iv, Len(m.text) + 1)
  BY <1>5, <1>6
<1>9. 0 * BLOCK_WORDS = 0
  BY CrypAssumption
<1>10. MessageOk(g, m)
  BY <1>3, <1>4, <1>5, <1>6, <1>7, <1>8, <1>9 DEF MessageOk
<1> QED
  BY <1>3, <1>4, <1>10 DEF m, g

\* The GCM unit in another phase.
InPhase(g, phase) == [g EXCEPT !.phase = phase]

\* The message goes on in another phase.
LEMMA MessageGoesOn ==
    ASSUME NEW g, NEW m, MessageOk(g, m), NEW phase
    PROVE  MessageOk(InPhase(g, phase), m) /\ (m.ok => InPhase(g, phase).phase = phase)
<1> DEFINE f == [g EXCEPT !.phase = phase]
<1>1. CASE m.ok
  <2>1. g = [x \in GcmFields |-> g[x]]
    BY <1>1 DEF MessageOk
  <2>2. /\ f = [x \in GcmFields |-> f[x]] /\ f.phase = phase /\ f.h = g.h /\ f.j0 = g.j0
        /\ f.counter = g.counter /\ f.y = g.y /\ f.aad = g.aad /\ f.text = g.text
    BY <2>1 DEF GcmFields
  <2> HIDE DEF f
  <2> QED
    BY <1>1, <2>2 DEF MessageOk, InPhase, f
<1>2. CASE ~m.ok
  BY <1>2 DEF MessageOk
<1> QED
  BY <1>1, <1>2

\* A message with one more block of its header, of its payload, or with its end.
WithHeader(m, x, pad, ok) == [m EXCEPT !.aad = Append(@, x), !.padding.aad = pad, !.ok = ok]
WithPayload(m, x, dir, pad, ok) ==
    [m EXCEPT !.text = Append(@, [x |-> x, dir |-> dir]), !.padding.text = pad, !.ok = ok]
WithTag(m, ok) == [m EXCEPT !.done = TRUE, !.ok = ok]

\* A block of the header.
LEMMA MessageHeader ==
    ASSUME NEW g, NEW m, MessageOk(g, m), m.ok, m.text = <<>>, ~m.done, NEW x, NEW pad, NEW ok
    PROVE  MessageOk(ingest_aad(g, x), WithHeader(m, x, pad, ok)) /\ ingest_aad(g, x).phase = g.phase
<1> DEFINE a == Append(m.aad, x)
           n == [m EXCEPT !.aad = a, !.padding.aad = pad, !.ok = ok]
           z == Append(g.y, x)
           f == [g EXCEPT !.y = z, !.aad = g.aad + BLOCK_WORDS]
<1>1. /\ m = [y \in MessageFields |-> m[y]] /\ g = [y \in GcmFields |-> g[y]]
      /\ IsSequence(m.aad) /\ IsSequence(m.text) /\ m.done \in BOOLEAN
      /\ g.h = m.key /\ g.j0 = m.j0 /\ m.j0 = expand_iv(m.j0.iv)
      /\ g.counter = Counter(m.j0.iv, Len(m.text) + 1)
      /\ g.y = m.aad \o Ciphertext(m)
      /\ g.aad = Len(m.aad) * BLOCK_WORDS /\ g.text = Len(m.text) * BLOCK_WORDS
  BY DEF MessageOk
<1>2. IsSequence(a) /\ Len(a) = Len(m.aad) + 1
  BY <1>1, SequenceGrows
<1>3. Ciphertext(m) = <<>>
  BY <1>1, CiphertextIsSequence
<1>4. g.y = m.aad
  BY <1>1, <1>3, SequencesJoin
<1>5. z = a
  BY <1>4
<1> HIDE DEF a, z
<1>6. /\ n = [y \in MessageFields |-> n[y]] /\ n.key = m.key /\ n.j0 = m.j0 /\ n.aad = a
      /\ n.text = m.text /\ n.done = m.done
  BY <1>1 DEF MessageFields
<1>7. /\ f = [y \in GcmFields |-> f[y]] /\ f.phase = g.phase /\ f.h = g.h /\ f.j0 = g.j0
      /\ f.counter = g.counter /\ f.y = z /\ f.aad = g.aad + BLOCK_WORDS /\ f.text = g.text
  BY <1>1 DEF GcmFields
<1> HIDE DEF n, f
<1>8. n.aad \o Ciphertext(n) = a
  <2>1. Ciphertext(n) = <<>>
    BY <1>1, <1>6, CiphertextIsSequence
  <2> QED
    BY <1>2, <1>6, <2>1, SequencesJoin
<1>9. Len(a) * BLOCK_WORDS = Len(m.aad) * BLOCK_WORDS + BLOCK_WORDS
  BY <1>1, <1>2, SequenceGrows, WordsGrow
<1>10. MessageOk(f, n)
  BY <1>1, <1>2, <1>5, <1>6, <1>7, <1>8, <1>9 DEF MessageOk
<1> QED
  BY <1>7, <1>10 DEF ingest_aad, WithHeader, f, n, a, z

\* A block of the payload.
LEMMA MessagePayload ==
    ASSUME NEW g, NEW m, MessageOk(g, m), m.ok, ~m.done, NEW e, e.key = m.key, NEW x, NEW dir,
           dir = "enc" <=> e.dir = "enc", NEW pad, NEW ok
    PROVE  /\ MessageOk(process_payload(g, e, x).gcm, WithPayload(m, x, dir, pad, ok))
           /\ process_payload(g, e, x).gcm.phase = g.phase
           /\ process_payload(g, e, x).out = GcmOut(WithPayload(m, x, dir, pad, ok))
<1> DEFINE item == [x |-> x, dir |-> dir]
           u == Append(m.text, item)
           n == [m EXCEPT !.text = u, !.padding.text = pad, !.ok = ok]
           l == Len(m.text)
           y == Xor(x, aes_encrypt_block(e.key, g.counter))
           c == IF e.dir = "enc" THEN y ELSE x
           z == Append(g.y, c)
           k == ctr_inc(g.counter)
           f == [g EXCEPT !.counter = k, !.y = z, !.text = g.text + BLOCK_WORDS]
           r == process_payload(g, e, x)
<1>1. /\ m = [h \in MessageFields |-> m[h]] /\ g = [h \in GcmFields |-> g[h]]
      /\ IsSequence(m.aad) /\ IsSequence(m.text) /\ m.done \in BOOLEAN
      /\ g.h = m.key /\ g.j0 = m.j0 /\ m.j0 = expand_iv(m.j0.iv)
      /\ g.counter = Counter(m.j0.iv, l + 1)
      /\ g.y = m.aad \o Ciphertext(m)
      /\ g.aad = Len(m.aad) * BLOCK_WORDS /\ g.text = l * BLOCK_WORDS
  BY DEF MessageOk
<1>2. /\ r.out = y /\ r.gcm = f
  BY DEF process_payload
<1>3. /\ IsSequence(u) /\ l \in Nat /\ Len(u) = l + 1 /\ u[l + 1] = item
      /\ \A i \in 1..l : u[i] = m.text[i]
  <2> HIDE DEF item
  <2> QED
    BY <1>1, SequenceGrows
<1>4. k = Counter(m.j0.iv, (l + 1) + 1)
  <2>1. ASSUME NEW i, NEW j PROVE ctr_inc(Counter(i, j)) = Counter(i, j + 1)
    BY DEF ctr_inc, Counter
  <2> QED
    BY <1>1, <2>1
<1>5. y = Xor(x, aes_encrypt_block(m.key, Counter(m.j0.iv, l + 1)))
  BY <1>1
<1>6. item.x = x /\ item.dir = dir
  OBVIOUS
<1> HIDE DEF item, u, z, k, y, r
<1>7. /\ n = [h \in MessageFields |-> n[h]] /\ n.key = m.key /\ n.j0 = m.j0 /\ n.aad = m.aad
      /\ n.text = u /\ n.done = m.done
  BY <1>1 DEF MessageFields
<1>8. /\ f = [h \in GcmFields |-> f[h]] /\ f.phase = g.phase /\ f.h = g.h /\ f.j0 = g.j0
      /\ f.counter = k /\ f.y = z /\ f.aad = g.aad /\ f.text = g.text + BLOCK_WORDS
  BY <1>1 DEF GcmFields
<1> HIDE DEF n, f, l
<1>9. RefPayload(n, l + 1) = y
  BY <1>3, <1>5, <1>6, <1>7 DEF RefPayload
<1>10. \A i \in 1..l : RefPayload(n, i) = RefPayload(m, i) /\ n.text[i] = m.text[i]
  BY <1>3, <1>7 DEF RefPayload
<1>11. Ciphertext(n) = Append(Ciphertext(m), c)
  <2> DEFINE a == Append(Ciphertext(m), c)
             b == Ciphertext(n)
  <2>1. IsSequence(Ciphertext(m)) /\ Len(Ciphertext(m)) = l
    BY <1>1, CiphertextIsSequence DEF l
  <2>2. IsSequence(b) /\ Len(b) = l + 1
    BY <1>3, <1>7, CiphertextIsSequence
  <2> HIDE DEF c
  <2>3. /\ IsSequence(a) /\ Len(a) = l + 1 /\ a[l + 1] = c
        /\ \A i \in 1..l : a[i] = Ciphertext(m)[i]
    BY <2>1, SequenceGrows
  <2>4. \A i \in 1..(l + 1) : b[i] = IF n.text[i].dir = "enc" THEN RefPayload(n, i) ELSE n.text[i].x
    BY <1>3, <1>7 DEF Ciphertext
  <2>5. \A i \in 1..l : Ciphertext(m)[i] = IF m.text[i].dir = "enc" THEN RefPayload(m, i) ELSE m.text[i].x
    BY DEF Ciphertext, l
  <2>6. l + 1 \in 1..(l + 1) /\ \A i \in 1..l : i \in 1..(l + 1)
    BY <1>3
  <2>7. b[l + 1] = c
    BY <1>3, <1>6, <1>7, <1>9, <2>4, <2>6 DEF c
  <2>8. \A i \in 1..l : b[i] = a[i]
    BY <1>10, <2>3, <2>4, <2>5, <2>6
  <2> HIDE DEF a, b
  <2>9. \A i \in 1..(l + 1) : b[i] = a[i]
    BY <1>3, <2>3, <2>7, <2>8
  <2>10. PICK S : a \in Seq(S)
    BY <2>3 DEF IsSequence
  <2>11. PICK T : b \in Seq(T)
    BY <2>2 DEF IsSequence
  <2>12. a \in Seq(S \cup T) /\ b \in Seq(S \cup T)
    BY <2>10, <2>11, SeqMonotonic
  <2>13. a = b
    BY <2>2, <2>3, <2>9, <2>12, SeqEqual
  <2> QED
    BY <2>13 DEF a, b
<1>12. z = n.aad \o Ciphertext(n)
  <2>1. IsSequence(Ciphertext(m))
    BY <1>1, CiphertextIsSequence
  <2>2. ASSUME NEW s, IsSequence(s), NEW a, IsSequence(a), NEW b
        PROVE  Append(a \o s, b) = a \o Append(s, b)
    BY <2>2, SequencesJoin
  <2> HIDE DEF c
  <2>3. Append(m.aad \o Ciphertext(m), c) = m.aad \o Append(Ciphertext(m), c)
    BY <1>1, <2>1, <2>2
  <2> QED
    BY <1>1, <1>7, <1>11, <2>3 DEF z
<1>13. f.counter = Counter(n.j0.iv, Len(n.text) + 1) /\ f.text = Len(n.text) * BLOCK_WORDS
  <2>1. (l + 1) * BLOCK_WORDS = l * BLOCK_WORDS + BLOCK_WORDS
    BY <1>3, WordsGrow
  <2> QED
    BY <1>1, <1>3, <1>4, <1>7, <1>8, <2>1
<1>14. MessageOk(f, n)
  BY <1>1, <1>3, <1>7, <1>8, <1>12, <1>13 DEF MessageOk
<1>15. MessageOk(r.gcm, n) /\ r.gcm.phase = g.phase /\ r.out = GcmOut(n)
  BY <1>2, <1>3, <1>7, <1>8, <1>9, <1>14 DEF GcmOut
<1> QED
  BY <1>15 DEF r, n, u, item, WithPayload

\* The block that ends it.
LEMMA MessageFinal ==
    ASSUME NEW g, NEW m, MessageOk(g, m), m.ok, ~m.done, NEW ok
    PROVE  /\ MessageOk(finalise(g).gcm, WithTag(m, ok)) /\ finalise(g).gcm.phase = g.phase
           /\ finalise(g).out = GcmOut(WithTag(m, ok))
<1> DEFINE n == [m EXCEPT !.done = TRUE, !.ok = ok]
           r == finalise(g)
           lengths == [aad |-> g.aad, text |-> g.text]
           z == Append(g.y, lengths)
           f == [g EXCEPT !.y = z]
<1>1. /\ m = [h \in MessageFields |-> m[h]] /\ g = [h \in GcmFields |-> g[h]]
      /\ IsSequence(m.aad) /\ IsSequence(m.text)
      /\ g.h = m.key /\ g.j0 = m.j0 /\ m.j0 = expand_iv(m.j0.iv)
      /\ g.y = m.aad \o Ciphertext(m)
      /\ g.aad = Len(m.aad) * BLOCK_WORDS /\ g.text = Len(m.text) * BLOCK_WORDS
  BY DEF MessageOk
<1>2. r.gcm = f /\ r.out = [ghash |-> z, h |-> g.h, mask |-> g.j0]
  BY DEF finalise
<1>3. z = m.aad \o Ciphertext(m) \o <<lengths>>
  <2>1. IsSequence(Ciphertext(m))
    BY <1>1, CiphertextIsSequence
  <2>2. ASSUME NEW s, IsSequence(s), NEW t, IsSequence(t), NEW x PROVE Append(s \o t, x) = s \o t \o <<x>>
    BY <2>2, SequencesJoin
  <2> HIDE DEF lengths
  <2>3. Append(m.aad \o Ciphertext(m), lengths) = m.aad \o Ciphertext(m) \o <<lengths>>
    BY <1>1, <2>1, <2>2
  <2> QED
    BY <1>1, <2>3
<1>4. lengths = [aad |-> Len(m.aad) * BLOCK_WORDS, text |-> Len(m.text) * BLOCK_WORDS]
  BY <1>1
<1> HIDE DEF r, z, lengths
<1>5. /\ n = [h \in MessageFields |-> n[h]] /\ n.key = m.key /\ n.j0 = m.j0 /\ n.aad = m.aad
      /\ n.text = m.text /\ n.done = TRUE
  BY <1>1 DEF MessageFields
<1>6. f = [h \in GcmFields |-> f[h]] /\ f.phase = g.phase /\ f.h = g.h /\ f.j0 = g.j0
  BY <1>1 DEF GcmFields
<1> HIDE DEF n, f
<1>7. Ciphertext(n) = Ciphertext(m)
  BY <1>5 DEF Ciphertext, RefPayload
<1>9. r.out = WholeTag(n)
  BY <1>1, <1>2, <1>3, <1>4, <1>5, <1>7 DEF WholeTag
<1>10. MessageOk(f, n)
  BY <1>1, <1>5, <1>6 DEF MessageOk
<1>11. MessageOk(r.gcm, n) /\ r.gcm.phase = g.phase /\ r.out = GcmOut(n)
  BY <1>2, <1>5, <1>6, <1>9, <1>10 DEF GcmOut
<1> QED
  BY <1>11 DEF r, n, WithTag

-----------------------------------------------------------------------------
(* The peripheral. *)

\* The words of a block of GCM, after len words.
Gathered(gin, type, len) ==
    \E n \in Nat, r \in 0..(BLOCK_WORDS - 1) :
        len = n * BLOCK_WORDS + r /\ gin = Run(type, n * BLOCK_WORDS, r)

\* What waits to be read is that of the reference, and what is gathered will be.
OutStep(p, j) ==
    /\ j.stuck => ~j.msg.ok
    /\ MessageOk(p.gcm, j.msg) /\ Counting(j.fed)
    /\ p.cr.en /\ ~j.stuck =>
        /\ p.eng.mode # "GCM" => Fifo(p.eng, p.iv, Len(j.fed))
        /\ p.eng.mode = "GCM" =>
             /\ j.msg.ok => p.gcm.phase = p.cr.phase
             /\ Gathered(p.gin, p.eng.type, Len(j.fed)) /\ OutOk(p.eng)
             /\ p.eng.out.left > 0 => j.msg.ok /\ p.eng.out.block = GcmOut(j.msg)

\* One more word.
LEMMA CountingGrows ==
    ASSUME NEW words, Counting(words)
    PROVE  /\ Counting(Append(words, Len(words) + 1)) /\ Len(words) \in Nat
           /\ Len(Append(words, Len(words) + 1)) = Len(words) + 1
<1> DEFINE x == Len(words) + 1
           s == Append(words, x)
<1>1. words \in Seq(Nat) /\ Len(words) \in Nat /\ x \in Nat
  BY LenProperties DEF Counting
<1>2. s \in Seq(Nat) /\ Len(s) = Len(words) + 1
  BY <1>1, AppendProperties
<1>3. (\A i \in 1..Len(words) : s[i] = words[i]) /\ s[Len(words) + 1] = x
  BY <1>1, AppendProperties
<1> HIDE DEF s
<1>4. \A i \in 1..Len(s) : s[i] = i
  BY <1>1, <1>2, <1>3 DEF Counting
<1> QED
  BY <1>1, <1>2, <1>4 DEF Counting, s

\* A whole block of GCM is the last one that the driver wrote.
LEMMA LastIsGathered ==
    ASSUME NEW words, Counting(words), NEW n \in Nat, Len(words) = n * BLOCK_WORDS + BLOCK_WORDS
    PROVE  LastBlock(words) = Words(Run(cryp.cr.type, n * BLOCK_WORDS, BLOCK_WORDS))
<1> DEFINE m == n * BLOCK_WORDS
           w == BLOCK_WORDS
<1>1. w \in Nat \ {0} /\ m \in Nat
  BY CrypAssumption
<1> HIDE DEF m, w
<1>2. Len(words) = m + w /\ Len(words) - w = m
  BY <1>1 DEF m, w
<1>3. \A i \in 1..w : m + i \in 1..Len(words)
  BY <1>1, <1>2
<1>4. \A i \in 1..w : words[m + i] = m + i
  BY <1>3 DEF Counting
<1>5. LastBlock(words) = [words |-> [i \in 1..w |-> swap(cryp.cr.type, words[m + i])]]
  BY <1>2 DEF LastBlock, w
<1>6. [i \in 1..w |-> swap(cryp.cr.type, words[m + i])] = [i \in 1..w |-> swap(cryp.cr.type, m + i)]
  BY <1>4
<1> QED
  BY <1>5, <1>6 DEF Words, Run, m, w

\* A block of a phase, for a message that goes on.
LEMMA BlockTold ==
    ASSUME CrypInv, cryp.cr.en, ~job.stuck, cryp.eng.mode = "GCM", MessageOk(cryp.gcm, job.msg),
           cryp.gcm.phase = cryp.cr.phase, OutOk(cryp.eng), cryp.eng.out.left = 0,
           NEW words, NEW pad, Len(words) % BLOCK_WORDS = 0, Told(words, pad).ok
    PROVE  LET q == gcm_block(cryp, LastBlock(words))
               m == Told(words, pad)
           IN  /\ MessageOk(q.gcm, m) /\ q.gcm.phase = cryp.gcm.phase /\ q.gin = <<>> /\ OutOk(q.eng)
               /\ q.eng.out.left > 0 => q.eng.out.block = GcmOut(m)
<1> DEFINE x == LastBlock(words)
           q == gcm_block(cryp, x)
           m == job.msg
           g == cryp.gcm
           now == expand_key(cryp.key, cryp.cr.size)
           Fine(p, n) == /\ MessageOk(p.gcm, n) /\ p.gcm.phase = g.phase /\ p.gin = <<>> /\ OutOk(p.eng)
                         /\ p.eng.out.left > 0 => p.eng.out.block = GcmOut(n)
<1>1. /\ CrypShape(cryp) /\ cryp.eng.key = now /\ cryp.cr.mode = "GCM"
      /\ cryp.eng.dir = Direction(cryp.cr)
  BY DEF CrypInv, CrypOk, InStep, HasConfig, Mode
<1>2. m.ok
  BY DEF Told
<1>3. g.phase = cryp.cr.phase
  OBVIOUS
<1> HIDE DEF x
<1>4. ASSUME NEW gcm
      PROVE  LET p == [cryp EXCEPT !.gin = <<>>, !.gcm = gcm] IN
             p.gin = <<>> /\ p.gcm = gcm /\ p.eng = cryp.eng
  BY <1>1 DEF CrypShape
<1> DEFINE Answered(gcm, blk) == [[cryp EXCEPT !.gin = <<>>, !.gcm = gcm] EXCEPT !.eng.out = Staged(blk)]
<1>5. ASSUME NEW gcm, NEW blk, NEW p, p = Answered(gcm, blk)
      PROVE  /\ p.gin = <<>> /\ p.gcm = gcm /\ p.eng.out = Staged(blk) /\ p.eng.out.block = blk
             /\ OutOk(p.eng)
  <2>1. p.gin = <<>> /\ p.gcm = gcm /\ p.eng.out = Staged(blk)
    BY <1>1, <1>5 DEF CrypShape
  <2>2. p.eng.out.left = BLOCK_WORDS /\ p.eng.out.block = blk
    BY <2>1 DEF Staged
  <2>3. OutOk(p.eng)
    BY <2>1, <2>2, CrypAssumption DEF OutOk, Staged
  <2> QED
    BY <2>1, <2>2, <2>3
<1>6. CASE g.phase = "Header"
  <2> DEFINE ok == m.text = <<>> /\ ~m.done /\ m.padding.aad = 0
             n == WithHeader(m, x, pad, ok)
             p == [cryp EXCEPT !.gin = <<>>, !.gcm = ingest_aad(g, x)]
  <2>1. Told(words, pad) = n
    BY <1>1, <1>2, <1>3, <1>6 DEF Told, x, WithHeader
  <2>2. ok
    <3>1. m = [f \in MessageFields |-> m[f]]
      BY <1>2 DEF MessageOk
    <3>2. n.ok = ok
      BY <3>1 DEF MessageFields, WithHeader
    <3> QED
      BY <2>1, <3>2
  <2>3. MessageOk(ingest_aad(g, x), n) /\ ingest_aad(g, x).phase = g.phase
    <3>1. m.text = <<>> /\ ~m.done
      BY <2>2
    <3> HIDE DEF ok
    <3> QED
      BY <1>2, <3>1, MessageHeader
  <2>4. q = p
    BY <1>6 DEF gcm_block
  <2> HIDE DEF n
  <2>5. p.gin = <<>> /\ p.gcm = ingest_aad(g, x) /\ p.eng = cryp.eng
    BY <1>4
  <2> HIDE DEF p
  <2>6. Fine(p, n)
    BY <2>3, <2>5
  <2> QED
    BY <2>1, <2>4, <2>6 DEF x
<1>7. CASE g.phase = "Payload"
  <2> DEFINE ok == m.key = now /\ ~m.done /\ m.padding.text = 0
             n == WithPayload(m, x, cryp.cr.dir, pad, ok)
             r == process_payload(g, cryp.eng, x)
             p == Answered(r.gcm, r.out)
  <2>1. Told(words, pad) = n
    BY <1>1, <1>2, <1>3, <1>7 DEF Told, x, WithPayload
  <2>2. ok
    <3>1. m = [f \in MessageFields |-> m[f]]
      BY <1>2 DEF MessageOk
    <3>2. n.ok = ok
      BY <3>1 DEF MessageFields, WithPayload
    <3> QED
      BY <2>1, <3>2
  <2>3. cryp.eng.key = m.key /\ (cryp.cr.dir = "enc" <=> cryp.eng.dir = "enc")
    BY <1>1, <2>2 DEF Direction
  <2>4. /\ MessageOk(r.gcm, n) /\ r.gcm.phase = g.phase
        /\ r.out = GcmOut(n)
    <3>1. ~m.done
      BY <2>2
    <3> DEFINE e == cryp.eng
               dir == cryp.cr.dir
    <3>2. e.key = m.key /\ (dir = "enc" <=> e.dir = "enc") /\ MessageOk(g, m)
      BY <2>3
    <3> HIDE DEF ok, now, e, dir, g, m
    <3>3. /\ MessageOk(process_payload(g, e, x).gcm, WithPayload(m, x, dir, pad, ok))
          /\ process_payload(g, e, x).gcm.phase = g.phase
          /\ process_payload(g, e, x).out = GcmOut(WithPayload(m, x, dir, pad, ok))
      BY <1>2, <3>1, <3>2, MessagePayload
    <3> QED
      BY <3>3 DEF e, dir
  <2>5. q = p
    BY <1>7 DEF gcm_block
  <2> HIDE DEF n, r
  <2> HIDE DEF Answered
  <2>6. /\ p.gin = <<>> /\ p.gcm = r.gcm /\ p.eng.out.block = r.out /\ OutOk(p.eng)
    BY <1>5
  <2> HIDE DEF p
  <2>7. Fine(p, n)
    BY <2>4, <2>6
  <2> QED
    BY <2>1, <2>5, <2>7 DEF x
<1>8. CASE g.phase = "Final"
  <2> DEFINE ok == ~m.done
             n == WithTag(m, ok)
             r == finalise(g)
             p == Answered(r.gcm, r.out)
  <2>1. Told(words, pad) = n
    BY <1>1, <1>2, <1>3, <1>8 DEF Told, WithTag
  <2>2. ok
    <3>1. m = [f \in MessageFields |-> m[f]]
      BY <1>2 DEF MessageOk
    <3>2. n.ok = ok
      BY <3>1 DEF MessageFields, WithTag
    <3> QED
      BY <2>1, <3>2
  <2>3. /\ MessageOk(r.gcm, n) /\ r.gcm.phase = g.phase
        /\ r.out = GcmOut(n)
    <3>1. ~m.done
      BY <2>2
    <3> HIDE DEF ok
    <3> QED
      BY <1>2, <3>1, MessageFinal
  <2>4. q = p
    BY <1>8 DEF gcm_block
  <2> HIDE DEF n, r
  <2> HIDE DEF Answered
  <2>5. /\ p.gin = <<>> /\ p.gcm = r.gcm /\ p.eng.out.block = r.out /\ OutOk(p.eng)
    BY <1>5
  <2> HIDE DEF p
  <2>6. Fine(p, n)
    BY <2>3, <2>5
  <2> QED
    BY <2>1, <2>4, <2>6 DEF x
<1>9. CASE g.phase \notin {"Header", "Payload", "Final"}
  <2> DEFINE p == [cryp EXCEPT !.gin = <<>>, !.gcm = g]
  <2>1. Told(words, pad) = m
    BY <1>1, <1>2, <1>3, <1>9 DEF Told
  <2>2. q = p
    BY <1>9 DEF gcm_block
  <2>3. p.gin = <<>> /\ p.gcm = g /\ p.eng = cryp.eng
    BY <1>4
  <2> HIDE DEF p
  <2>4. Fine(p, m)
    BY <2>3
  <2> QED
    BY <2>1, <2>2, <2>4 DEF x
<1> QED
  BY <1>6, <1>7, <1>8, <1>9

\* A word of GCM.
LEMMA GcmWordFed ==
    ASSUME CrypInv, OutStep(cryp, job), cryp.cr.en, ~job.stuck, cryp.eng.mode = "GCM",
           cryp.eng.out.left = 0, NEW words, words = Append(job.fed, Len(job.fed) + 1), NEW pad,
           Told(words, pad).ok
    PROVE  LET q == gcm_din(cryp, Len(words))
               m == Told(words, pad)
           IN  /\ MessageOk(q.gcm, m) /\ q.gcm.phase = cryp.gcm.phase
               /\ Gathered(q.gin, cryp.eng.type, Len(words)) /\ OutOk(q.eng)
               /\ q.eng.out.left > 0 => q.eng.out.block = GcmOut(m)
<1> DEFINE type == cryp.eng.type
           w == BLOCK_WORDS
           word == Len(words)
           full == Append(cryp.gin, swap(type, word))
           q == gcm_din(cryp, word)
           Fine(p) == /\ MessageOk(p.gcm, Told(words, pad)) /\ p.gcm.phase = cryp.gcm.phase
                      /\ Gathered(p.gin, type, word) /\ OutOk(p.eng)
                      /\ p.eng.out.left > 0 => p.eng.out.block = GcmOut(Told(words, pad))
<1> SUFFICES Fine(q)
  OBVIOUS
<1>1. Counting(words) /\ Len(job.fed) \in Nat /\ word = Len(job.fed) + 1
  BY CountingGrows DEF OutStep
<1>2. /\ MessageOk(cryp.gcm, job.msg) /\ OutOk(cryp.eng) /\ Gathered(cryp.gin, type, Len(job.fed))
      /\ job.msg.ok => cryp.gcm.phase = cryp.cr.phase
  BY DEF OutStep
<1>3. job.msg.ok
  BY DEF Told
<1>4. CrypShape(cryp) /\ type = cryp.cr.type
  BY DEF CrypInv, CrypOk, InStep, HasConfig
<1>5. PICK n \in Nat, r \in 0..(w - 1) : Len(job.fed) = n * w + r /\ cryp.gin = Run(type, n * w, r)
  BY <1>2 DEF Gathered
<1> DEFINE m == n * w
<1>6. m \in Nat /\ w \in Nat \ {0} /\ r \in Nat /\ r < w
  BY BlocksAndWords, CrypAssumption
<1>7. q = IF Len(full) < w THEN [cryp EXCEPT !.gin = full] ELSE gcm_block(cryp, Words(full))
  BY DEF gcm_din
<1> HIDE DEF m, q, type, word
<1>8. word = m + (r + 1) /\ cryp.gin = Run(type, m, r)
  BY <1>1, <1>5, <1>6 DEF m
<1>9. full = Run(type, m, r + 1)
  BY <1>6, <1>8, RunGrows
<1>10. Len(full) = r + 1
  <2> DEFINE k == r + 1
  <2>1. k \in Nat
    BY <1>6
  <2> HIDE DEF k
  <2>2. Len(Run(type, m, k)) = k
    BY <1>6, <2>1, RunLength
  <2> QED
    BY <1>9, <2>2 DEF k
<1> HIDE DEF full
<1>11. CASE r + 1 < w
  <2>1. q = [cryp EXCEPT !.gin = full]
    BY <1>7, <1>10, <1>11
  <2>2. q.gin = full /\ q.gcm = cryp.gcm /\ q.eng = cryp.eng
    BY <1>4, <2>1 DEF CrypShape
  <2>3. r + 1 \in 0..(w - 1)
    BY <1>6, <1>11
  <2>4. Gathered(q.gin, type, word)
    BY <1>8, <1>9, <2>2, <2>3 DEF Gathered, m
  <2>5. word % w # 0
    <3> DEFINE k == r + 1
    <3>1. k \in 0..(w - 1) /\ k # 0
      BY <1>6, <2>3
    <3> HIDE DEF k
    <3>2. (n * w + k) % w = k
      BY <3>1, BlocksAndWords
    <3> QED
      BY <1>8, <3>1, <3>2 DEF m, k
  <2>6. Told(words, pad) = job.msg
    BY <2>5 DEF Told, word
  <2> QED
    BY <1>2, <2>2, <2>4, <2>6
<1>12. CASE r + 1 = w
  <2>1. q = gcm_block(cryp, Words(full))
    BY <1>6, <1>7, <1>10, <1>12
  <2>2. word = n * w + w
    BY <1>8, <1>12 DEF m
  <2>3. LastBlock(words) = Words(full)
    BY <1>1, <1>4, <1>9, <1>12, <2>2, LastIsGathered DEF m, word
  <2>4. /\ n + 1 \in Nat /\ 0 \in 0..(w - 1) /\ word = (n + 1) * w + 0 /\ word % w = 0
        /\ (n + 1) * w \in Nat
    <3>1. n + 1 \in Nat /\ 0 \in 0..(w - 1)
      BY <1>6
    <3>2. (n + 1) * w = n * w + w
      BY <1>6
    <3>3. word = (n + 1) * w + 0 /\ (n + 1) * w \in Nat
      BY <1>1, <2>2, <3>2
    <3> DEFINE k == n + 1
    <3> HIDE DEF k
    <3>4. (k * w + 0) % w = 0
      BY <3>1, BlocksAndWords DEF k
    <3> QED
      BY <3>1, <3>3, <3>4 DEF k
  <2>5. /\ MessageOk(q.gcm, Told(words, pad)) /\ q.gcm.phase = cryp.gcm.phase /\ q.gin = <<>>
        /\ OutOk(q.eng) /\ (q.eng.out.left > 0 => q.eng.out.block = GcmOut(Told(words, pad)))
    BY <1>2, <1>3, <2>1, <2>3, <2>4, BlockTold DEF word
  <2>6. q.gin = Run(type, (n + 1) * w, 0)
    BY <2>4, <2>5, EmptyRun
  <2>7. Gathered(q.gin, type, word)
    BY <2>4, <2>6 DEF Gathered
  <2> QED
    BY <2>5, <2>7
<1> QED
  BY <1>6, <1>11, <1>12

\* A word of any mode.
LEMMA FeedOut ==
    ASSUME CrypInv, OutStep(cryp, job), NEW pad, Feed(pad)
    PROVE  OutStep(cryp', job')
<1> DEFINE words == Append(job.fed, Len(job.fed) + 1)
<1>1. /\ cryp.cr.en /\ cryp.eng.out.left = 0 /\ ~job.stuck
      /\ cryp.cr.mode = "GCM" => Told(words, pad).ok
      /\ cryp' = write_dinr(cryp, Len(words))
      /\ job' = [job EXCEPT !.fed = words, !.msg = Told(words, pad)]
  BY DEF Feed
<1>2. Counting(words) /\ Len(job.fed) \in Nat /\ Len(words) = Len(job.fed) + 1
  BY CountingGrows DEF OutStep
<1> HIDE DEF words
<1>3. /\ CrypShape(cryp) /\ IsSequence(cryp.eng.in) /\ cryp.eng.enabled /\ HasConfig(cryp)
  BY <1>1 DEF CrypInv, CrypOk, InStep
<1>4. job'.fed = words /\ job'.msg = Told(words, pad) /\ job'.stuck = job.stuck
  BY <1>1 DEF CrypInv, JobOk
<1> DEFINE word == Len(words)
           r == write_dinr(cryp, word)
<1> HIDE DEF word
<1>5. /\ CrypShape(r) /\ SameRegisters(cryp, r) /\ SameConfig(cryp.eng, r.eng)
  BY <1>3, WordFed
<1>6. cryp' = r
  BY <1>1 DEF word
<1>7. CASE cryp.eng.mode = "GCM"
  <2>1. Told(words, pad).ok
    BY <1>1, <1>3, <1>7 DEF HasConfig, Mode
  <2>2. r = gcm_din(cryp, word)
    BY <1>3, <1>7 DEF write_dinr
  <2>3. /\ MessageOk(r.gcm, Told(words, pad)) /\ r.gcm.phase = cryp.gcm.phase
        /\ Gathered(r.gin, cryp.eng.type, Len(words)) /\ OutOk(r.eng)
        /\ r.eng.out.left > 0 => r.eng.out.block = GcmOut(Told(words, pad))
    BY <1>1, <1>7, <2>1, <2>2, GcmWordFed DEF words, word
  <2>4. job.msg.ok => cryp.gcm.phase = cryp.cr.phase
    BY <1>1, <1>7 DEF OutStep
  <2>5. job.msg.ok
    BY <2>1 DEF Told
  <2> HIDE DEF r
  <2>6. r.cr = cryp.cr /\ r.eng.mode = cryp.eng.mode /\ r.eng.type = cryp.eng.type
    BY <1>5 DEF SameRegisters, SameConfig
  <2> QED
    BY <1>1, <1>2, <1>4, <1>6, <1>7, <2>1, <2>3, <2>4, <2>5, <2>6 DEF OutStep
<1>8. CASE cryp.eng.mode # "GCM"
  <2> DEFINE f == cryp_write_din(cryp.eng, word)
  <2>1. r = [cryp EXCEPT !.eng = f]
    BY <1>8 DEF write_dinr
  <2>2. word = Len(job.fed) + 1
    BY <1>2 DEF word
  <2>3. Told(words, pad) = job.msg
    BY <1>3, <1>8 DEF Told, HasConfig, Mode
  <2>4. Fifo(cryp.eng, cryp.iv, Len(job.fed))
    BY <1>1, <1>8 DEF OutStep
  <2>5. cryp.eng.mode \in {"ECB", "CBC", "CTR", "KEY"}
    BY <1>3, <1>8 DEF HasConfig, Mode
  <2>6. IsEngine(cryp.eng)
    BY <1>3 DEF CrypShape, IsEngine, EngineFields
  <2>7. Fifo(f, cryp.iv, word)
    BY <1>1, <1>2, <1>3, <2>2, <2>4, <2>5, <2>6, FifoFed
  <2> HIDE DEF f
  <2>8. r.eng = f /\ r.gcm = cryp.gcm /\ r.iv = cryp.iv /\ r.cr = cryp.cr
    BY <1>3, <2>1 DEF CrypShape
  <2> HIDE DEF r
  <2>9. r.eng.mode = cryp.eng.mode
    BY <1>5 DEF SameConfig
  <2>10. MessageOk(r.gcm, Told(words, pad))
    BY <2>3, <2>8 DEF OutStep
  <2> QED
    BY <1>1, <1>2, <1>4, <1>6, <1>8, <2>7, <2>8, <2>9, <2>10 DEF OutStep, word
<1> QED
  BY <1>7, <1>8

\* The GCM unit after a phase is entered by an engine.
Entered(g, cr, e) == IF cr.phase = "Init" THEN gcm_init(e) ELSE InPhase(g, cr.phase)

\* A peripheral that has nothing gathered and nothing to read.
Restarted(p, g) ==
    /\ p.gin = <<>> /\ p.eng.in = <<>> /\ p.eng.out = NoBlock
    /\ p.gcm = IF p.eng.mode = "GCM" THEN Entered(g, p.cr, p.eng) ELSE g

\* A commit of the configuration restarts it.
LEMMA CommitRestarts ==
    ASSUME NEW p, CrypShape(p)
    PROVE  Restarted(commit_config(p), p.gcm)
<1> DEFINE e == [reset_fifos(p.eng) EXCEPT
                    !.size = p.cr.size, !.type = p.cr.type, !.dir = Direction(p.cr),
                    !.mode = Mode(p.cr), !.key = expand_key(p.key, p.cr.size),
                    !.iv = expand_iv(p.iv)]
           q == [p EXCEPT !.gin = <<>>, !.deriving = p.rev = "v2" /\ p.cr.dir = "derive", !.eng = e]
<1>1. e.in = <<>> /\ e.out = NoBlock
  BY DEF CrypShape, reset_fifos
<1>2. commit_config(p) = IF q.eng.mode = "GCM" THEN enter_phase(q) ELSE q
  BY DEF commit_config
<1> HIDE DEF e
<1>3. q.eng = e /\ q.gin = <<>> /\ q.gcm = p.gcm /\ q.cr = p.cr
      /\ q = [f \in {"rev", "key", "iv", "gin", "deriving", "cr", "eng", "gcm"} |-> q[f]]
  BY DEF CrypShape
<1> HIDE DEF q
<1>4. /\ enter_phase(q).eng = e /\ enter_phase(q).gin = <<>> /\ enter_phase(q).cr = p.cr
      /\ enter_phase(q).gcm = Entered(p.gcm, p.cr, e)
  BY <1>3 DEF enter_phase, Entered, InPhase
<1> QED
  BY <1>1, <1>2, <1>3, <1>4 DEF Restarted

\* So does a change of the phase.
LEMMA PhaseRestarts ==
    ASSUME NEW p, CrypShape(p), p.eng.mode = "GCM"
    PROVE  Restarted(NextPhase(p), p.gcm)
<1> DEFINE q == enter_phase(p)
           r == NextPhase(p)
           e == reset_fifos(p.eng)
<1>1. /\ q = [f \in {"rev", "key", "iv", "gin", "deriving", "cr", "eng", "gcm"} |-> q[f]]
      /\ q.eng = p.eng /\ q.cr = p.cr /\ q.gcm = Entered(p.gcm, p.cr, p.eng)
  BY DEF CrypShape, enter_phase, Entered, InPhase
<1>2. r = [q EXCEPT !.gin = <<>>, !.eng = reset_fifos(q.eng)]
  BY DEF NextPhase
<1> HIDE DEF q, r
<1>3. e.in = <<>> /\ e.out = NoBlock /\ e.key = p.eng.key /\ e.iv = p.eng.iv /\ e.mode = p.eng.mode
  BY DEF CrypShape, reset_fifos
<1>4. r.gin = <<>> /\ r.eng = e /\ r.cr = p.cr /\ r.gcm = Entered(p.gcm, p.cr, p.eng)
  BY <1>1, <1>2
<1> HIDE DEF e
<1>5. Entered(p.gcm, p.cr, e) = Entered(p.gcm, p.cr, p.eng)
  BY <1>3 DEF Entered, gcm_init
<1> QED
  BY <1>3, <1>4, <1>5 DEF Restarted, r

\* The engine is enabled after it was restarted.
LEMMA EnabledRestarts ==
    ASSUME NEW p, CrypShape(p), NEW g, Restarted(p, g), NEW q, q = [p EXCEPT !.eng.enabled = TRUE]
    PROVE  Restarted(q, g)
<1> DEFINE e == [p.eng EXCEPT !.enabled = TRUE]
<1>1. e.in = p.eng.in /\ e.out = p.eng.out /\ e.key = p.eng.key /\ e.iv = p.eng.iv /\ e.mode = p.eng.mode
  BY DEF CrypShape
<1> HIDE DEF e
<1>2. q.gin = p.gin /\ q.eng = e /\ q.cr = p.cr /\ q.gcm = p.gcm
  BY DEF CrypShape, e
<1>3. Entered(g, p.cr, e) = Entered(g, p.cr, p.eng)
  BY <1>1 DEF Entered, gcm_init
<1> QED
  BY <1>1, <1>2, <1>3 DEF Restarted

\* Whole blocks of words in order.
LEMMA CountingWhole ==
    ASSUME NEW words, Counting(words)
    PROVE  Counting(Whole(words)) /\ Counting(<<>>)
<1>1. words \in Seq(Nat) /\ Len(words) \in Nat
  BY LenProperties DEF Counting
<1> DEFINE m == Len(words) - (Len(words) % BLOCK_WORDS)
<1>2. Len(words) % BLOCK_WORDS \in 0..Len(words)
  <2>1. Len(words) % BLOCK_WORDS \in 0..(BLOCK_WORDS - 1)
    BY <1>1, CrypAssumption
  <2>2. Len(words) = BLOCK_WORDS * (Len(words) \div BLOCK_WORDS) + (Len(words) % BLOCK_WORDS)
    BY <1>1, CrypAssumption
  <2>3. Len(words) \div BLOCK_WORDS \in Nat
    BY <1>1, CrypAssumption
  <2>4. BLOCK_WORDS * (Len(words) \div BLOCK_WORDS) \in Nat
    BY <2>3, CrypAssumption
  <2> DEFINE a == BLOCK_WORDS * (Len(words) \div BLOCK_WORDS)
             b == Len(words) % BLOCK_WORDS
             l == Len(words)
  <2> HIDE DEF a, b, l
  <2>5. l = a + b /\ a \in Nat /\ b \in Nat /\ l \in Nat
    BY <1>1, <2>1, <2>2, <2>4, CrypAssumption DEF a, b, l
  <2>6. b \in 0..l
    BY <2>5
  <2> QED
    BY <2>6 DEF b, l
<1>3. m \in 0..Len(words)
  BY <1>1, <1>2
<1> HIDE DEF m
<1>4. /\ SubSeq(words, 1, m) \in Seq(Nat) /\ Len(SubSeq(words, 1, m)) = m
      /\ \A i \in 1..m : SubSeq(words, 1, m)[i] = words[i]
  BY <1>1, <1>3, SubSeqProperties
<1>5. Counting(SubSeq(words, 1, m))
  BY <1>1, <1>3, <1>4 DEF Counting
<1>6. Counting(<<>>)
  BY EmptySeq DEF Counting
<1> QED
  BY <1>5, <1>6 DEF Whole, m

\* A peripheral that restarts, with the message that it goes on with or a new one.
LEMMA RestartOut ==
    ASSUME NEW p, NEW j, p.cr.en, ~j.stuck, HasConfig(p), HasIv(p, 0), j.fed = <<>>,
           NEW g, NEW m, Restarted(p, g), MessageOk(g, m),
           j.msg = IF p.cr.mode = "GCM" /\ p.cr.phase = "Init" THEN NewMessage(p) ELSE m
    PROVE  OutStep(p, j)
<1>1. p.eng.iv = expand_iv(p.iv) /\ p.eng.key = expand_key(p.key, p.cr.size) /\ p.eng.mode = Mode(p.cr)
  BY CrypAssumption DEF HasIv, HasConfig
<1>2. p.gin = <<>> /\ p.eng.in = <<>> /\ p.eng.out = NoBlock
  BY DEF Restarted
<1>3. OutOk(p.eng) /\ p.eng.out.left = 0
  BY <1>2 DEF OutOk, NoBlock
<1>4. Fifo(p.eng, p.iv, 0)
  BY <1>1, <1>2, <1>3, FifoStarts
<1>5. Gathered(p.gin, p.eng.type, 0)
  <2>1. 0 \in 0..(BLOCK_WORDS - 1) /\ 0 = 0 * BLOCK_WORDS + 0 /\ 0 * BLOCK_WORDS = 0
    BY CrypAssumption
  <2>2. p.gin = Run(p.eng.type, 0 * BLOCK_WORDS, 0)
    BY <1>2, <2>1, EmptyRun
  <2> QED
    BY <2>1, <2>2 DEF Gathered
<1>6. Counting(j.fed) /\ Len(j.fed) = 0
  BY EmptySeq DEF Counting
<1>7. MessageOk(p.gcm, j.msg) /\ (p.eng.mode = "GCM" /\ j.msg.ok => p.gcm.phase = p.cr.phase)
  <2>1. CASE p.eng.mode # "GCM"
    <3>1. p.cr.mode # "GCM" /\ p.gcm = g
      BY <1>1, <2>1 DEF Mode, Restarted
    <3> QED
      BY <2>1, <3>1
  <2>2. CASE p.eng.mode = "GCM" /\ p.cr.phase = "Init"
    <3>1. p.cr.mode = "GCM" /\ p.gcm = gcm_init(p.eng)
      BY <1>1, <2>2 DEF Mode, Restarted, Entered
    <3>2. j.msg = NewMessage(p)
      BY <2>2, <3>1
    <3>3. MessageOk(gcm_init(p.eng), NewMessage(p)) /\ gcm_init(p.eng).phase = "Init"
      BY <1>1, MessageStarts
    <3> QED
      BY <2>2, <3>1, <3>2, <3>3
  <2>3. CASE p.eng.mode = "GCM" /\ p.cr.phase # "Init"
    <3> DEFINE f == InPhase(g, p.cr.phase)
    <3>1. p.gcm = f /\ j.msg = m
      BY <2>3 DEF Restarted, Entered
    <3>2. MessageOk(f, m) /\ (m.ok => f.phase = p.cr.phase)
      BY MessageGoesOn
    <3> HIDE DEF f
    <3> QED
      BY <3>1, <3>2
  <2> QED
    BY <2>1, <2>2, <2>3
<1> QED
  BY <1>3, <1>4, <1>5, <1>6, <1>7 DEF OutStep

\* History j follows a write of CR that leaves peripheral p.
IsReconfigured(j, cr, flush, p) ==
    LET same == cryp.cr.en /\ cr.en /\ AlgBits(cr) = AlgBits(cryp.cr)
    IN  /\ j.stuck = (/\ cryp.rev = "v1" /\ cryp.cr.en /\ cr.en
                      /\ job.stuck \/ (~same /\ cryp.cr.mode = "GCM"))
        /\ j.fed = IF same /\ cr.mode # "GCM" THEN (IF flush THEN Whole(job.fed) ELSE job.fed) ELSE <<>>
        /\ j.msg = IF j.stuck THEN NoMessage
                   ELSE IF cr.en /\ cr.mode = "GCM" /\ cr.phase = "Init" THEN NewMessage(p)
                   ELSE job.msg
        /\ Counting(j.fed)

\* What the driver knows after a write of CR.
LEMMA ConfiguredJob ==
    ASSUME CrypInv, OutStep(cryp, job), NEW cr, cr.en \in BOOLEAN, NEW flush \in BOOLEAN, NEW p,
           p.cr = cr, p.key = cryp.key, p.iv = cryp.iv
    PROVE  IsReconfigured(Configured(cr, flush), cr, flush, p)
<1> DEFINE j == Configured(cr, flush)
           same == cryp.cr.en /\ cr.en /\ AlgBits(cr) = AlgBits(cryp.cr)
<1>0. CrypShape(cryp) /\ cryp.cr.en \in BOOLEAN /\ job.stuck \in BOOLEAN
  BY DEF CrypInv, CrypOk, JobOk
<1>1. NewMessage([cryp EXCEPT !.cr = cr]) = NewMessage(p)
  BY <1>0 DEF NewMessage, CrypShape
<1> DEFINE new == NewMessage(p)
<1> HIDE DEF new
<1>2. j = [stuck |-> /\ cryp.rev = "v1" /\ cryp.cr.en /\ cr.en
                     /\ job.stuck \/ (~same /\ cryp.cr.mode = "GCM"),
           fed |-> IF same /\ cr.mode # "GCM" THEN (IF flush THEN Whole(job.fed) ELSE job.fed) ELSE <<>>,
           msg |-> IF /\ cryp.rev = "v1" /\ cryp.cr.en /\ cr.en
                      /\ job.stuck \/ (~same /\ cryp.cr.mode = "GCM") THEN NoMessage
                   ELSE IF cr.en /\ cr.mode = "GCM" /\ cr.phase = "Init" THEN new ELSE job.msg]
  BY <1>1 DEF Configured, new
<1> HIDE DEF j
<1>3. /\ j.stuck = (/\ cryp.rev = "v1" /\ cryp.cr.en /\ cr.en
                    /\ job.stuck \/ (~same /\ cryp.cr.mode = "GCM"))
      /\ j.fed = IF same /\ cr.mode # "GCM" THEN (IF flush THEN Whole(job.fed) ELSE job.fed) ELSE <<>>
      /\ j.msg = IF j.stuck THEN NoMessage
                 ELSE IF cr.en /\ cr.mode = "GCM" /\ cr.phase = "Init" THEN new ELSE job.msg
  BY <1>2
<1>4. Counting(job.fed) /\ Counting(Whole(job.fed)) /\ Counting(<<>>)
  BY CountingWhole DEF OutStep
<1>5. Counting(j.fed)
  BY <1>3, <1>4
<1> QED
  BY <1>3, <1>5 DEF IsReconfigured, j, new

\* A write of CR that leaves the engine alone, or clears its FIFOs.
LEMMA ContinueOut ==
    ASSUME CrypInv, OutStep(cryp, job), cryp.cr.en, ~job.stuck, NEW flush \in BOOLEAN,
           NEW p, NEW j, p.cr.en, ~j.stuck, p.gcm = cryp.gcm, p.iv = cryp.iv, p.eng.mode # "GCM",
           p.eng = IF flush THEN reset_fifos(cryp.eng) ELSE cryp.eng,
           j.fed = IF flush THEN Whole(job.fed) ELSE job.fed, j.msg = job.msg
    PROVE  OutStep(p, j)
<1>1. Counting(job.fed) /\ Counting(Whole(job.fed)) /\ MessageOk(p.gcm, j.msg)
  BY CountingWhole DEF OutStep
<1>2. IsEngine(cryp.eng)
  BY DEF CrypInv, CrypOk, CrypShape, IsEngine, EngineFields
<1>3. cryp.eng.mode # "GCM"
  BY <1>2 DEF IsEngine, EngineFields, reset_fifos
<1>4. Fifo(cryp.eng, cryp.iv, Len(job.fed))
  BY <1>3 DEF OutStep
<1>5. flush => Fifo(reset_fifos(cryp.eng), cryp.iv, Len(Whole(job.fed)))
  BY <1>1, <1>2, <1>4, FifoCleared DEF Counting
<1>6. Fifo(p.eng, p.iv, Len(j.fed)) /\ Counting(j.fed)
  BY <1>1, <1>4, <1>5
<1> QED
  BY <1>1, <1>6 DEF OutStep

\* A write of CR on v1.
LEMMA ConfigureOutV1 ==
    ASSUME CrypInv, OutStep(cryp, job), cryp.rev = "v1", NEW cr \in Crs["v1"], NEW flush \in BOOLEAN
    PROVE  OutStep(write_cr_v1(cryp, cr, flush), Configured(cr, flush))
<1> DEFINE q == WithCr(cryp, cr, flush)
           j == Configured(cr, flush)
           r == write_cr_v1(cryp, cr, flush)
           same == cryp.cr.en /\ cr.en /\ AlgBits(cr) = AlgBits(cryp.cr)
<1> SUFFICES OutStep(r, j)
  OBVIOUS
<1>0. /\ cr.en \in BOOLEAN /\ CrypShape(cryp) /\ cryp.cr.en \in BOOLEAN
      /\ cryp.cr.en /\ ~job.stuck => HasConfig(cryp)
  BY CrypAssumption DEF CrypInv, CrypOk, InStep
<1>1. /\ CrypShape(q) /\ q.cr = cr /\ q.rev = "v1" /\ q.key = cryp.key /\ q.iv = cryp.iv
      /\ q.eng = IF flush THEN reset_fifos(cryp.eng) ELSE cryp.eng
  BY <1>0, CrWritten
<1>2. q.gcm = cryp.gcm
  BY <1>0 DEF WithCr, CrypShape
<1>3. r = CASE ~cryp.cr.en /\ cr.en -> [commit_config(q) EXCEPT !.eng.enabled = TRUE]
            [] cryp.cr.en /\ ~cr.en -> [q EXCEPT !.eng.enabled = FALSE]
            [] cryp.cr.en /\ cr.en /\ q.eng.mode = "GCM" -> NextPhase(q)
            [] cryp.cr.en /\ cr.en /\ q.eng.mode # "GCM" /\ AlgBits(cr) # AlgBits(cryp.cr) -> commit_config(q)
            [] OTHER -> q
  BY DEF write_cr_v1, WithCr
<1>4. InStep(r, j) /\ MessageOk(cryp.gcm, job.msg)
  BY ConfigureV1 DEF OutStep
<1> HIDE DEF q, r
<1>5. q.eng.mode = cryp.eng.mode
  <2>1. reset_fifos(cryp.eng).mode = cryp.eng.mode
    BY <1>0, Resets DEF SameEngine, SameConfig
  <2> QED
    BY <1>1, <2>1
<1>6. ASSUME NEW p, p.cr = cr, p.key = cryp.key, p.iv = cryp.iv
      PROVE  /\ j.stuck = (cryp.cr.en /\ cr.en /\ (job.stuck \/ (~same /\ cryp.cr.mode = "GCM")))
             /\ j.fed = IF same /\ cr.mode # "GCM" THEN (IF flush THEN Whole(job.fed) ELSE job.fed) ELSE <<>>
             /\ j.msg = IF j.stuck THEN NoMessage
                        ELSE IF cr.en /\ cr.mode = "GCM" /\ cr.phase = "Init" THEN NewMessage(p)
                        ELSE job.msg
             /\ Counting(j.fed)
  <2>1. IsReconfigured(j, cr, flush, p)
    BY <1>0, <1>6, ConfiguredJob
  <2> HIDE DEF j
  <2> QED
    BY <1>0, <2>1 DEF IsReconfigured
<1>7. /\ j.stuck = (cryp.cr.en /\ cr.en /\ (job.stuck \/ (~same /\ cryp.cr.mode = "GCM")))
      /\ j.fed = IF same /\ cr.mode # "GCM" THEN (IF flush THEN Whole(job.fed) ELSE job.fed) ELSE <<>>
      /\ j.msg = IF j.stuck THEN NoMessage
                 ELSE IF cr.en /\ cr.mode = "GCM" /\ cr.phase = "Init" THEN NewMessage(q)
                 ELSE job.msg
      /\ Counting(j.fed)
  BY <1>1, <1>6
<1> HIDE DEF j
<1>8. ASSUME cr.en, ~j.stuck, Restarted(r, cryp.gcm), SameRegisters(q, r), j.fed = <<>>
      PROVE  OutStep(r, j)
  <2>1. r.cr = cr /\ r.key = cryp.key /\ r.iv = cryp.iv
    BY <1>1, <1>8 DEF SameRegisters
  <2>2. j.msg = IF r.cr.mode = "GCM" /\ r.cr.phase = "Init" THEN NewMessage(r) ELSE job.msg
    BY <1>6, <1>8, <2>1
  <2>3. HasConfig(r) /\ HasIv(r, 0)
    BY <1>4, <1>8, <2>1, EmptyFifo DEF InStep
  <2> QED
    BY <1>4, <1>8, <2>1, <2>2, <2>3, RestartOut
<1>9. CASE j.stuck
  <2>1. ~j.msg.ok
    BY <1>7, <1>9 DEF NoMessage
  <2> QED
    BY <1>7, <1>9, <2>1 DEF OutStep, MessageOk
<1>10. CASE ~j.stuck /\ ~cr.en
  <2>1. r.gcm = cryp.gcm /\ r.cr = cr
    <3>1. CASE cryp.cr.en
      <4>1. r = [q EXCEPT !.eng.enabled = FALSE]
        BY <1>3, <1>10, <3>1
      <4> QED
        BY <1>1, <1>2, <4>1 DEF CrypShape
    <3>2. CASE ~cryp.cr.en
      BY <1>1, <1>2, <1>3, <1>10, <3>2
    <3> QED
      BY <3>1, <3>2
  <2>2. j.msg = job.msg
    BY <1>7, <1>10
  <2> QED
    BY <1>4, <1>7, <1>10, <2>1, <2>2 DEF OutStep
<1>11. CASE ~j.stuck /\ cr.en /\ ~cryp.cr.en
  <2> DEFINE c == commit_config(q)
  <2>1. CrypShape(c) /\ SameRegisters(q, c) /\ Restarted(c, cryp.gcm)
    BY <1>1, <1>2, Commits, CommitRestarts
  <2>2. r = [c EXCEPT !.eng.enabled = TRUE]
    BY <1>3, <1>11
  <2> HIDE DEF c
  <2>3. Restarted(r, cryp.gcm)
    BY <2>1, <2>2, EnabledRestarts
  <2>4. SameRegisters(q, r)
    BY <2>1, <2>2 DEF SameRegisters, CrypShape
  <2>5. j.fed = <<>>
    BY <1>7, <1>11
  <2> QED
    BY <1>8, <1>11, <2>3, <2>4, <2>5
<1>12. CASE ~j.stuck /\ cr.en /\ cryp.cr.en
  <2>1. ~job.stuck /\ HasConfig(cryp) /\ (same \/ cryp.cr.mode # "GCM")
    BY <1>0, <1>7, <1>12 DEF CrypInv, JobOk
  <2>2. q.eng.mode = "GCM" <=> cryp.cr.mode = "GCM"
    BY <1>5, <2>1 DEF HasConfig, Mode
  <2>3. same => cr.mode = cryp.cr.mode
    BY DEF AlgBits
  <2>4. CASE cryp.cr.mode = "GCM"
    <3>1. r = NextPhase(q)
      BY <1>3, <1>12, <2>2, <2>4
    <3>2. Restarted(r, cryp.gcm) /\ SameRegisters(q, r)
      BY <1>1, <1>2, <2>2, <2>4, <3>1, PhaseChanges, PhaseRestarts
    <3>3. j.fed = <<>>
      BY <1>7, <2>1, <2>3, <2>4
    <3> QED
      BY <1>8, <1>12, <3>2, <3>3
  <2>5. CASE cryp.cr.mode # "GCM" /\ ~same
    <3>1. r = commit_config(q)
      BY <1>3, <1>12, <2>2, <2>5
    <3>2. Restarted(r, cryp.gcm) /\ SameRegisters(q, r)
      BY <1>1, <1>2, <3>1, Commits, CommitRestarts
    <3>3. j.fed = <<>>
      BY <1>7, <2>5
    <3> QED
      BY <1>8, <1>12, <3>2, <3>3
  <2>6. CASE cryp.cr.mode # "GCM" /\ same
    <3>1. r = q
      BY <1>3, <1>12, <2>2, <2>6
    <3>2. j.fed = (IF flush THEN Whole(job.fed) ELSE job.fed) /\ j.msg = job.msg
      BY <1>7, <1>12, <2>3, <2>6
    <3> QED
      BY <1>1, <1>2, <1>12, <2>1, <2>2, <2>6, <3>1, <3>2, ContinueOut
  <2> QED
    BY <2>4, <2>5, <2>6
<1> QED
  BY <1>0, <1>9, <1>10, <1>11, <1>12

\* A write of CR on v2.
LEMMA ConfigureOutV2 ==
    ASSUME CrypInv, OutStep(cryp, job), cryp.rev = "v2", NEW cr \in Crs["v2"]
    PROVE  OutStep(write_cr_v2(cryp, cr), Configured(cr, FALSE))
<1> DEFINE q == [cryp EXCEPT !.cr = cr]
           j == Configured(cr, FALSE)
           r == write_cr_v2(cryp, cr)
           same == cryp.cr.en /\ cr.en /\ AlgBits(cr) = AlgBits(cryp.cr)
<1> SUFFICES OutStep(r, j)
  OBVIOUS
<1>0. /\ cr.en \in BOOLEAN /\ CrypShape(cryp) /\ cryp.cr.en \in BOOLEAN /\ ~job.stuck
      /\ cryp.cr.en => HasConfig(cryp)
  BY CrypAssumption DEF CrypInv, CrypOk, InStep
<1>1. /\ CrypShape(q) /\ q.cr = cr /\ q.key = cryp.key /\ q.iv = cryp.iv /\ q.eng = cryp.eng
      /\ q.gcm = cryp.gcm
  BY <1>0 DEF CrypShape
<1>3. r = CASE ~cryp.cr.en /\ cr.en -> [commit_config(q) EXCEPT !.eng.enabled = TRUE]
            [] cryp.cr.en /\ ~cr.en -> [q EXCEPT !.eng.enabled = FALSE, !.deriving = FALSE]
            [] cryp.cr.en /\ cr.en /\ AlgBits(cr) # AlgBits(cryp.cr) ->
                  [commit_config(q) EXCEPT !.eng.enabled = TRUE]
            [] cryp.cr.en /\ cr.en /\ AlgBits(cr) = AlgBits(cryp.cr) /\ q.eng.mode = "GCM" -> NextPhase(q)
            [] OTHER -> q
  BY DEF write_cr_v2
<1>4. InStep(r, j) /\ MessageOk(cryp.gcm, job.msg)
  BY ConfigureV2 DEF OutStep
<1> HIDE DEF q, r
<1>6. ASSUME NEW p, p.cr = cr, p.key = cryp.key, p.iv = cryp.iv
      PROVE  /\ ~j.stuck
             /\ j.fed = IF same /\ cr.mode # "GCM" THEN job.fed ELSE <<>>
             /\ j.msg = IF cr.en /\ cr.mode = "GCM" /\ cr.phase = "Init" THEN NewMessage(p)
                        ELSE job.msg
             /\ Counting(j.fed)
  <2>1. IsReconfigured(j, cr, FALSE, p)
    <3>1. \A flush \in BOOLEAN : IsReconfigured(Configured(cr, flush), cr, flush, p)
      BY <1>0, <1>6, ConfiguredJob
    <3> QED
      BY <3>1, Zenon
  <2> HIDE DEF j
  <2> QED
    BY <1>0, <2>1 DEF IsReconfigured
<1>7. /\ ~j.stuck
      /\ j.fed = IF same /\ cr.mode # "GCM" THEN job.fed ELSE <<>>
      /\ j.msg = IF cr.en /\ cr.mode = "GCM" /\ cr.phase = "Init" THEN NewMessage(q) ELSE job.msg
      /\ Counting(j.fed)
  BY <1>1, <1>6
<1> HIDE DEF j
<1>8. ASSUME cr.en, Restarted(r, cryp.gcm), SameRegisters(q, r), j.fed = <<>>
      PROVE  OutStep(r, j)
  <2>1. r.cr = cr /\ r.key = cryp.key /\ r.iv = cryp.iv
    BY <1>1, <1>8 DEF SameRegisters
  <2>2. j.msg = IF r.cr.mode = "GCM" /\ r.cr.phase = "Init" THEN NewMessage(r) ELSE job.msg
    BY <1>6, <1>8, <2>1
  <2>3. HasConfig(r) /\ HasIv(r, 0)
    BY <1>4, <1>7, <1>8, <2>1, EmptyFifo DEF InStep
  <2> QED
    BY <1>4, <1>7, <1>8, <2>1, <2>2, <2>3, RestartOut
<1>10. CASE ~cr.en
  <2>1. r.gcm = cryp.gcm /\ r.cr = cr
    <3>1. CASE cryp.cr.en
      <4>1. r = [q EXCEPT !.eng.enabled = FALSE, !.deriving = FALSE]
        BY <1>3, <1>10, <3>1
      <4> QED
        BY <1>1, <4>1 DEF CrypShape
    <3>2. CASE ~cryp.cr.en
      BY <1>1, <1>3, <1>10, <3>2
    <3> QED
      BY <3>1, <3>2
  <2>2. j.msg = job.msg
    BY <1>7, <1>10
  <2> QED
    BY <1>4, <1>7, <1>10, <2>1, <2>2 DEF OutStep
<1>11. CASE cr.en /\ ~same
  <2> DEFINE c == commit_config(q)
  <2>1. CrypShape(c) /\ SameRegisters(q, c) /\ Restarted(c, cryp.gcm)
    BY <1>1, Commits, CommitRestarts
  <2>2. r = [c EXCEPT !.eng.enabled = TRUE]
    BY <1>0, <1>3, <1>11
  <2> HIDE DEF c
  <2>3. Restarted(r, cryp.gcm)
    BY <2>1, <2>2, EnabledRestarts
  <2>4. SameRegisters(q, r)
    BY <2>1, <2>2 DEF SameRegisters, CrypShape
  <2>5. j.fed = <<>>
    BY <1>7, <1>11
  <2> QED
    BY <1>8, <1>11, <2>3, <2>4, <2>5
<1>12. CASE same
  <2>1. HasConfig(cryp) /\ cr.mode = cryp.cr.mode
    BY <1>0, <1>12 DEF AlgBits
  <2>2. q.eng.mode = "GCM" <=> cr.mode = "GCM"
    BY <1>1, <2>1 DEF HasConfig, Mode
  <2>3. CASE cr.mode = "GCM"
    <3>1. r = NextPhase(q)
      BY <1>3, <1>12, <2>2, <2>3
    <3>2. Restarted(r, cryp.gcm) /\ SameRegisters(q, r)
      BY <1>1, <2>2, <2>3, <3>1, PhaseChanges, PhaseRestarts
    <3>3. j.fed = <<>>
      BY <1>7, <2>3
    <3> QED
      BY <1>8, <1>12, <3>2, <3>3
  <2>4. CASE cr.mode # "GCM"
    <3>1. r = q
      BY <1>3, <1>12, <2>2, <2>4
    <3>2. j.fed = job.fed /\ j.msg = job.msg
      BY <1>7, <1>12, <2>4
    <3> QED
      BY <1>0, <1>1, <1>7, <1>12, <2>2, <2>4, <3>1, <3>2, ContinueOut
  <2> QED
    BY <2>3, <2>4
<1> QED
  BY <1>0, <1>10, <1>11, <1>12

\* A key or an IV is written before the first word.
LEMMA RegistersOut ==
    ASSUME CrypInv, OutStep(cryp, job), NEW p, CrypInv', cryp' = p, job' = job, job.fed = <<>>,
           p.cr = cryp.cr, p.gcm = cryp.gcm, p.gin = cryp.gin, p.eng.in = cryp.eng.in,
           p.eng.out = cryp.eng.out, p.eng.mode = cryp.eng.mode, p.eng.type = cryp.eng.type
    PROVE  OutStep(p, job)
<1>1. Len(job.fed) = 0
  BY EmptyFifo
<1>2. ASSUME p.cr.en, ~job.stuck, p.eng.mode # "GCM" PROVE Fifo(p.eng, p.iv, Len(job.fed))
  <2>1. Fifo(cryp.eng, cryp.iv, 0)
    BY <1>1, <1>2 DEF OutStep
  <2>2. p.eng.in = <<>> /\ OutOk(p.eng) /\ p.eng.out.left = 0
    BY <2>1, FifoIsEmpty DEF OutOk
  <2>3. InStep(p, job)
    BY DEF CrypInv
  <2>4. p.eng.iv = expand_iv(p.iv)
    BY <1>1, <1>2, <2>3, CrypAssumption DEF InStep, HasIv
  <2> QED
    BY <1>1, <2>2, <2>4, FifoStarts
<1>3. OutOk(cryp.eng) => OutOk(p.eng)
  BY DEF OutOk
<1> QED
  BY <1>2, <1>3 DEF OutStep

\* A word is read.
LEMMA ReadOut ==
    ASSUME CrypInv, OutStep(cryp, job), NEW p, p = [cryp EXCEPT !.eng = read_dout(@)]
    PROVE  OutStep(p, job)
<1> DEFINE e == cryp.eng
           f == read_dout(e)
<1>1. CrypShape(cryp) /\ IsEngine(e)
  BY DEF CrypInv, CrypOk, CrypShape, IsEngine, EngineFields
<1> HIDE DEF f
<1>2. p.eng = f /\ p.cr = cryp.cr /\ p.gcm = cryp.gcm /\ p.gin = cryp.gin /\ p.iv = cryp.iv
  BY <1>1 DEF CrypShape, f
<1>3. ASSUME OutOk(e)
      PROVE  /\ OutOk(f) /\ SameEngine(e, f) /\ f.in = e.in
             /\ f.out.left > 0 => e.out.left > 0 /\ f.out.block = e.out.block
  <2>1. CASE e.out.left = 0
    BY <1>3, <2>1 DEF f, read_dout, SameEngine, SameConfig
  <2>2. CASE e.out.left # 0
    <3> DEFINE l == e.out.left
               b == e.out.block
    <3>1. l \in Nat /\ l > 0 /\ e.out = [left |-> l, block |-> b] /\ l - 1 \in Nat
      BY <1>3, <2>2 DEF OutOk
    <3>2. f = [e EXCEPT !.out.left = l - 1]
      BY <2>2 DEF f, read_dout
    <3> HIDE DEF l, b
    <3>3. f = [e EXCEPT !.out = [left |-> l - 1, block |-> b]]
      BY <3>1, <3>2
    <3>4. f.out = [left |-> l - 1, block |-> b] /\ SameEngine(e, f) /\ f.in = e.in
      BY <1>1, <3>3 DEF IsEngine, EngineFields, SameEngine, SameConfig
    <3>5. f.out.left = l - 1 /\ f.out.block = b
      BY <3>4
    <3>6. OutOk(f)
      BY <3>1, <3>4, <3>5 DEF OutOk
    <3> QED
      BY <3>1, <3>4, <3>5, <3>6 DEF l, b
  <2> QED
    BY <2>1, <2>2
<1>4. OutOk(e) => f.mode = e.mode /\ f.type = e.type
  BY <1>3 DEF SameEngine, SameConfig
<1>5. ASSUME p.cr.en, ~job.stuck PROVE OutOk(e)
  BY <1>2, <1>5 DEF OutStep, Fifo
<1>6. ASSUME p.cr.en, ~job.stuck, p.eng.mode # "GCM" PROVE Fifo(p.eng, p.iv, Len(job.fed))
  <2>1. Fifo(e, cryp.iv, Len(job.fed))
    BY <1>2, <1>4, <1>5, <1>6 DEF OutStep
  <2> QED
    BY <1>2, <1>3, <1>5, <1>6, <2>1, FifoDepends
<1>7. ASSUME p.cr.en, ~job.stuck, p.eng.mode = "GCM"
      PROVE  /\ job.msg.ok => p.gcm.phase = p.cr.phase
             /\ Gathered(p.gin, p.eng.type, Len(job.fed)) /\ OutOk(p.eng)
             /\ p.eng.out.left > 0 => job.msg.ok /\ p.eng.out.block = GcmOut(job.msg)
  <2>1. /\ e.mode = "GCM" /\ p.eng.type = e.type /\ OutOk(f)
        /\ f.out.left > 0 => e.out.left > 0 /\ f.out.block = e.out.block
    BY <1>2, <1>3, <1>4, <1>5, <1>7
  <2> QED
    BY <1>2, <1>7, <2>1 DEF OutStep
<1> QED
  BY <1>2, <1>6, <1>7 DEF OutStep

\* The words in order, and the output of the modes of operation.
OutInv == CrypInv /\ OutStep(cryp, job)

\* The inductive invariant holds after reset.
LEMMA OutInvInit == CrypInit => OutInv
<1> SUFFICES ASSUME CrypInit PROVE OutInv
  OBVIOUS
<1>1. CrypInv
  BY CrypInvInit
<1>2. /\ job.fed = <<>> /\ ~job.stuck /\ job.msg = NoMessage /\ ~cryp.cr.en
  BY DEF CrypInit, CrypReset
<1>3. ~job.msg.ok
  BY <1>2 DEF NoMessage
<1>4. Counting(job.fed)
  BY <1>2, EmptySeq DEF Counting
<1> QED
  BY <1>1, <1>2, <1>3, <1>4 DEF OutInv, OutStep, MessageOk

\* Every write and read of a register keeps it.
LEMMA OutInvStep == OutInv /\ [CrypNext]_crypvars => OutInv'
<1> SUFFICES ASSUME OutInv, [CrypNext]_crypvars PROVE OutInv'
  OBVIOUS
<1>0. CrypInv /\ OutStep(cryp, job) /\ CrypShape(cryp)
  BY DEF OutInv, CrypInv, CrypOk
<1>1. CrypInv'
  BY <1>0, CrypInvStep
<1> SUFFICES OutStep(cryp', job')
  BY <1>1 DEF OutInv
<1>2. ASSUME NEW cr \in Crs[cryp.rev], NEW flush \in IF cryp.rev = "v1" THEN BOOLEAN ELSE {FALSE},
             Configure(cr, flush)
      PROVE  OutStep(cryp', job')
  <2>1. CASE cryp.rev = "v1"
    BY <1>0, <1>2, <2>1, ConfigureOutV1 DEF Configure
  <2>2. CASE cryp.rev = "v2"
    BY <1>0, <1>2, <2>2, ConfigureOutV2 DEF Configure
  <2> QED
    BY <1>0, <2>1, <2>2 DEF CrypInv, CrypOk
<1>3. ASSUME NEW i, NEW k, WriteKey(i, k) PROVE OutStep(cryp', job')
  <2> DEFINE q == [cryp EXCEPT !.key[i] = k]
             x == expand_key(q.key, cryp.eng.size)
             r == [q EXCEPT !.eng.key = x]
  <2>1. job.fed = <<>> /\ job' = job /\ cryp' = IF cryp.eng.enabled THEN r ELSE q
    BY <1>3 DEF WriteKey, write_key
  <2>2. /\ CrypShape(q) /\ q.cr = cryp.cr /\ q.gcm = cryp.gcm /\ q.gin = cryp.gin /\ q.eng = cryp.eng
    BY <1>0 DEF CrypShape
  <2> HIDE DEF q, x
  <2>3. /\ r.cr = q.cr /\ r.gcm = q.gcm /\ r.gin = q.gin /\ r.eng.in = q.eng.in
        /\ r.eng.out = q.eng.out /\ r.eng.mode = q.eng.mode /\ r.eng.type = q.eng.type
    BY <2>2 DEF CrypShape
  <2> HIDE DEF r
  <2>4. /\ cryp'.cr = cryp.cr /\ cryp'.gcm = cryp.gcm /\ cryp'.gin = cryp.gin
        /\ cryp'.eng.in = cryp.eng.in /\ cryp'.eng.out = cryp.eng.out
        /\ cryp'.eng.mode = cryp.eng.mode /\ cryp'.eng.type = cryp.eng.type
    BY <2>1, <2>2, <2>3
  <2> QED
    BY <1>0, <1>1, <2>1, <2>4, RegistersOut
<1>4. ASSUME NEW iv, WriteIv(iv) PROVE OutStep(cryp', job')
  <2> DEFINE q == [cryp EXCEPT !.iv = iv]
             r == [q EXCEPT !.eng.iv = expand_iv(iv)]
  <2>1. job.fed = <<>> /\ job' = job /\ cryp' = IF cryp.rev = "v2" \/ cryp.eng.enabled THEN r ELSE q
    BY <1>4 DEF WriteIv, write_iv
  <2>2. /\ CrypShape(q) /\ q.cr = cryp.cr /\ q.gcm = cryp.gcm /\ q.gin = cryp.gin /\ q.eng = cryp.eng
    BY <1>0 DEF CrypShape
  <2> HIDE DEF q
  <2>3. /\ r.cr = q.cr /\ r.gcm = q.gcm /\ r.gin = q.gin /\ r.eng.in = q.eng.in
        /\ r.eng.out = q.eng.out /\ r.eng.mode = q.eng.mode /\ r.eng.type = q.eng.type
    BY <2>2 DEF CrypShape
  <2> HIDE DEF r
  <2>4. /\ cryp'.cr = cryp.cr /\ cryp'.gcm = cryp.gcm /\ cryp'.gin = cryp.gin
        /\ cryp'.eng.in = cryp.eng.in /\ cryp'.eng.out = cryp.eng.out
        /\ cryp'.eng.mode = cryp.eng.mode /\ cryp'.eng.type = cryp.eng.type
    BY <2>1, <2>2, <2>3
  <2> QED
    BY <1>0, <1>1, <2>1, <2>4, RegistersOut
<1>5. ASSUME NEW pad, Feed(pad) PROVE OutStep(cryp', job')
  BY <1>0, <1>5, FeedOut
<1>6. CASE Read
  BY <1>0, <1>6, ReadOut DEF Read
<1>7. CASE UNCHANGED crypvars
  BY <1>0, <1>7 DEF crypvars
<1> QED
  BY <1>2, <1>3, <1>4, <1>5, <1>6, <1>7 DEF CrypNext

\* A block that waits to be read on the AES peripheral is the one that ECB, CBC or CTR gives for
\* the words since the last configuration, or the payload block or (with no padded block) the tag
\* of the GCM message, for messages of every length, in whatever order the registers are written, on both register
\* layouts, unless v1 left GCM without being disabled (cryp/mod.rs, cryp/v1.rs, cryp/v2.rs).
THEOREM OutputsAreReference == CrypSpec => []OutputIsReference
<1>1. OutInv => OutputIsReference
  <2> SUFFICES ASSUME OutInv, cryp.cr.en, ~job.stuck, cryp.eng.out.left > 0
               PROVE  \/ /\ Mode(cryp.cr) \in {"ECB", "CBC", "CTR"}
                         /\ cryp.eng.out.block = RefOutput(Len(job.fed) \div BLOCK_WORDS)
                      \/ /\ Mode(cryp.cr) = "GCM" /\ job.msg.ok
                         /\ cryp.eng.out.block = GcmOut(job.msg)
    <3> DEFINE m == job.msg
    <3>1. ASSUME m.ok, m.padding = NoPadding, MessageOk(cryp.gcm, m) PROVE RefTag(m) = WholeTag(m)
      <4>1. Len(m.aad) * BLOCK_WORDS \in Nat /\ Len(m.text) * BLOCK_WORDS \in Nat
        BY <3>1, SequenceGrows, WordsGrow DEF MessageOk
      <4>2. LengthBlock(m) = [aad |-> Len(m.aad) * BLOCK_WORDS, text |-> Len(m.text) * BLOCK_WORDS]
        BY <3>1, <4>1 DEF LengthBlock, NoPadding
      <4> QED
        BY <4>2 DEF RefTag, WholeTag, Ciphertext
    <3>2. OutInv => MessageOk(cryp.gcm, m) /\ (m.ok => m.done \in BOOLEAN)
      BY DEF OutInv, OutStep, MessageOk
    <3> QED
      BY <3>1, <3>2 DEF OutputIsReference, GcmOut
  <2>1. HasConfig(cryp) /\ OutStep(cryp, job) /\ Counting(job.fed)
    BY DEF OutInv, CrypInv, InStep, OutStep
  <2>2. CASE cryp.eng.mode = "GCM"
    BY <2>1, <2>2 DEF OutStep, HasConfig
  <2>3. CASE cryp.eng.mode # "GCM"
    <3>1. Fifo(cryp.eng, cryp.iv, Len(job.fed))
      BY <2>1, <2>3 DEF OutStep
    <3>2. PICK n \in Nat, r \in 0..(BLOCK_WORDS - 1) :
             Len(job.fed) = n * BLOCK_WORDS + r /\ n > 0 /\ IsOut(cryp.eng, cryp.iv, n, cryp.eng.out.block)
      BY <3>1 DEF Fifo
    <3>3. Len(job.fed) \div BLOCK_WORDS = n /\ n * BLOCK_WORDS \in Nat
      BY <3>2, BlocksAndWords
    <3>4. n \in Nat \ {0} /\ n * BLOCK_WORDS <= Len(job.fed)
      BY <3>2, <3>3, CrypAssumption
    <3>5. Mode(cryp.cr) \in {"ECB", "CBC", "CTR"} /\ cryp.eng.out.block = RefOutput(n)
      BY <2>1, <3>2, <3>4, OutIsReference
    <3> QED
      BY <3>3, <3>5
  <2> QED
    BY <2>2, <2>3
<1> QED
  BY <1>1, OutInvInit, OutInvStep, PTL DEF CrypSpec

-----------------------------------------------------------------------------
(***************************************************************************)
(* The crypto engine of the PIC32MZ.                                       *)
(***************************************************************************)
\* Every set of numbers that holds 0 and with every number the next one holds them all.
LEMMA Induction ==
    ASSUME NEW S, 0 \in S, \A n \in Nat : n \in S => n + 1 \in S
    PROVE  Nat \subseteq S
<1> SUFFICES ASSUME ~(Nat \subseteq S) PROVE FALSE
  OBVIOUS
<1> DEFINE T == {n \in Nat : n \notin S}
           R == OpToRel(<, Nat)
<1>1. T \subseteq Nat /\ T # {}
  OBVIOUS
<1>2. IsWellFoundedOn(R, Nat)
  BY NatLessThanWellFounded
<1>3. \A m, n \in Nat : m < n => <<m, n>> \in R
  BY DEF OpToRel
<1> HIDE DEF T, R
<1>4. PICK n \in T : \A m \in T : ~ (<<m, n>> \in R)
  BY <1>1, <1>2, WFMin
<1>5. n \in Nat /\ n # 0
  BY <1>1 DEF T
<1>6. n - 1 \in Nat /\ n = (n - 1) + 1 /\ n - 1 < n
  BY <1>5
<1>7. n - 1 \notin T
  BY <1>3, <1>4, <1>5, <1>6
<1> QED
  BY <1>5, <1>6, <1>7 DEF T

\* The positions from i to j.
LEMMA PositionsAre ==
    ASSUME NEW i \in Nat, NEW j \in Nat, i <= j + 1
    PROVE  /\ Positions(i, j) \in Seq(Nat) /\ Len(Positions(i, j)) = j - i + 1
           /\ \A n \in 1..(j - i + 1) : Positions(i, j)[n] = i + n - 1
<1> DEFINE m == j - i + 1
           f == Positions(i, j)
<1>1. m \in Nat /\ f = [n \in 1..m |-> i + n - 1]
  BY DEF Positions
<1>2. \A n \in 1..m : i + n - 1 \in Nat
  OBVIOUS
<1> HIDE DEF m, f
<1>3. f \in [1..m -> Nat]
  BY <1>1, <1>2
<1>4. f \in Seq(Nat)
  BY <1>1, <1>3, SeqDef
<1>5. Len(f) = m
  <2>1. DOMAIN f = 1..m /\ DOMAIN f = 1..Len(f) /\ Len(f) \in Nat
    BY <1>3, <1>4, LenProperties
  <2> DEFINE l == Len(f)
  <2>2. l \in Nat /\ 1..l = 1..m
    BY <2>1
  <2> HIDE DEF l
  <2>3. l = m
    BY <1>1, <2>2
  <2> QED
    BY <2>3 DEF l
<1>6. \A n \in 1..m : f[n] = i + n - 1
  BY <1>1
<1> QED
  BY <1>4, <1>5, <1>6 DEF f, m

\* The positions from the first on.
LEMMA FirstPositions ==
    ASSUME NEW n \in Nat
    PROVE  Len(Positions(1, n)) = n /\ \A i \in 1..n : Positions(1, n)[i] = i
<1>1. 1 \in Nat /\ 1 <= n + 1 /\ n - 1 + 1 = n /\ \A i \in 1..n : 1 + i - 1 = i
  OBVIOUS
<1>2. /\ Len(Positions(1, n)) = n - 1 + 1
      /\ \A i \in 1..(n - 1 + 1) : Positions(1, n)[i] = 1 + i - 1
  BY <1>1, PositionsAre
<1> QED
  BY <1>1, <1>2

-----------------------------------------------------------------------------
(***************************************************************************)
(* The loops over descriptors: the values from step to step.               *)
(***************************************************************************)
\* One step of each of the loops.
SweepStep(a, b) == IF a.stop \/ ~a.bd[b].en THEN a ELSE process_bd(a, b)
RunStep(s, sw) == IF s.state = "running" THEN run_bd(s, sw) ELSE s
CollectStep(s) == IF s.state = "walking" THEN collect_bd(s) ELSE s

LoopStep(kind, x, e, sw) ==
    CASE kind = "sweep" -> SweepStep(x, e)
      [] kind = "tick" -> dispatch_tick(x, e)
      [] kind = "run" -> RunStep(x, sw)
      [] kind = "collect" -> CollectStep(x)

\* The values g of a loop of n steps from first over s.
Loop(g, n, kind, sw, first, s) ==
    /\ g = [i \in 0..n |-> g[i]] /\ g[0] = first
    /\ \A i \in 1..n : g[i] = LoopStep(kind, g[i - 1], s[i], sw)

\* Every loop has its values.
LEMMA LoopExists ==
    ASSUME NEW n \in Nat, NEW kind, NEW sw, NEW first, NEW s
    PROVE  \E g : Loop(g, n, kind, sw, first, s)
<1> DEFINE Is(g, m) == Loop(g, m, kind, sw, first, s)
           S == {m \in Nat : \E g : Is(g, m)}
<1>1. 0 \in S
  <2> DEFINE g == [i \in 0..0 |-> first]
  <2>1. g = [i \in 0..0 |-> g[i]] /\ g[0] = first /\ 1..0 = {}
    OBVIOUS
  <2>2. Is(g, 0)
    BY <2>1 DEF Loop
  <2> QED
    BY <2>2
<1>2. ASSUME NEW m \in Nat, m \in S PROVE m + 1 \in S
  <2>1. PICK g : Is(g, m)
    BY <1>2
  <2>2. /\ g[0] = first
        /\ \A i \in 1..m : g[i] = LoopStep(kind, g[i - 1], s[i], sw)
    BY <2>1 DEF Loop
  <2> DEFINE h == [i \in 0..(m + 1) |->
                     IF i = m + 1 THEN LoopStep(kind, g[m], s[m + 1], sw) ELSE g[i]]
  <2>3. /\ DOMAIN h = 0..(m + 1) /\ h = [i \in 0..(m + 1) |-> h[i]]
        /\ h[m + 1] = LoopStep(kind, g[m], s[m + 1], sw)
        /\ \A i \in 0..m : h[i] = g[i]
    OBVIOUS
  <2> HIDE DEF h
  <2>4. ASSUME NEW i \in 1..(m + 1) PROVE h[i] = LoopStep(kind, h[i - 1], s[i], sw)
    <3>1. CASE i = m + 1
      <4>1. i - 1 = m /\ m \in 0..m
        BY <3>1
      <4> QED
        BY <2>3, <3>1, <4>1
    <3>2. CASE i # m + 1
      <4>1. i \in 1..m /\ i \in 0..m /\ i - 1 \in 0..m
        BY <3>2
      <4> QED
        BY <2>2, <2>3, <4>1
    <3> QED
      BY <3>1, <3>2
  <2>5. h[0] = first
    <3>1. 0 \in 0..m
      OBVIOUS
    <3> QED
      BY <2>2, <2>3, <3>1
  <2>6. Is(h, m + 1)
    BY <2>3, <2>4, <2>5 DEF Loop
  <2> QED
    BY <2>6
<1> HIDE DEF S
<1>3. Nat \subseteq S
  BY <1>1, <1>2, Induction
<1> QED
  BY <1>3 DEF S

\* The steps of a sweep, of a tick, of a chain that runs and of the walk along a chain.
IsSweep(g, s) ==
    g = [n \in 0..Len(s.st.chain) |->
           IF n = 0 THEN s ELSE CHOOSE r \in {SweepStep(x, s.st.chain[n]) : x \in {g[n - 1]}} : TRUE]

SweepFrom(g, s) ==
    /\ g[0] = s /\ \A i \in 1..Len(s.st.chain) : g[i] = SweepStep(g[i - 1], s.st.chain[i])
    /\ sweep(s) = g[Len(s.st.chain)]

\* A sweep takes one descriptor of the chain after the other.
LEMMA SweepIs ==
    ASSUME NEW s, Len(s.st.chain) \in Nat
    PROVE  \E g : SweepFrom(g, s)
<1> DEFINE n == Len(s.st.chain)
           first == s
           g == CHOOSE h : IsSweep(h, s)
<1>1. sweep(s) = g[n]
  BY DEF sweep, Iterate, IsSweep, SweepStep
<1>2. ASSUME NEW x, NEW e PROVE (CHOOSE r \in {SweepStep(y, e) : y \in {x}} : TRUE) = SweepStep(x, e)
  <2> DEFINE v == SweepStep(x, e)
  <2>1. {SweepStep(y, e) : y \in {x}} = {v}
    OBVIOUS
  <2> HIDE DEF v
  <2>2. (CHOOSE r \in {v} : TRUE) = v
    OBVIOUS
  <2> QED
    BY <2>1, <2>2 DEF v
<1>n. n \in Nat
  OBVIOUS
<1> HIDE DEF n, first
<1>3. \E h : IsSweep(h, s)
    <2>1. PICK h : Loop(h, n, "sweep", TRUE, first, s.st.chain)
    BY <1>n, LoopExists
  <2>2. IsSweep(h, s)
    <3>1. h = [i \in 0..n |-> h[i]] /\ h[0] = first
      BY <2>1 DEF Loop
    <3>2. \A i \in 1..n : h[i] = SweepStep(h[i - 1], s.st.chain[i])
      BY <2>1, <1>n DEF Loop, LoopStep, n
    <3>3. ASSUME NEW i \in 0..n
          PROVE  h[i] = IF i = 0 THEN first
                        ELSE CHOOSE r \in {SweepStep(x, s.st.chain[i]) : x \in {h[i - 1]}} : TRUE
      <4>1. CASE i = 0
        BY <3>1, <4>1
      <4>2. CASE i # 0
        <5>1. i \in 1..n
          BY <1>n, <4>2
        <5> QED
          BY <1>2, <3>2, <4>2, <5>1
      <4> QED
        BY <4>1, <4>2
    <3> QED
      BY <3>1, <3>3 DEF IsSweep, n, first
  <2> QED
    BY <2>2
<1>4. IsSweep(g, s)
  BY <1>3
<1> HIDE DEF g
<1>5. g[0] = first /\ \A i \in 1..n : g[i] = SweepStep(g[i - 1], s.st.chain[i])
  <2>1. 0 \in 0..n /\ \A i \in 1..n : i \in 0..n /\ i # 0
    BY <1>n
  <2>2. g = [i \in 0..n |->
           IF i = 0 THEN first ELSE CHOOSE r \in {SweepStep(x, s.st.chain[i]) : x \in {g[i - 1]}} : TRUE]
    BY <1>4 DEF IsSweep, n, first
  <2> QED
    BY <1>2, <2>1, <2>2
<1> QED
  BY <1>1, <1>5 DEF SweepFrom, n, first

Ticked ==
    Iterate(dispatch_tick, [ticks |-> ticks, bd |-> bd, out |-> out], Positions(1, Len(ticks)))

IsTick(g) ==
    g = [n \in 0..Len(ticks) |->
           IF n = 0 THEN [ticks |-> ticks, bd |-> bd, out |-> out]
           ELSE CHOOSE r \in {dispatch_tick(x, Positions(1, Len(ticks))[n]) : x \in {g[n - 1]}} : TRUE]

TickFrom(g) ==
    /\ g[0] = [ticks |-> ticks, bd |-> bd, out |-> out]
    /\ \A i \in 1..Len(ticks) : g[i] = dispatch_tick(g[i - 1], Positions(1, Len(ticks))[i])
    /\ Ticked = g[Len(ticks)]

\* A tick takes one callback of the registry after the other.
LEMMA TickIs ==
    ASSUME Len(ticks) \in Nat
    PROVE  \E g : TickFrom(g)
<1> DEFINE n == Len(ticks)
           first == [ticks |-> ticks, bd |-> bd, out |-> out]
           g == CHOOSE h : IsTick(h)
<1>p. Len(Positions(1, n)) = n
  BY FirstPositions
<1>1. Ticked = g[n]
  BY <1>p DEF Ticked, Iterate, IsTick
<1>2. ASSUME NEW x, NEW e PROVE (CHOOSE r \in {dispatch_tick(y, e) : y \in {x}} : TRUE) = dispatch_tick(x, e)
  <2> DEFINE v == dispatch_tick(x, e)
  <2>1. {dispatch_tick(y, e) : y \in {x}} = {v}
    OBVIOUS
  <2> HIDE DEF v
  <2>2. (CHOOSE r \in {v} : TRUE) = v
    OBVIOUS
  <2> QED
    BY <2>1, <2>2 DEF v
<1>n. n \in Nat
  OBVIOUS
<1> HIDE DEF n, first
<1>3. \E h : IsTick(h)
  <2> DEFINE s == Positions(1, Len(ticks))
  <2> HIDE DEF s
  <2>1. PICK h : Loop(h, n, "tick", TRUE, first, s)
    BY <1>n, LoopExists
  <2>2. IsTick(h)
    <3>1. h = [i \in 0..n |-> h[i]] /\ h[0] = first
      BY <2>1 DEF Loop
    <3>2. \A i \in 1..n : h[i] = dispatch_tick(h[i - 1], Positions(1, Len(ticks))[i])
      BY <2>1, <1>n DEF Loop, LoopStep, s, n
    <3>3. ASSUME NEW i \in 0..n
          PROVE  h[i] = IF i = 0 THEN first
                        ELSE CHOOSE r \in {dispatch_tick(x, Positions(1, Len(ticks))[i]) : x \in {h[i - 1]}} : TRUE
      <4>1. CASE i = 0
        BY <3>1, <4>1
      <4>2. CASE i # 0
        <5>1. i \in 1..n
          BY <1>n, <4>2
        <5> QED
          BY <1>2, <3>2, <4>2, <5>1
      <4> QED
        BY <4>1, <4>2
    <3> QED
      BY <3>1, <3>3 DEF IsTick, n, first
  <2> QED
    BY <2>2
<1>4. IsTick(g)
  BY <1>3
<1> HIDE DEF g
<1>5. g[0] = first /\ \A i \in 1..n : g[i] = dispatch_tick(g[i - 1], Positions(1, Len(ticks))[i])
  <2>1. 0 \in 0..n /\ \A i \in 1..n : i \in 0..n /\ i # 0
    BY <1>n
  <2>2. g = [i \in 0..n |->
           IF i = 0 THEN first ELSE CHOOSE r \in {dispatch_tick(x, Positions(1, Len(ticks))[i]) : x \in {g[i - 1]}} : TRUE]
    BY <1>4 DEF IsTick, n, first
  <2> QED
    BY <1>2, <2>1, <2>2
<1> QED
  BY <1>1, <1>5 DEF TickFrom, n, first

IsRun(g, sw) ==
    g = [n \in 0..MAX_BD_CHAIN |->
           IF n = 0 THEN [at |-> cebdpaddr, out |-> out, state |-> "running"]
           ELSE CHOOSE r \in {RunStep(x, sw) : x \in {g[n - 1]}} : TRUE]

RunFrom(g, sw) ==
    /\ g[0] = [at |-> cebdpaddr, out |-> out, state |-> "running"]
    /\ \A i \in 1..MAX_BD_CHAIN : g[i] = RunStep(g[i - 1], sw)
    /\ run_chain(sw) = g[MAX_BD_CHAIN]

\* A chain that runs at once takes one descriptor after the other.
LEMMA RunIs ==
    ASSUME NEW sw
    PROVE  \E g : RunFrom(g, sw)
<1> DEFINE n == MAX_BD_CHAIN
           first == [at |-> cebdpaddr, out |-> out, state |-> "running"]
           g == CHOOSE h : IsRun(h, sw)
<1>p. Len(Positions(1, n)) = n
  BY EngineConstants, FirstPositions
<1>1. run_chain(sw) = g[n]
  BY <1>p DEF run_chain, Iterate, IsRun, RunStep
<1>2. ASSUME NEW x, NEW e PROVE (CHOOSE r \in {RunStep(y, sw) : y \in {x}} : TRUE) = RunStep(x, sw)
  <2> DEFINE v == RunStep(x, sw)
  <2>1. {RunStep(y, sw) : y \in {x}} = {v}
    OBVIOUS
  <2> HIDE DEF v
  <2>2. (CHOOSE r \in {v} : TRUE) = v
    OBVIOUS
  <2> QED
    BY <2>1, <2>2 DEF v
<1>n. n \in Nat
  BY EngineConstants
<1> HIDE DEF n, first
<1>3. \E h : IsRun(h, sw)
  <2> DEFINE s == [i \in 1..n |-> i]
  <2> HIDE DEF s
  <2>1. PICK h : Loop(h, n, "run", sw, first, s)
    BY <1>n, LoopExists
  <2>2. IsRun(h, sw)
    <3>1. h = [i \in 0..n |-> h[i]] /\ h[0] = first
      BY <2>1 DEF Loop
    <3>2. \A i \in 1..n : h[i] = RunStep(h[i - 1], sw)
      BY <2>1, <1>n DEF Loop, LoopStep, s, n
    <3>3. ASSUME NEW i \in 0..n
          PROVE  h[i] = IF i = 0 THEN first
                        ELSE CHOOSE r \in {RunStep(x, sw) : x \in {h[i - 1]}} : TRUE
      <4>1. CASE i = 0
        BY <3>1, <4>1
      <4>2. CASE i # 0
        <5>1. i \in 1..n
          BY <1>n, <4>2
        <5> QED
          BY <1>2, <3>2, <4>2, <5>1
      <4> QED
        BY <4>1, <4>2
    <3> QED
      BY <3>1, <3>3 DEF IsRun, n, first
  <2> QED
    BY <2>2
<1>4. IsRun(g, sw)
  BY <1>3
<1> HIDE DEF g
<1>5. g[0] = first /\ \A i \in 1..n : g[i] = RunStep(g[i - 1], sw)
  <2>1. 0 \in 0..n /\ \A i \in 1..n : i \in 0..n /\ i # 0
    BY <1>n
  <2>2. g = [i \in 0..n |->
           IF i = 0 THEN first ELSE CHOOSE r \in {RunStep(x, sw) : x \in {g[i - 1]}} : TRUE]
    BY <1>4 DEF IsRun, n, first
  <2> QED
    BY <1>2, <2>1, <2>2
<1> QED
  BY <1>1, <1>5 DEF RunFrom, n, first

IsWalk(g) ==
    g = [n \in 0..MAX_POLLED |->
           IF n = 0 THEN [addrs |-> <<>>, cur |-> cebdpaddr, state |-> "walking"]
           ELSE CHOOSE r \in {CollectStep(x) : x \in {g[n - 1]}} : TRUE]

WalkFrom(g) ==
    /\ g[0] = [addrs |-> <<>>, cur |-> cebdpaddr, state |-> "walking"]
    /\ \A i \in 1..MAX_POLLED : g[i] = CollectStep(g[i - 1])
    /\ collect_chain = g[MAX_POLLED]

\* So does the walk along a chain that is polled.
LEMMA WalkIs == \E g : WalkFrom(g)
<1> DEFINE n == MAX_POLLED
           first == [addrs |-> <<>>, cur |-> cebdpaddr, state |-> "walking"]
           g == CHOOSE h : IsWalk(h)
<1>p. Len(Positions(1, n)) = n
  BY EngineConstants, FirstPositions
<1>1. collect_chain = g[n]
  BY <1>p DEF collect_chain, Iterate, IsWalk, CollectStep
<1>2. ASSUME NEW x, NEW e PROVE (CHOOSE r \in {CollectStep(y) : y \in {x}} : TRUE) = CollectStep(x)
  <2> DEFINE v == CollectStep(x)
  <2>1. {CollectStep(y) : y \in {x}} = {v}
    OBVIOUS
  <2> HIDE DEF v
  <2>2. (CHOOSE r \in {v} : TRUE) = v
    OBVIOUS
  <2> QED
    BY <2>1, <2>2 DEF v
<1>n. n \in Nat
  BY EngineConstants
<1> HIDE DEF n, first
<1>3. \E h : IsWalk(h)
  <2> DEFINE s == [i \in 1..n |-> i]
  <2> HIDE DEF s
  <2>1. PICK h : Loop(h, n, "collect", TRUE, first, s)
    BY <1>n, LoopExists
  <2>2. IsWalk(h)
    <3>1. h = [i \in 0..n |-> h[i]] /\ h[0] = first
      BY <2>1 DEF Loop
    <3>2. \A i \in 1..n : h[i] = CollectStep(h[i - 1])
      BY <2>1, <1>n DEF Loop, LoopStep, s, n
    <3>3. ASSUME NEW i \in 0..n
          PROVE  h[i] = IF i = 0 THEN first
                        ELSE CHOOSE r \in {CollectStep(x) : x \in {h[i - 1]}} : TRUE
      <4>1. CASE i = 0
        BY <3>1, <4>1
      <4>2. CASE i # 0
        <5>1. i \in 1..n
          BY <1>n, <4>2
        <5> QED
          BY <1>2, <3>2, <4>2, <5>1
      <4> QED
        BY <4>1, <4>2
    <3> QED
      BY <3>1, <3>3 DEF IsWalk, n, first
  <2> QED
    BY <2>2
<1>4. IsWalk(g)
  BY <1>3
<1> HIDE DEF g
<1>5. g[0] = first /\ \A i \in 1..n : g[i] = CollectStep(g[i - 1])
  <2>1. 0 \in 0..n /\ \A i \in 1..n : i \in 0..n /\ i # 0
    BY <1>n
  <2>2. g = [i \in 0..n |->
           IF i = 0 THEN first ELSE CHOOSE r \in {CollectStep(x) : x \in {g[i - 1]}} : TRUE]
    BY <1>4 DEF IsWalk, n, first
  <2> QED
    BY <1>2, <2>1, <2>2
<1> QED
  BY <1>1, <1>5 DEF WalkFrom, n, first

-----------------------------------------------------------------------------
(***************************************************************************)
(* The invariant.                                                          *)
(***************************************************************************)
AlgoNames == {"hash", "hmac", "block", "stream", "none"}

Descriptors ==
    [en : BOOLEAN, saf : BOOLEAN, last : BOOLEAN, lifm : BOOLEAN, buf : Seq(Int), msglen : Nat,
     nxt : Nat, algo : AlgoNames]
StreamStates ==
    [live : {TRUE}, ctx : BOOLEAN, fed : Seq(Int), completed : BOOLEAN, swap : BOOLEAN, chain : Seq(BDs)]
Callbacks == {NoTick} \cup StreamStates

IdleStates == [mode : {"idle"}, clean : BOOLEAN]
StreamJobs ==
    [mode : {"stream"}, started : BOOLEAN, size : Nat, sent : Nat, cur : Nat, final : 0..NBD,
     inverted : BOOLEAN, algo : AlgoNames, clean : BOOLEAN]
SingleJobs == [mode : {"single"}, started : BOOLEAN, first : Singles, clean : BOOLEAN]

\* The types, and that no callback but that of the engine is registered.
EngineOk ==
    /\ silicon \in {"EF", "EC"} /\ "SWRST" \notin cecon
    /\ errop \in BOOLEAN /\ pktif \in BOOLEAN /\ cebdpaddr \in Nat
    /\ bd \in [BDs -> Descriptors] /\ DOMAIN out = BDs /\ out = [b \in BDs |-> out[b]]
    /\ ticks \in Seq(Callbacks) /\ polling \in 0..Len(ticks)
    /\ polling # 0 => ticks[polling] \in StreamStates
    /\ \A n \in 1..Len(ticks) : n # polling => ticks[n] = NoTick
    /\ fw \in IdleStates \cup StreamJobs \cup SingleJobs

\* No stream is at work.
Quiet == polling = 0 \/ ticks[polling].completed

\* What the firmware may rely on when it knows of nothing that the engine is at.
IdleOk == fw.mode = "idle" /\ fw.clean => Quiet /\ ~errop
StreamOk ==
    fw.mode = "stream" =>
        /\ fw.clean /\ ~fw.started => Quiet /\ ~errop
        /\ fw.clean /\ fw.started /\ polling # 0 => ~errop
        /\ fw.final # 0 => bd[fw.final].last /\ bd[fw.final].lifm
        /\ fw.final # 0 /\ ~bd[fw.final].en => polling # 0 /\ ticks[polling].completed
        /\ ~fw.started => fw.final = 0 /\ fw.sent = 0 /\ fw.cur = 1 /\ ~fw.inverted
                            /\ \A b \in BDs : ~bd[b].en

\* The first descriptor of a chain that runs at once.
FirstBd(d) ==
    [en |-> d.en, saf |-> d.saf, last |-> d.last, lifm |-> TRUE,
     buf |-> Padded(Positions(1, d.size)), msglen |-> d.size, nxt |-> d.ring[1], algo |-> d.algo]

SingleOk ==
    fw.mode = "single" /\ fw.clean =>
        /\ Quiet /\ bd[1] = FirstBd(fw.first)
        /\ ~fw.started => ~errop

EngineInv == EngineOk /\ IdleOk /\ StreamOk /\ SingleOk /\ SingleUndisturbed

-----------------------------------------------------------------------------
\* The bytes of the message in the buffer of d: those after lo up to hi.
HoldsBytes(d, lo, hi, size) ==
    /\ lo <= hi /\ hi <= size
    /\ d.buf = Padded(Positions(lo + 1, hi))
    /\ (hi - lo) % BLOCK = 0 \/ hi = size
    /\ d.last \/ d.lifm => d.last /\ d.lifm /\ hi = size

\* Along the chain, from the bytes hashed to the bytes that the firmware gave out.
Backlog(H, st, table, sent, size) ==
    /\ H \in [0..Len(st.chain) -> 0..size]
    /\ st.fed = Positions(1, H[0]) /\ H[Len(st.chain)] = sent
    /\ \A i \in 1..Len(st.chain) :
        IF table[st.chain[i]].en THEN HoldsBytes(table[st.chain[i]], H[i - 1], H[i], size)
        ELSE H[i] = H[i - 1]

Digest == [at |-> "upd", bytes |-> Positions(1, fw.size), swapped |-> silicon = "EC"]

\* A chain has every descriptor once, and with each the next one.
Distinct(chain) == \A i, j \in DOMAIN chain : chain[i] = chain[j] => i = j
Closed(chain) ==
    \A i \in DOMAIN chain : Mapped(bd[chain[i]].nxt) => bd[chain[i]].nxt \in ToSet(chain)

\* The chain and the descriptors, as the firmware laid them out and as it fills them.
LaidOut(st) ==
    /\ st.swap = (silicon = "EF") /\ Distinct(st.chain) /\ Closed(st.chain)
    /\ \A b \in BDs : bd[b].saf => b = 1
    /\ \A b \in BDs : bd[b].msglen = fw.size /\ (bd[b].last \/ bd[b].lifm => b = fw.final)
    /\ fw.sent <= fw.size

\* The stream has the first descriptor, and so all that the firmware comes to: the digest is
\* there, or what is left of the message waits along the chain.
InChain(st) ==
    /\ 1 \in ToSet(st.chain) /\ (fw.final = 0 /\ Mapped(fw.cur) => fw.cur \in ToSet(st.chain))
    /\ st.completed => fw.final # 0 /\ ~bd[fw.final].en /\ out[fw.final] = Digest
    /\ ~st.completed => /\ fw.final # 0 => bd[fw.final].en
                        /\ \E H \in [0..Len(st.chain) -> 0..fw.size] :
                                Backlog(H, st, bd, fw.sent, fw.size)

\* The chain misses the first descriptor, and the stream never begins.
OutOfChain(st) ==
    1 \notin ToSet(st.chain) /\ ~st.ctx /\ ~st.completed /\ (fw.final # 0 => bd[fw.final].en)

\* The descriptors of a stream before it starts.
FreshStream ==
    fw.mode = "stream" /\ ~fw.started =>
        /\ \A b \in BDs : bd[b].saf => b = 1
        /\ \A b \in BDs : bd[b].msglen = fw.size /\ ~(bd[b].last \/ bd[b].lifm)

DigestInv ==
    fw.mode = "stream" /\ fw.started /\ polling # 0 =>
        /\ LaidOut(ticks[polling])
        /\ ~fw.inverted => InChain(ticks[polling]) \/ OutOfChain(ticks[polling])

-----------------------------------------------------------------------------
(***************************************************************************)
(* A tick.                                                                 *)
(***************************************************************************)
TickFirst == [ticks |-> ticks, bd |-> bd, out |-> out]
SweepFirst == [st |-> ticks[polling], bd |-> bd, out |-> out, stop |-> FALSE]
Swept == sweep(SweepFirst)

\* A callback that is not registered does nothing.
LEMMA NotLive ==
    ASSUME EngineOk, NEW n \in 1..Len(ticks), n # polling, NEW s
    PROVE  dispatch_tick(s, n) = s
<1>1. ticks[n] = NoTick /\ ~NoTick.live
  BY DEF EngineOk, NoTick
<1> QED
  BY <1>1 DEF dispatch_tick

\* So a tick is that of the stream of the engine.
LEMMA DispatchesOne ==
    ASSUME EngineOk
    PROVE  Ticked = IF polling = 0 THEN TickFirst ELSE dispatch_tick(TickFirst, polling)
<1> DEFINE L == Len(ticks)
           last == dispatch_tick(TickFirst, polling)
           V(i) == IF polling # 0 /\ polling <= i THEN last ELSE TickFirst
<1>1. L \in Nat /\ polling \in 0..L
  BY LenProperties DEF EngineOk
<1>2. PICK g : TickFrom(g)
  BY <1>1, TickIs
<1>3. \A i \in 1..L : Positions(1, L)[i] = i
  BY <1>1, FirstPositions
<1>4. /\ g[0] = TickFirst /\ \A i \in 1..L : g[i] = dispatch_tick(g[i - 1], i)
      /\ Ticked = g[L]
  BY <1>2, <1>3 DEF TickFrom, TickFirst
<1>5. \A i \in 1..L : i # polling => g[i] = g[i - 1]
  BY <1>4, NotLive
<1> DEFINE S == {i \in Nat : i <= L => g[i] = V(i)}
<1>6. 0 \in S
  BY <1>1, <1>4
<1>7. ASSUME NEW i \in Nat, i \in S PROVE i + 1 \in S
  <2> SUFFICES ASSUME i + 1 <= L PROVE g[i + 1] = V(i + 1)
    OBVIOUS
  <2>1. i + 1 \in 1..L /\ (i + 1) - 1 = i /\ i <= L
    BY <1>1
  <2>2. g[i] = V(i)
    BY <1>7, <2>1
  <2> HIDE DEF last
  <2>3. CASE i + 1 = polling
    <3>1. g[i] = TickFirst
      BY <2>2, <2>3, <1>1
    <3>2. g[i + 1] = dispatch_tick(TickFirst, polling)
      BY <1>4, <2>1, <2>3, <3>1
    <3>3. V(i + 1) = last
      BY <2>3
    <3> QED
      BY <3>2, <3>3 DEF last
  <2>4. CASE i + 1 # polling
    <3>1. g[i + 1] = g[i]
      BY <1>5, <2>1, <2>4
    <3>2. polling <= i + 1 <=> polling <= i
      BY <1>1, <2>4
    <3> QED
      BY <2>2, <3>1, <3>2
  <2> QED
    BY <2>3, <2>4
<1> HIDE DEF S
<1>8. Nat \subseteq S
  BY <1>6, <1>7, Induction
<1>9. g[L] = V(L)
  BY <1>1, <1>8 DEF S
<1> HIDE DEF last
<1>10. V(L) = IF polling = 0 THEN TickFirst ELSE last
  BY <1>1
<1> QED
  BY <1>4, <1>9, <1>10 DEF last

Sweeps ==
    /\ polling # 0 /\ ~ticks[polling].completed
    /\ ticks' = [ticks EXCEPT ![polling] = Swept.st] /\ bd' = Swept.bd /\ out' = Swept.out

\* A tick is a sweep of the stream that is at work, if there is one.
LEMMA TickSweeps ==
    ASSUME EngineOk, Tick
    PROVE  /\ UNCHANGED <<silicon, cecon, errop, pktif, cebdpaddr, polling, fw>>
           /\ (Quiet /\ UNCHANGED <<ticks, bd, out>>) \/ Sweeps
<1>1. ticks' = Ticked.ticks /\ bd' = Ticked.bd /\ out' = Ticked.out
  BY DEF Tick, Ticked
<1>2. UNCHANGED <<silicon, cecon, errop, pktif, cebdpaddr, polling, fw>>
  BY DEF Tick
<1>3. CASE Ticked = TickFirst /\ Quiet
  BY <1>1, <1>2, <1>3 DEF TickFirst
<1>4. CASE polling # 0 /\ ~ticks[polling].completed
  <2>1. ticks[polling].live
    BY <1>4 DEF EngineOk, StreamStates
  <2>2. Ticked = dispatch_tick(TickFirst, polling)
    BY <1>4, DispatchesOne
  <2>3. TickFirst.ticks = ticks /\ TickFirst.bd = bd /\ TickFirst.out = out
    BY DEF TickFirst
  <2>4. dispatch_tick(TickFirst, polling)
            = [ticks |-> [ticks EXCEPT ![polling] = Swept.st], bd |-> Swept.bd, out |-> Swept.out]
    BY <1>4, <2>1, <2>3 DEF dispatch_tick, Swept, SweepFirst
  <2> QED
    BY <1>1, <1>2, <1>4, <2>2, <2>4 DEF Sweeps
<1>5. Quiet => Ticked = TickFirst
  <2>1. CASE polling = 0
    BY <2>1, DispatchesOne
  <2>2. CASE polling # 0 /\ ticks[polling].completed
    BY <2>2, DispatchesOne DEF dispatch_tick
  <2> QED
    BY <2>1, <2>2 DEF Quiet
<1> QED
  BY <1>3, <1>4, <1>5 DEF Quiet
-----------------------------------------------------------------------------
(***************************************************************************)
(* A sweep.                                                                *)
(***************************************************************************)
SweepState(a) ==
    /\ a = [st |-> a.st, bd |-> a.bd, out |-> a.out, stop |-> a.stop]
    /\ a.st \in StreamStates /\ a.bd \in [BDs -> Descriptors] /\ a.stop \in BOOLEAN
    /\ DOMAIN a.out = BDs /\ a.out = [b \in BDs |-> a.out[b]]

\* A descriptor is left alone or has lost DESC_EN.
Done(d, c) == d = c \/ (c.en /\ d = [c EXCEPT !.en = FALSE])

\* What a sweep from s to a leaves alone.
SweepKeeps(s, a) ==
    /\ SweepState(a)
    /\ a.st.chain = s.st.chain /\ a.st.swap = s.st.swap
    /\ \A b \in BDs : Done(a.bd[b], s.bd[b])
    /\ a.st.completed => a.stop
    /\ \A b \in BDs : s.bd[b].en /\ s.bd[b].last /\ s.bd[b].lifm /\ ~a.bd[b].en => a.st.completed

\* What process_bd does to an enabled descriptor that it does not refuse.
Handled(a, b, c) ==
    LET d == a.bd[b]
        bytes == a.st.fed \o take(d, Len(a.st.fed))
        final == d.last /\ d.lifm
    IN  /\ c.st = [a.st EXCEPT !.ctx = ~final, !.fed = bytes, !.completed = final]
        /\ c.bd = [a.bd EXCEPT ![b].en = FALSE]
        /\ c.out = IF final THEN [a.out EXCEPT ![b] = [at |-> "upd", bytes |-> bytes,
                                                       swapped |-> ~a.st.swap]]
                   ELSE a.out
        /\ c.stop = final
        /\ c = [st |-> c.st, bd |-> c.bd, out |-> c.out, stop |-> c.stop]

\* A sweep leaves a descriptor alone, is refused by it, or processes it.
LEMMA SweepStepIs ==
    ASSUME NEW a, NEW b
    PROVE  \/ (a.stop \/ ~a.bd[b].en) /\ SweepStep(a, b) = a
           \/ /\ ~a.stop /\ a.bd[b].en /\ ~a.st.ctx /\ (~a.bd[b].saf \/ a.bd[b].algo # "hash")
              /\ SweepStep(a, b) = [a EXCEPT !.stop = TRUE]
           \/ /\ ~a.stop /\ a.bd[b].en /\ ~(~a.st.ctx /\ (~a.bd[b].saf \/ a.bd[b].algo # "hash"))
              /\ Handled(a, b, SweepStep(a, b))
<1>1. CASE a.stop \/ ~a.bd[b].en
  BY <1>1, Zenon DEF SweepStep
<1>2. CASE ~(a.stop \/ ~a.bd[b].en) /\ ~a.st.ctx /\ (~a.bd[b].saf \/ a.bd[b].algo # "hash")
  BY <1>2, Zenon DEF SweepStep, process_bd, refuse
<1>3. CASE ~(a.stop \/ ~a.bd[b].en) /\ ~(~a.st.ctx /\ (~a.bd[b].saf \/ a.bd[b].algo # "hash"))
  <2>1. SweepStep(a, b) = process_bd(a, b)
    BY <1>3, Zenon DEF SweepStep
  <2> DEFINE d == a.bd[b]
             bytes == a.st.fed \o take(d, Len(a.st.fed))
             final == d.last /\ d.lifm
             x == [a.st EXCEPT !.ctx = ~final, !.fed = bytes, !.completed = final]
             y == [a.bd EXCEPT ![b].en = FALSE]
             z == IF final THEN [a.out EXCEPT ![b] = [at |-> "upd", bytes |-> bytes,
                                                       swapped |-> ~a.st.swap]]
                   ELSE a.out
  <2>2. process_bd(a, b) = [st |-> x, bd |-> y, out |-> z, stop |-> final]
    BY <1>3, Zenon DEF process_bd
  <2> HIDE DEF x, y, z, final
  <2> DEFINE c == [st |-> x, bd |-> y, out |-> z, stop |-> final]
  <2>3. c.st = x /\ c.bd = y /\ c.out = z /\ c.stop = final
    OBVIOUS
  <2>4. c = [st |-> c.st, bd |-> c.bd, out |-> c.out, stop |-> c.stop]
    OBVIOUS
  <2>5. Handled(a, b, c)
    <3> HIDE DEF c
    <3> QED
      BY <2>3, <2>4, Zenon DEF Handled, x, y, z, final
  <2> QED
    BY <1>3, <2>1, <2>2, <2>5, Zenon
<1> QED
  BY <1>1, <1>2, <1>3, Zenon

\* What is taken from a buffer is a sequence of bytes.
LEMMA TakeSeq ==
    ASSUME NEW d, d.buf \in Seq(Int), d.msglen \in Nat, NEW fed \in Nat
    PROVE  take(d, fed) \in Seq(Int)
<1>1. CASE d.msglen = 0
  BY <1>1 DEF take
<1>2. CASE d.msglen # 0
  <2> DEFINE n == Lesser(Len(d.buf), d.msglen - Lesser(fed, d.msglen))
  <2>1. Len(d.buf) \in Nat
    BY LenProperties
  <2>2. n \in 0..Len(d.buf)
    BY <2>1 DEF Lesser
  <2>3. take(d, fed) = SubSeq(d.buf, 1, n)
    BY <1>2 DEF take
  <2> HIDE DEF n
  <2>4. SubSeq(d.buf, 1, n) \in Seq(Int)
    BY <2>1, <2>2, SubSeqProperties
  <2> QED
    BY <2>3, <2>4
<1> QED
  BY <1>1, <1>2

\* A descriptor that is processed loses DESC_EN; the last one ends the stream.
LEMMA ProcessedKeeps ==
    ASSUME NEW s, NEW a, SweepKeeps(s, a), ~a.stop, NEW b \in BDs, a.bd[b].en,
           s.bd \in [BDs -> Descriptors],
           NEW c, Handled(a, b, c)
    PROVE  SweepKeeps(s, c)
<1> DEFINE d == a.bd[b]
           bytes == a.st.fed \o take(d, Len(a.st.fed))
           final == d.last /\ d.lifm
<1>1. /\ a.st \in StreamStates /\ a.bd \in [BDs -> Descriptors] /\ d \in Descriptors
      /\ DOMAIN a.out = BDs /\ a.out = [e \in BDs |-> a.out[e]]
  BY DEF SweepKeeps, SweepState
<1>2. final \in BOOLEAN
  BY <1>1 DEF Descriptors
<1>3. bytes \in Seq(Int)
  <2>1. a.st.fed \in Seq(Int) /\ d.buf \in Seq(Int) /\ d.msglen \in Nat
    BY <1>1 DEF StreamStates, Descriptors
  <2>2. Len(a.st.fed) \in Nat
    BY <2>1, LenProperties
  <2>3. take(d, Len(a.st.fed)) \in Seq(Int)
    BY <2>1, <2>2, TakeSeq
  <2> QED
    BY <2>1, <2>3, ConcatProperties
<1>4. /\ c.st = [a.st EXCEPT !.ctx = ~final, !.fed = bytes, !.completed = final]
      /\ c.bd = [a.bd EXCEPT ![b].en = FALSE]
      /\ c.out = IF final THEN [a.out EXCEPT ![b] = [at |-> "upd", bytes |-> bytes,
                                                       swapped |-> ~a.st.swap]]
                   ELSE a.out
      /\ c.stop = final
      /\ c = [st |-> c.st, bd |-> c.bd, out |-> c.out, stop |-> c.stop]
  BY Zenon DEF Handled
<1> HIDE DEF bytes, final
<1>5. /\ c.st \in StreamStates /\ c.st.chain = a.st.chain /\ c.st.swap = a.st.swap
      /\ c.st.completed = final
  BY <1>1, <1>2, <1>3, <1>4 DEF StreamStates
<1>6. /\ c.bd \in [BDs -> Descriptors] /\ \A e \in BDs : e # b => c.bd[e] = a.bd[e]
      /\ c.bd[b] = [d EXCEPT !.en = FALSE]
  <2> DEFINE e0 == [d EXCEPT !.en = FALSE]
  <2>1. e0 \in Descriptors
    BY <1>1 DEF Descriptors
  <2>2. c.bd = [a.bd EXCEPT ![b] = e0]
    BY <1>4
  <2> HIDE DEF e0
  <2>3. c.bd \in [BDs -> Descriptors] /\ (\A e \in BDs : e # b => c.bd[e] = a.bd[e]) /\ c.bd[b] = e0
    BY <1>1, <2>1, <2>2
  <2> QED
    BY <2>3 DEF e0
<1>7. DOMAIN c.out = BDs /\ c.out = [e \in BDs |-> c.out[e]]
  BY <1>1, <1>4
<1>8. SweepState(c)
  BY <1>2, <1>4, <1>5, <1>6, <1>7 DEF SweepState
<1>9. ASSUME NEW e \in BDs PROVE Done(c.bd[e], s.bd[e])
  <2>1. Done(a.bd[e], s.bd[e])
    BY DEF SweepKeeps
  <2>2. CASE e # b
    BY <2>1, <2>2, <1>6
  <2>3. CASE e = b
    <3>1. s.bd[b] \in Descriptors /\ d.en
      OBVIOUS
    <3>2. d = s.bd[b]
      BY <2>1, <2>3, <3>1 DEF Done, Descriptors
    <3> QED
      BY <1>6, <2>3, <3>1, <3>2 DEF Done
  <2> QED
    BY <2>2, <2>3
<1>10. ASSUME NEW e \in BDs, s.bd[e].en, s.bd[e].last, s.bd[e].lifm, ~c.bd[e].en
       PROVE  c.st.completed
  <2>1. ~a.st.completed
    BY DEF SweepKeeps
  <2>2. CASE e # b
    BY <1>6, <1>10, <2>1, <2>2 DEF SweepKeeps
  <2>3. CASE e = b
    <3>1. Done(d, s.bd[b]) /\ s.bd[b] \in Descriptors /\ d.en
      BY DEF SweepKeeps
    <3>2. d = s.bd[b]
      BY <3>1 DEF Done, Descriptors
    <3> QED
      BY <1>5, <1>10, <2>3, <3>2 DEF final
  <2> QED
    BY <2>2, <2>3
<1>11. c.st.chain = s.st.chain /\ c.st.swap = s.st.swap
  BY <1>5 DEF SweepKeeps
<1>12. c.st.completed => c.stop
  BY <1>4, <1>5
<1> QED
  BY <1>8, <1>9, <1>10, <1>11, <1>12 DEF SweepKeeps

\* The record of a sweep that stops.
LEMMA Stopped ==
    ASSUME NEW a, NEW x, NEW y, NEW z, NEW w, NEW v, a = [st |-> x, bd |-> y, out |-> z, stop |-> w]
    PROVE  [a EXCEPT !.stop = v] = [st |-> a.st, bd |-> a.bd, out |-> a.out, stop |-> v]
OBVIOUS

\* One step of a sweep clears DESC_EN of one descriptor, if anything.
LEMMA SweepStepKeeps ==
    ASSUME NEW s, NEW a, SweepKeeps(s, a), NEW b \in BDs, s.bd \in [BDs -> Descriptors]
    PROVE  SweepKeeps(s, SweepStep(a, b))
<1>1. CASE SweepStep(a, b) = a
  BY <1>1
<1>2. CASE SweepStep(a, b) = [a EXCEPT !.stop = TRUE]
  <2> DEFINE c == [a EXCEPT !.stop = TRUE]
  <2>1. a = [st |-> a.st, bd |-> a.bd, out |-> a.out, stop |-> a.stop]
    BY DEF SweepKeeps, SweepState
  <2>2. c = [st |-> a.st, bd |-> a.bd, out |-> a.out, stop |-> TRUE]
    <3>1. PICK x, y, z, w : a = [st |-> x, bd |-> y, out |-> z, stop |-> w]
      BY <2>1
    <3>2. \A v : [a EXCEPT !.stop = v] = [st |-> a.st, bd |-> a.bd, out |-> a.out, stop |-> v]
      BY <3>1, Stopped
    <3> QED
      BY <3>2, Zenon
  <2>3. c.st = a.st /\ c.bd = a.bd /\ c.out = a.out /\ c.stop = TRUE
        /\ c = [st |-> c.st, bd |-> c.bd, out |-> c.out, stop |-> c.stop]
    BY <2>2
  <2> HIDE DEF c
  <2>4. SweepKeeps(s, c)
    BY <2>3 DEF SweepKeeps, SweepState
  <2> QED
    BY <1>2, <2>4 DEF c
<1>3. CASE ~a.stop /\ a.bd[b].en /\ Handled(a, b, SweepStep(a, b))
  BY <1>3, ProcessedKeeps
<1> QED
  BY <1>1, <1>2, <1>3, SweepStepIs

\* A sweep clears DESC_EN of some descriptors, and of the last one only when it ends the stream.
LEMMA SweepIsKept ==
    ASSUME NEW s, SweepKeeps(s, s)
    PROVE  SweepKeeps(s, sweep(s))
<1> DEFINE chain == s.st.chain
           L == Len(chain)
<1>1. chain \in Seq(BDs) /\ s.bd \in [BDs -> Descriptors]
  BY DEF SweepKeeps, SweepState, StreamStates
<1>2. L \in Nat /\ \A i \in 1..L : chain[i] \in BDs
  BY <1>1, LenProperties, ElementOfSeq
<1>3. PICK g : SweepFrom(g, s)
  BY <1>2, SweepIs
<1>4. g[0] = s /\ sweep(s) = g[L] /\ \A i \in 1..L : g[i] = SweepStep(g[i - 1], chain[i])
  BY <1>3 DEF SweepFrom
<1> DEFINE S == {i \in Nat : i <= L => SweepKeeps(s, g[i])}
<1>5. 0 \in S
  BY <1>4
<1>6. ASSUME NEW i \in Nat, i \in S PROVE i + 1 \in S
  <2> SUFFICES ASSUME i + 1 <= L PROVE SweepKeeps(s, g[i + 1])
    OBVIOUS
  <2>1. i + 1 \in 1..L /\ (i + 1) - 1 = i /\ SweepKeeps(s, g[i])
    BY <1>2, <1>6
  <2>2. g[i + 1] = SweepStep(g[i], chain[i + 1]) /\ chain[i + 1] \in BDs
    BY <1>2, <1>4, <2>1
  <2> HIDE DEF chain
  <2> QED
    BY <1>1, <2>1, <2>2, SweepStepKeeps
<1> HIDE DEF S
<1>7. Nat \subseteq S
  BY <1>5, <1>6, Induction
<1> QED
  BY <1>2, <1>4, <1>7 DEF S
-----------------------------------------------------------------------------
(***************************************************************************)
(* Buffers.                                                                *)
(***************************************************************************)
PadLength(n) == (BLOCK - (n % BLOCK)) % BLOCK

\* Whole blocks need no padding.
LEMMA PadLengthIs ==
    ASSUME NEW n \in Nat
    PROVE  PadLength(n) \in Nat /\ (n % BLOCK = 0 => PadLength(n) = 0)
<1>1. BLOCK \in Nat /\ BLOCK > 0
  BY EngineConstants
<1>2. n % BLOCK \in 0..(BLOCK - 1)
  BY <1>1
<1>3. BLOCK - (n % BLOCK) \in Nat
  BY <1>1, <1>2
<1>4. \A m \in Nat : m % BLOCK \in Nat
  BY <1>1
<1>5. BLOCK % BLOCK = 0
  BY <1>1
<1> QED
  BY <1>1, <1>3, <1>4, <1>5 DEF PadLength

\* The padding comes after the bytes.
PaddedOf(p, s) ==
    /\ p \in Seq(Int) /\ Len(p) \in Nat /\ Len(s) <= Len(p)
    /\ Len(s) % BLOCK = 0 => Len(p) = Len(s)
    /\ \A i \in 1..Len(s) : p[i] = s[i]
    /\ SubSeq(p, 1, Len(s)) = s

\* A padded buffer begins with its bytes.
LEMMA PaddedIs ==
    ASSUME NEW s \in Seq(Int)
    PROVE  PaddedOf(Padded(s), s)
<1> DEFINE n == Len(s)
           m == PadLength(n)
           z == [i \in 1..m |-> 0]
           p == s \o z
<1>1. n \in Nat
  BY LenProperties
<1>2. m \in Nat /\ (n % BLOCK = 0 => m = 0)
  BY <1>1, PadLengthIs
<1> HIDE DEF m
<1>3. z \in Seq(Int) /\ Len(z) = m
  BY <1>2, SeqDef
<1>4. Padded(s) = p
  BY DEF Padded, m, PadLength
<1> HIDE DEF z
<1>5. p \in Seq(Int) /\ Len(p) = n + m /\ \A i \in 1..n : p[i] = s[i]
  <2>1. /\ p \in Seq(Int) /\ Len(p) = Len(s) + Len(z)
        /\ \A i \in 1..(Len(s) + Len(z)) : p[i] = IF i <= Len(s) THEN s[i] ELSE z[i - Len(s)]
    BY <1>3, ConcatProperties
  <2> HIDE DEF p
  <2>2. \A i \in 1..n : i \in 1..(n + m) /\ i <= n
    BY <1>1, <1>2
  <2> QED
    BY <1>3, <2>1, <2>2
<1> HIDE DEF p
<1>6. n <= Len(p) /\ n \in 0..Len(p) /\ Len(p) \in Nat
  BY <1>1, <1>2, <1>5
<1>7. SubSeq(p, 1, n) = s
  <2>1. /\ SubSeq(p, 1, n) \in Seq(Int) /\ Len(SubSeq(p, 1, n)) = n
        /\ \A i \in 1..n : SubSeq(p, 1, n)[i] = p[i]
    BY <1>1, <1>5, <1>6, SubSeqProperties
  <2> DEFINE q == SubSeq(p, 1, n)
  <2>2. q \in Seq(Int) /\ Len(q) = Len(s) /\ \A i \in 1..Len(s) : q[i] = s[i]
    BY <1>5, <2>1
  <2> HIDE DEF q
  <2>3. q = s
    BY <2>2, SeqEqual
  <2> QED
    BY <2>3 DEF q
<1>8. n % BLOCK = 0 => Len(p) = n
  BY <1>1, <1>2, <1>5
<1> QED
  BY <1>4, <1>5, <1>6, <1>7, <1>8 DEF PaddedOf

\* Positions are bytes of a message.
LEMMA PositionsSeq ==
    ASSUME NEW i \in Nat, NEW j \in Nat, i <= j + 1
    PROVE  Positions(i, j) \in Seq(Int) /\ Len(Positions(i, j)) = j - i + 1
<1>1. Positions(i, j) \in Seq(Nat) /\ Len(Positions(i, j)) = j - i + 1
  BY PositionsAre
<1>2. \A s \in Seq(Nat) : s \in Seq(Int)
  BY SeqDef
<1> QED
  BY <1>1, <1>2
-----------------------------------------------------------------------------
(***************************************************************************)
(* A chain that runs at once.                                              *)
(***************************************************************************)
GoodFirst(d) == d \in Singles /\ d.en /\ d.saf /\ d.last /\ d.algo # "none"

\* What SingleUndisturbed says of the output r.
ResultOk(d, r, sw) ==
    /\ r # NoOutput /\ r.swapped = ~sw
    /\ IF d.algo \in {"hash", "hmac"} THEN r.bytes = Positions(1, d.size)
       ELSE \A i \in 1..Reached(FirstBd(d)) : r.bytes[i] = -i

\* The buffer of the first descriptor.
LEMMA FirstBdIs ==
    ASSUME NEW d \in Singles
    PROVE  /\ d.size \in Nat /\ FirstBd(d).buf \in Seq(Int) /\ FirstBd(d).msglen = d.size
           /\ FirstBd(d).algo = d.algo /\ PaddedOf(FirstBd(d).buf, Positions(1, d.size))
           /\ Positions(1, d.size) \in Seq(Int) /\ Len(Positions(1, d.size)) = d.size
<1>1. d.size \in Nat
  BY FirmwareConstants
<1>2. Positions(1, d.size) \in Seq(Int) /\ Len(Positions(1, d.size)) = d.size
  <2>1. \A n \in Nat : 1 \in Nat /\ 1 <= n + 1 /\ n - 1 + 1 = n
    OBVIOUS
  <2>2. \A n \in Nat : Positions(1, n) \in Seq(Int) /\ Len(Positions(1, n)) = n - 1 + 1
    BY <2>1, PositionsSeq
  <2> QED
    BY <1>1, <2>1, <2>2
<1>3. PaddedOf(Padded(Positions(1, d.size)), Positions(1, d.size))
  BY <1>2, PaddedIs
<1> QED
  BY <1>1, <1>2, <1>3 DEF FirstBd, PaddedOf

\* The whole blocks of n bytes.
LEMMA WholePart ==
    ASSUME NEW n \in Nat, NEW k \in Nat \ {0}
    PROVE  (n \div k) * k \in 0..n
<1>1. n % k \in 0..(k - 1) /\ n = ((n \div k) * k) + (n % k) /\ n \div k \in Nat
  OBVIOUS
<1> DEFINE q == n \div k
           m == n % k
<1> HIDE DEF q, m
<1>2. q * k \in Nat
  BY <1>1 DEF q
<1> DEFINE t == q * k
<1>3. n = t + m /\ m \in Nat
  BY <1>1 DEF q, m
<1> HIDE DEF t
<1>4. t \in 0..n
  BY <1>2, <1>3 DEF t
<1> QED
  BY <1>4 DEF t, q

\* A cipher reaches no further than the message.
LEMMA ReachedIs ==
    ASSUME NEW d \in Singles
    PROVE  Reached(FirstBd(d)) \in 0..d.size
<1>1. d.size \in Nat /\ FirstBd(d).msglen = d.size /\ BLOCK \in Nat /\ BLOCK > 0
  BY FirstBdIs, EngineConstants
<1>2. CASE FirstBd(d).algo # "block"
  BY <1>1, <1>2 DEF Reached
<1>3. CASE FirstBd(d).algo = "block"
  <2>1. \A n \in Nat : (n \div BLOCK) * BLOCK \in 0..n
    BY <1>1, WholePart
  <2>2. Reached(FirstBd(d)) = (d.size \div BLOCK) * BLOCK
    BY <1>1, <1>3 DEF Reached
  <2> QED
    BY <1>1, <2>1, <2>2
<1> QED
  BY <1>2, <1>3

\* One operation on a supported descriptor gives the output that the firmware expects.
LEMMA ExecuteIs ==
    ASSUME NEW d \in Singles, d.algo # "none", NEW sw \in BOOLEAN
    PROVE  ResultOk(d, execute(FirstBd(d), sw), sw)
<1> DEFINE c == FirstBd(d)
           p == Positions(1, d.size)
           r == execute(c, sw)
<1>1. /\ d.size \in Nat /\ c.buf \in Seq(Int) /\ c.msglen = d.size
      /\ c.algo = d.algo /\ PaddedOf(c.buf, p) /\ Len(p) = d.size
  BY FirstBdIs
<1>2. d.algo \in {"hash", "hmac", "block", "stream"}
  BY FirmwareConstants
<1>3. \A i \in 1..d.size : p[i] = i
  BY <1>1, FirstPositions
<1>4. Reached(c) \in 0..d.size
  BY ReachedIs
<1> HIDE DEF c, p
<1>5. CASE d.algo \in {"hash", "hmac"}
  <2> DEFINE b == SubSeq(c.buf, 1, Lesser(c.msglen, Len(c.buf)))
  <2>1. r = [at |-> "upd", bytes |-> b, swapped |-> ~sw]
    BY <1>1, <1>5 DEF execute
  <2>2. Lesser(c.msglen, Len(c.buf)) = d.size
    BY <1>1 DEF Lesser, PaddedOf
  <2>3. b = p
    BY <1>1, <2>2 DEF PaddedOf
  <2> HIDE DEF b, r
  <2>4. r.at = "upd" /\ r.bytes = b /\ r.swapped = ~sw
    BY <2>1
  <2>5. r # NoOutput
    BY <2>4 DEF NoOutput
  <2> QED
    BY <1>5, <2>3, <2>4, <2>5 DEF ResultOk, p, r, c
<1>6. CASE d.algo \in {"block", "stream"}
  <2> DEFINE b == [i \in DOMAIN c.buf |-> IF i <= Reached(c) THEN -c.buf[i] ELSE c.buf[i]]
  <2>1. r = [at |-> "dst", swapped |-> ~sw, bytes |-> b]
    BY <1>1, <1>6 DEF execute
  <2>2. ASSUME NEW i \in 1..Reached(c) PROVE b[i] = -i
    <3>1. i \in 1..d.size /\ i <= Reached(c)
      BY <1>1, <1>4
    <3>2. DOMAIN c.buf = 1..Len(c.buf) /\ d.size <= Len(c.buf) /\ Len(c.buf) \in Nat
      BY <1>1, LenProperties DEF PaddedOf
    <3>3. i \in DOMAIN c.buf
      BY <1>1, <3>1, <3>2
    <3>4. c.buf[i] = i
      BY <1>1, <1>3, <3>1 DEF PaddedOf
    <3> QED
      BY <3>1, <3>3, <3>4
  <2> HIDE DEF b, r
  <2>4. r.at = "dst" /\ r.bytes = b /\ r.swapped = ~sw
    BY <2>1
  <2>5. r # NoOutput
    BY <2>4 DEF NoOutput
  <2>6. d.algo \notin {"hash", "hmac"}
    BY <1>6
  <2> QED
    BY <2>2, <2>4, <2>5, <2>6 DEF ResultOk, p, r, c
<1> QED
  BY <1>2, <1>5, <1>6

RanOne(r, d, sw) == r.state = "done" /\ r.out = [out EXCEPT ![1] = execute(FirstBd(d), sw)]

\* A first descriptor that is in order and is the last one ends the chain.
LEMMA RunOne ==
    ASSUME NEW d, GoodFirst(d), NEW sw \in BOOLEAN, cebdpaddr = 1, bd[1] = FirstBd(d)
    PROVE  RanOne(run_chain(sw), d, sw)
<1> DEFINE n == MAX_BD_CHAIN
           r == execute(FirstBd(d), sw)
<1>1. PICK g : RunFrom(g, sw)
  BY RunIs
<1>2. /\ g[0] = [at |-> cebdpaddr, out |-> out, state |-> "running"]
      /\ \A i \in 1..n : g[i] = RunStep(g[i - 1], sw)
      /\ run_chain(sw) = g[n]
  BY <1>1 DEF RunFrom
<1>3. n \in Nat /\ n >= 1 /\ 1 \in BDs
  BY EngineConstants DEF BDs
<1>4. FirstBd(d).en /\ FirstBd(d).saf /\ FirstBd(d).last
  BY DEF GoodFirst, FirstBd
<1>5. r # NoOutput
  BY ExecuteIs DEF GoodFirst, ResultOk
<1>6. g[1] = [at |-> FirstBd(d).nxt, out |-> [out EXCEPT ![1] = r], state |-> "done"]
  <2>1. g[0].at = 1 /\ g[0].out = out /\ g[0].state = "running" /\ bd[g[0].at] = FirstBd(d)
    BY <1>2
  <2>2. g[1] = RunStep(g[0], sw)
    BY <1>2, <1>3
  <2>3. g[1] = run_bd(g[0], sw)
    BY <2>1, <2>2 DEF RunStep
  <2> HIDE DEF r
  <2>4. execute(bd[g[0].at], sw) = r
    BY <2>1 DEF r
  <2> QED
    BY <1>3, <1>4, <1>5, <2>1, <2>3, <2>4 DEF run_bd, Mapped
<1> HIDE DEF r
<1>7. g[1].state = "done" /\ g[1].out = [out EXCEPT ![1] = r]
  BY <1>6
<1> DEFINE S == {i \in Nat : i + 1 <= n => g[i + 1] = g[1]}
<1>8. 0 \in S
  OBVIOUS
<1>9. ASSUME NEW i \in Nat, i \in S PROVE i + 1 \in S
  <2> SUFFICES ASSUME (i + 1) + 1 <= n PROVE g[(i + 1) + 1] = g[1]
    OBVIOUS
  <2>1. (i + 1) + 1 \in 1..n /\ ((i + 1) + 1) - 1 = i + 1 /\ i + 1 <= n
    BY <1>3
  <2>2. g[i + 1] = g[1]
    BY <1>9, <2>1
  <2>3. g[(i + 1) + 1] = RunStep(g[1], sw)
    BY <1>2, <2>1, <2>2
  <2> QED
    BY <1>7, <2>3 DEF RunStep
<1> HIDE DEF S
<1>10. Nat \subseteq S
  BY <1>8, <1>9, Induction
<1>11. n - 1 \in S /\ (n - 1) + 1 = n
  BY <1>3, <1>10
<1>12. g[n] = g[1]
  BY <1>3, <1>11 DEF S
<1> QED
  BY <1>2, <1>7, <1>12 DEF RanOne, r
-----------------------------------------------------------------------------
(***************************************************************************)
(* The invariant of the engine is kept.                                    *)
(***************************************************************************)
LEMMA ModeIs ==
    ASSUME EngineOk
    PROVE  /\ fw.mode \in {"idle", "stream", "single"}
           /\ fw.mode = "idle" => fw \in IdleStates
           /\ fw.mode = "stream" => fw \in StreamJobs
           /\ fw.mode = "single" => fw \in SingleJobs
BY DEF EngineOk, IdleStates, StreamJobs, SingleJobs

\* The invariant of the engine holds at the start.
LEMMA EngineInit ==
    ASSUME CeInit
    PROVE  EngineInv
<1>1. EngineOk
  <2>1. bd \in [BDs -> Descriptors]
    BY DEF CeInit, Descriptors, AlgoNames
  <2>2. DOMAIN out = BDs /\ out = [b \in BDs |-> out[b]]
    BY DEF CeInit
  <2>3. ticks \in Seq(Callbacks) /\ Len(ticks) = 0
    BY DEF CeInit
  <2>4. fw \in IdleStates
    BY DEF CeInit, Idle, IdleStates
  <2>5. silicon \in {"EF", "EC"}
    BY EngineConstants DEF CeInit
  <2>6. /\ polling \in 0..Len(ticks) /\ polling = 0 /\ "SWRST" \notin cecon /\ cebdpaddr \in Nat
        /\ 1..Len(ticks) = {}
    BY <2>3 DEF CeInit
  <2>7. errop \in BOOLEAN /\ pktif \in BOOLEAN
    BY Zenon DEF CeInit
  <2> QED
    BY <2>1, <2>2, <2>3, <2>4, <2>5, <2>6, <2>7 DEF EngineOk
<1>2. fw.mode = "idle" /\ ~errop /\ Quiet
  BY DEF CeInit, Idle, Quiet
<1> QED
  BY <1>1, <1>2 DEF EngineInv, IdleOk, StreamOk, SingleOk, SingleUndisturbed

\* It depends on the state only.
LEMMA EngineUnchanged ==
    ASSUME EngineInv, UNCHANGED cevars
    PROVE  EngineInv'
<1>1. UNCHANGED <<silicon, cecon, errop, pktif, cebdpaddr, ticks, polling, bd, out, fw>>
  BY DEF cevars, engine
<1> QED
  BY <1>1 DEF EngineInv, EngineOk, IdleOk, StreamOk, SingleOk, SingleUndisturbed, Quiet

\* A sweep that has not begun has changed nothing.
LEMMA FirstKeeps ==
    ASSUME EngineOk, polling # 0, ~ticks[polling].completed
    PROVE  SweepKeeps(SweepFirst, SweepFirst)
<1> DEFINE s == SweepFirst
<1>1. s.st = ticks[polling] /\ s.bd = bd /\ s.out = out /\ s.stop = FALSE
      /\ s = [st |-> s.st, bd |-> s.bd, out |-> s.out, stop |-> s.stop]
  BY DEF SweepFirst
<1> HIDE DEF s
<1>2. SweepState(s)
  BY <1>1 DEF SweepState, EngineOk
<1>3. ~s.st.completed
  BY <1>1
<1>4. SweepKeeps(s, s)
  <2>1. \A b \in BDs : Done(s.bd[b], s.bd[b])
    BY DEF Done
  <2> QED
    BY <1>2, <1>3, <2>1 DEF SweepKeeps
<1> QED
  BY <1>4 DEF s

\* The sweep of a tick.
LEMMA SweepsKeeps ==
    ASSUME EngineOk, Sweeps
    PROVE  /\ SweepKeeps(SweepFirst, Swept)
           /\ ticks' \in Seq(Callbacks) /\ Len(ticks') = Len(ticks)
           /\ \A n \in 1..Len(ticks) : ticks'[n] = IF n = polling THEN Swept.st ELSE ticks[n]
           /\ Swept.st \in StreamStates /\ bd' \in [BDs -> Descriptors]
           /\ DOMAIN out' = BDs /\ out' = [b \in BDs |-> out'[b]]
           /\ \A b \in BDs : Done(bd'[b], bd[b])
           /\ \A b \in BDs : bd[b].en /\ bd[b].last /\ bd[b].lifm /\ ~bd'[b].en => Swept.st.completed
<1>1. SweepKeeps(SweepFirst, Swept)
  BY FirstKeeps, SweepIsKept DEF Sweeps, Swept
<1>2. SweepFirst.bd = bd
  BY DEF SweepFirst
<1>3. /\ Swept.st \in StreamStates /\ bd' \in [BDs -> Descriptors]
      /\ DOMAIN out' = BDs /\ out' = [b \in BDs |-> out'[b]]
      /\ \A b \in BDs : Done(bd'[b], bd[b])
      /\ \A b \in BDs : bd[b].en /\ bd[b].last /\ bd[b].lifm /\ ~bd'[b].en => Swept.st.completed
  BY <1>1, <1>2 DEF SweepKeeps, SweepState, Sweeps
<1>4. Swept.st \in Callbacks /\ ticks \in Seq(Callbacks) /\ polling \in 1..Len(ticks)
  BY <1>3 DEF Callbacks, EngineOk, Sweeps
<1> HIDE DEF Swept
<1>5. /\ ticks' \in Seq(Callbacks) /\ Len(ticks') = Len(ticks)
      /\ \A n \in 1..Len(ticks) : ticks'[n] = IF n = polling THEN Swept.st ELSE ticks[n]
  BY <1>4, ExceptSeq DEF Sweeps
<1> QED
  BY <1>1, <1>3, <1>5

\* Nothing but DESC_EN changes in a descriptor.
LEMMA DoneIs ==
    ASSUME NEW c \in Descriptors, NEW d, Done(d, c)
    PROVE  /\ d \in Descriptors /\ d.last = c.last /\ d.lifm = c.lifm /\ d.saf = c.saf
           /\ d.algo = c.algo /\ d.msglen = c.msglen /\ d.nxt = c.nxt /\ d.buf = c.buf
           /\ d.en => d = c
           /\ ~c.en => ~d.en
<1>1. CASE d = c
  BY <1>1
<1>2. CASE c.en /\ d = [c EXCEPT !.en = FALSE]
  BY <1>2 DEF Descriptors
<1> QED
  BY <1>1, <1>2 DEF Done

\* A tick keeps it: a stream at work is no disturbance that the firmware does not know of.
LEMMA EngineTick ==
    ASSUME EngineInv, Tick
    PROVE  EngineInv'
<1>0. EngineOk
  BY DEF EngineInv
<1>1. UNCHANGED <<silicon, cecon, errop, pktif, cebdpaddr, polling, fw>>
  BY <1>0, TickSweeps
<1>2. CASE UNCHANGED <<ticks, bd, out>>
  BY <1>1, <1>2, EngineUnchanged DEF cevars, engine
<1>3. CASE Sweeps
  <2>1. /\ ticks' \in Seq(Callbacks) /\ Len(ticks') = Len(ticks)
        /\ \A n \in 1..Len(ticks) : ticks'[n] = IF n = polling THEN Swept.st ELSE ticks[n]
        /\ Swept.st \in StreamStates /\ bd' \in [BDs -> Descriptors]
        /\ DOMAIN out' = BDs /\ out' = [b \in BDs |-> out'[b]]
        /\ \A b \in BDs : Done(bd'[b], bd[b])
        /\ \A b \in BDs : bd[b].en /\ bd[b].last /\ bd[b].lifm /\ ~bd'[b].en => Swept.st.completed
    BY <1>0, <1>3, SweepsKeeps
  <2>2. polling # 0 /\ ~ticks[polling].completed /\ ~Quiet /\ polling \in 1..Len(ticks)
    BY <1>0, <1>3 DEF Sweeps, Quiet, EngineOk
  <2>3. ticks'[polling] = Swept.st
    BY <2>1, <2>2
  <2> HIDE DEF Sweeps, Swept
  <2>4. EngineOk'
    BY <1>0, <1>1, <2>1, <2>2, <2>3 DEF EngineOk
  <2>5. IdleOk' /\ SingleOk' /\ SingleUndisturbed'
    BY <1>1, <2>2 DEF EngineInv, IdleOk, SingleOk, SingleUndisturbed
  <2>6. StreamOk'
    <3> SUFFICES ASSUME fw.mode = "stream"
                 PROVE  StreamOk'
      BY <1>1 DEF StreamOk
    <3>1. fw \in StreamJobs /\ (fw.final # 0 => fw.final \in BDs)
      BY <1>0, ModeIs DEF StreamJobs, BDs
    <3>2. /\ ~(fw.clean /\ ~fw.started)
          /\ fw.clean /\ fw.started => ~errop
          /\ fw.final # 0 => bd[fw.final].last /\ bd[fw.final].lifm /\ bd[fw.final].en
          /\ ~fw.started => fw.final = 0 /\ fw.sent = 0 /\ fw.cur = 1 /\ ~fw.inverted
                            /\ \A b \in BDs : ~bd[b].en
      BY <2>2 DEF EngineInv, StreamOk
    <3>3. \A b \in BDs : bd[b] \in Descriptors
      BY <1>0 DEF EngineOk
    <3>4. \A b \in BDs : /\ bd'[b].last = bd[b].last /\ bd'[b].lifm = bd[b].lifm
                         /\ ~bd[b].en => ~bd'[b].en
      BY <2>1, <3>3, DoneIs
    <3>5. fw.final # 0 /\ ~bd'[fw.final].en => Swept.st.completed
      BY <2>1, <3>1, <3>2
    <3> QED
      BY <1>1, <2>2, <2>3, <3>1, <3>2, <3>4, <3>5 DEF StreamOk, Quiet
  <2> QED
    BY <2>4, <2>5, <2>6 DEF EngineInv
<1> QED
  BY <1>0, <1>2, <1>3, TickSweeps
-----------------------------------------------------------------------------
(***************************************************************************)
(* The walk along a chain.                                                 *)
(***************************************************************************)
WalkStates == [addrs : Seq(BDs), cur : Nat, state : {"walking", "done", "failed"}]

WalkOk(s, n) ==
    /\ s \in WalkStates /\ Distinct(s.addrs)
    /\ \A i \in DOMAIN s.addrs : bd[s.addrs[i]].nxt \in ToSet(s.addrs) \cup {s.cur}
    /\ s.state = "walking" => Len(s.addrs) = n
    /\ s.state = "done" => s.cur = 0 \/ s.cur \in ToSet(s.addrs)

\* The walk is over, ends, fails, or goes on to the next descriptor.
LEMMA CollectStepIs ==
    ASSUME NEW s
    PROVE  \/ s.state # "walking" /\ CollectStep(s) = s
           \/ s.cur \in {0} \cup ToSet(s.addrs) /\ CollectStep(s) = [s EXCEPT !.state = "done"]
           \/ CollectStep(s) = [s EXCEPT !.state = "failed"]
           \/ /\ s.state = "walking" /\ s.cur \notin ToSet(s.addrs) /\ Mapped(s.cur)
              /\ CollectStep(s) = [addrs |-> Append(s.addrs, s.cur), cur |-> bd[s.cur].nxt,
                                   state |-> IF bd[s.cur].nxt = s.cur THEN "done" ELSE "walking"]
<1>1. CASE s.state # "walking"
  BY <1>1 DEF CollectStep
<1>2. CASE s.state = "walking"
  <2>1. CollectStep(s) = collect_bd(s)
    BY <1>2 DEF CollectStep
  <2>2. CASE s.cur \in {0} \cup ToSet(s.addrs)
    BY <2>1, <2>2 DEF collect_bd
  <2>3. CASE s.cur \notin {0} \cup ToSet(s.addrs) /\ ~Mapped(s.cur)
    <3>1. s.cur # 0
      BY <2>3
    <3> QED
      BY <2>1, <2>3, <3>1 DEF collect_bd
  <2>4. CASE s.cur \notin {0} \cup ToSet(s.addrs) /\ Mapped(s.cur)
    <3>1. s.cur \notin ToSet(s.addrs)
      BY <2>4
    <3> QED
      BY <1>2, <2>1, <2>4, <3>1 DEF collect_bd
  <2> QED
    BY <2>2, <2>3, <2>4
<1> QED
  BY <1>1, <1>2

\* It never comes to a descriptor twice.
LEMMA CollectStepOk ==
    ASSUME EngineOk, NEW n \in Nat, NEW s, WalkOk(s, n)
    PROVE  WalkOk(CollectStep(s), n + 1)
<1>0. s \in WalkStates
  BY DEF WalkOk
<1>1. CASE s.state # "walking" /\ CollectStep(s) = s
  BY <1>1 DEF WalkOk
<1>2. ASSUME NEW x \in {"done", "failed"}, CollectStep(s) = [s EXCEPT !.state = x],
             x = "done" => s.cur \in {0} \cup ToSet(s.addrs)
      PROVE  WalkOk(CollectStep(s), n + 1)
  <2> DEFINE c == [s EXCEPT !.state = x]
  <2>1. c \in WalkStates /\ c.addrs = s.addrs /\ c.cur = s.cur /\ c.state = x
    BY <1>0 DEF WalkStates
  <2> HIDE DEF c
  <2>2. WalkOk(c, n + 1)
    BY <1>2, <2>1 DEF WalkOk
  <2> QED
    BY <1>2, <2>2 DEF c
<1>3. CASE /\ s.state = "walking" /\ s.cur \notin ToSet(s.addrs) /\ Mapped(s.cur)
           /\ CollectStep(s) = [addrs |-> Append(s.addrs, s.cur), cur |-> bd[s.cur].nxt,
                                state |-> IF bd[s.cur].nxt = s.cur THEN "done" ELSE "walking"]
  <2> DEFINE a == s.addrs
             e == Append(a, s.cur)
             l == Len(a)
             c == CollectStep(s)
  <2>1. a \in Seq(BDs) /\ s.cur \in BDs /\ bd[s.cur].nxt \in Nat /\ l = n
    BY <1>0, <1>3 DEF WalkOk, WalkStates, Mapped, EngineOk, Descriptors
  <2>2. /\ e \in Seq(BDs) /\ Len(e) = l + 1 /\ l \in Nat
        /\ \A i \in 1..l : e[i] = a[i]
        /\ e[l + 1] = s.cur
    BY <2>1, AppendProperties, LenProperties
  <2>3. DOMAIN a = 1..l /\ DOMAIN e = 1..(l + 1)
    BY <2>1, <2>2, LenProperties
  <2> HIDE DEF e
  <2>4. /\ c \in WalkStates /\ c.addrs = e /\ c.cur = bd[s.cur].nxt
        /\ c.state = IF bd[s.cur].nxt = s.cur THEN "done" ELSE "walking"
    BY <1>3, <2>1, <2>2 DEF WalkStates, e
  <2> HIDE DEF c
  <2>5. \A i \in DOMAIN e : (i \in DOMAIN a /\ e[i] = a[i]) \/ (i = l + 1 /\ e[i] = s.cur)
    BY <2>2, <2>3
  <2>6. \A i \in DOMAIN a : a[i] # s.cur
    BY <1>3 DEF ToSet
  <2>7. Distinct(e)
    <3>1. Distinct(a)
      BY DEF WalkOk
    <3> QED
      BY <2>5, <2>6, <3>1 DEF Distinct
  <2>8. ToSet(a) \subseteq ToSet(e) /\ s.cur \in ToSet(e)
    <3>1. DOMAIN a \subseteq DOMAIN e /\ l + 1 \in DOMAIN e /\ \A i \in DOMAIN a : e[i] = a[i]
      BY <2>2, <2>3
    <3> QED
      BY <2>2, <3>1 DEF ToSet
  <2>9. \A i \in DOMAIN e : bd[e[i]].nxt \in ToSet(e) \cup {c.cur}
    <3>1. \A i \in DOMAIN a : bd[a[i]].nxt \in ToSet(a) \cup {s.cur}
      BY DEF WalkOk
    <3> QED
      BY <2>4, <2>5, <2>8, <3>1
  <2>10. c.state = "walking" => Len(c.addrs) = n + 1
    BY <2>1, <2>2, <2>4
  <2>11. c.state = "done" => c.cur \in ToSet(c.addrs)
    BY <2>4, <2>8
  <2>12. WalkOk(c, n + 1)
    BY <2>4, <2>7, <2>9, <2>10, <2>11 DEF WalkOk
  <2> QED
    BY <2>12 DEF c
<1> QED
  BY <1>1, <1>2, <1>3, CollectStepIs

\* As many different descriptors as there are: all of them.
LEMMA AllOfThem ==
    ASSUME NEW a \in Seq(BDs), Distinct(a), Len(a) >= NBD, NEW b \in BDs
    PROVE  b \in ToSet(a)
<1> SUFFICES ASSUME b \notin ToSet(a) PROVE FALSE
  OBVIOUS
<1> DEFINE S == 1..Len(a)
           T == BDs \ {b}
<1>1. Len(a) \in Nat /\ DOMAIN a = S /\ NBD \in Nat /\ NBD >= 1
  BY LenProperties, EngineConstants
<1>2. IsFiniteSet(S) /\ Cardinality(S) = Len(a)
  BY <1>1, FS_Interval
<1>3. IsFiniteSet(BDs) /\ Cardinality(BDs) = NBD
  BY <1>1, FS_Interval DEF BDs
<1>4. IsFiniteSet(T) /\ Cardinality(T) = NBD - 1
  BY <1>3, FS_RemoveElement
<1>5. a \in [S -> T]
  BY <1>1, ElementOfSeq, LenProperties DEF ToSet
<1>6. Cardinality(T) < Cardinality(S)
  BY <1>1, <1>2, <1>4
<1> HIDE DEF S, T
<1>7. \E x, y \in S : x # y /\ a[x] = a[y]
  BY <1>2, <1>4, <1>5, <1>6, FS_PigeonHole
<1> QED
  BY <1>1, <1>7 DEF Distinct

\* The chain of a stream.
LEMMA ChainIs ==
    ASSUME EngineOk
    PROVE  /\ collect_chain.addrs \in Seq(BDs)
           /\ collect_chain.state # "failed" => Distinct(collect_chain.addrs) /\ Closed(collect_chain.addrs)
<1> DEFINE n == MAX_POLLED
<1>1. n \in Nat /\ NBD <= n
  BY EngineConstants, FirmwareConstants
<1>2. PICK g : WalkFrom(g)
  BY WalkIs
<1>3. /\ g[0] = [addrs |-> <<>>, cur |-> cebdpaddr, state |-> "walking"]
      /\ \A i \in 1..n : g[i] = CollectStep(g[i - 1])
      /\ collect_chain = g[n]
  BY <1>2 DEF WalkFrom
<1> DEFINE S == {i \in Nat : i <= n => WalkOk(g[i], i)}
<1>4. 0 \in S
  <2>1. g[0] \in WalkStates /\ g[0].addrs = <<>> /\ g[0].state = "walking"
    BY <1>3 DEF EngineOk, WalkStates
  <2>2. Len(g[0].addrs) = 0 /\ DOMAIN g[0].addrs = {}
    BY <2>1
  <2>3. WalkOk(g[0], 0)
    BY <2>1, <2>2 DEF WalkOk, Distinct
  <2> QED
    BY <2>3
<1>5. ASSUME NEW i \in Nat, i \in S PROVE i + 1 \in S
  <2> SUFFICES ASSUME i + 1 <= n PROVE WalkOk(g[i + 1], i + 1)
    OBVIOUS
  <2>1. i + 1 \in 1..n /\ (i + 1) - 1 = i /\ i <= n
    BY <1>1
  <2>2. g[i + 1] = CollectStep(g[i]) /\ WalkOk(g[i], i)
    BY <1>3, <1>5, <2>1
  <2> QED
    BY <2>2, CollectStepOk
<1> HIDE DEF S
<1>6. Nat \subseteq S
  BY <1>4, <1>5, Induction
<1> DEFINE c == collect_chain
<1>7. WalkOk(c, n)
  BY <1>1, <1>3, <1>6 DEF S
<1> HIDE DEF c, n
<1>8. c.addrs \in Seq(BDs) /\ Distinct(c.addrs)
  BY <1>7 DEF WalkOk, WalkStates
<1>9. ASSUME c.state # "failed" PROVE Closed(c.addrs)
  <2>1. c.state \in {"walking", "done"}
    BY <1>7, <1>9 DEF WalkOk, WalkStates
  <2>2. CASE c.state = "done"
    <3>1. ~Mapped(0)
      BY DEF Mapped, BDs
    <3> QED
      BY <1>7, <2>2, <3>1 DEF WalkOk, Closed
  <2>3. CASE c.state = "walking"
    <3>1. Len(c.addrs) >= NBD
      BY <1>1, <1>7, <2>3, EngineConstants DEF WalkOk
    <3>2. \A b \in BDs : b \in ToSet(c.addrs)
      BY <1>8, <3>1, AllOfThem
    <3> QED
      BY <3>2 DEF Closed, Mapped
  <2> QED
    BY <2>1, <2>2, <2>3
<1> QED
  BY <1>8, <1>9 DEF c
-----------------------------------------------------------------------------
(***************************************************************************)
(* Writes of CECON.                                                        *)
(***************************************************************************)
LEMMA Disarmed ==
    ASSUME EngineOk
    PROVE  /\ disarm_polling \in Seq(Callbacks) /\ Len(disarm_polling) = Len(ticks)
           /\ \A n \in 1..Len(ticks) : disarm_polling[n] = NoTick
<1>1. ticks \in Seq(Callbacks) /\ polling \in 0..Len(ticks) /\ NoTick \in Callbacks
      /\ \A n \in 1..Len(ticks) : n # polling => ticks[n] = NoTick
  BY DEF EngineOk, Callbacks
<1>2. CASE polling = 0
  BY <1>1, <1>2 DEF disarm_polling
<1>3. CASE polling # 0
  <2>1. polling \in 1..Len(ticks)
    BY <1>1, <1>3, LenProperties
  <2>2. disarm_polling = [ticks EXCEPT ![polling] = NoTick]
    BY <1>3 DEF disarm_polling
  <2> DEFINE t == [ticks EXCEPT ![polling] = NoTick]
  <2>3. t \in Seq(Callbacks) /\ Len(t) = Len(ticks)
        /\ \A n \in 1..Len(ticks) : t[n] = IF n = polling THEN NoTick ELSE ticks[n]
    BY <1>1, <2>1, ExceptSeq
  <2> HIDE DEF t
  <2> QED
    BY <1>1, <2>2, <2>3 DEF t
<1> QED
  BY <1>2, <1>3

\* A stream as it is armed.
Armed(sw) ==
    [live |-> TRUE, ctx |-> FALSE, fed |-> <<>>, completed |-> FALSE, swap |-> sw,
     chain |-> collect_chain.addrs]

\* The registry after a write that arms a stream, or fails to.
ArmResult(sw) ==
    \/ /\ collect_chain.state # "failed"
       /\ polling' = Len(ticks) + 1 /\ ticks' \in Seq(Callbacks) /\ Len(ticks') = Len(ticks) + 1
       /\ ticks'[polling'] = Armed(sw) /\ Armed(sw) \in StreamStates
       /\ \A n \in 1..Len(ticks) : ticks'[n] = NoTick
       /\ UNCHANGED <<errop, pktif>>
    \/ /\ polling' = 0 /\ errop' = TRUE /\ pktif' = TRUE
       /\ ticks' \in Seq(Callbacks) /\ Len(ticks') = Len(ticks)
       /\ \A n \in 1..Len(ticks) : ticks'[n] = NoTick

\* What START with POLLING does to the engine.
LEMMA ArmIs ==
    ASSUME EngineOk, NEW flags, arm(flags), out_swap(flags) \in BOOLEAN
    PROVE  /\ ArmResult(out_swap(flags)) /\ cecon' = flags \ {"START"}
           /\ UNCHANGED <<silicon, cebdpaddr, bd, out>>
<1> DEFINE sw == out_swap(flags)
           c == collect_chain
           a == Armed(sw)
           t == disarm_polling
<1>1. /\ t \in Seq(Callbacks) /\ Len(t) = Len(ticks)
      /\ \A n \in 1..Len(ticks) : t[n] = NoTick
  BY Disarmed
<1>2. cecon' = flags \ {"START"} /\ UNCHANGED <<silicon, cebdpaddr, bd, out>>
  BY DEF arm
<1>3. CASE cebdpaddr # 0 /\ c.state # "failed"
  <2>1. ticks' = Append(t, a) /\ polling' = Len(ticks) + 1 /\ UNCHANGED <<errop, pktif>>
    BY <1>3 DEF arm, Armed
  <2>2. a \in StreamStates
    <3>1. c.addrs \in Seq(BDs)
      BY ChainIs
    <3>2. <<>> \in Seq(Int)
      OBVIOUS
    <3> HIDE DEF c, sw
    <3>3. TRUE \in {TRUE} /\ FALSE \in BOOLEAN /\ sw \in BOOLEAN
      BY Zenon DEF sw
    <3> QED
      BY <3>1, <3>2, <3>3 DEF Armed, StreamStates, c
  <2>3. a \in Callbacks
    BY <2>2 DEF Callbacks
  <2> HIDE DEF a, t
  <2>4. /\ ticks' \in Seq(Callbacks) /\ Len(ticks') = Len(t) + 1
        /\ \A n \in 1..Len(t) : ticks'[n] = t[n]
        /\ ticks'[Len(t) + 1] = a
    BY <1>1, <2>1, <2>3, AppendProperties
  <2> QED
    BY <1>1, <1>2, <1>3, <2>1, <2>2, <2>4 DEF ArmResult, a
<1>4. CASE ~(cebdpaddr # 0 /\ c.state # "failed")
  <2>1. ticks' = t /\ polling' = 0 /\ errop' = TRUE /\ pktif' = TRUE
    BY <1>4 DEF arm
  <2> QED
    BY <1>1, <1>2, <2>1 DEF ArmResult
<1> QED
  BY <1>3, <1>4

\* The firmware of each silicon gets the byte order that it expects.
FlagsOk(flags) == "SWRST" \notin flags /\ out_swap(flags) = (silicon = "EF")

\* The flags that the firmware writes ask for the byte order that it expects.
LEMMA SwapIs ==
    ASSUME EngineOk, NEW o \in SwapFlags, NEW flags, o \subseteq flags, "SWRST" \notin flags
    PROVE  FlagsOk(flags) /\ "SWRST" \notin o /\ "POLLING" \notin o
<1>1. silicon \in {"EF", "EC"} /\ o \subseteq {"OUT_SWAP"}
  BY DEF EngineOk, SwapFlags
<1>2. CASE silicon = "EF"
  <2>1. "OUT_SWAP" \in flags
    BY <1>2 DEF SwapFlags
  <2> QED
    BY <1>1, <1>2, <2>1 DEF FlagsOk, out_swap
<1>3. CASE silicon = "EC"
  BY <1>1, <1>3 DEF FlagsOk, out_swap
<1> QED
  BY <1>1, <1>2, <1>3

\* The firmware of a stream arms it.
LEMMA StreamWrite ==
    ASSUME EngineOk, StartStream
    PROVE  \E flags : FlagsOk(flags) /\ arm(flags)
<1>1. PICK o \in SwapFlags : WriteCecon(0, {"START", "POLLING"} \cup o)
  BY DEF StartStream
<1> DEFINE flags == {"START", "POLLING"} \cup o
<1>2. o \subseteq {"OUT_SWAP"}
  BY DEF SwapFlags
<1>3. FlagsOk(flags)
  BY <1>2, SwapIs
<1>4. "SWRST" \notin flags /\ "POLLING" \in flags /\ atomic_op(cecon, 0, flags) = flags
  BY <1>2 DEF atomic_op
<1> HIDE DEF flags
<1>5. arm(flags)
  BY <1>1, <1>4 DEF WriteCecon, flags
<1> QED
  BY <1>3, <1>5

\* The firmware of a chain runs it, or arms a stream with a POLLING that was left over.
LEMMA SingleWrite ==
    ASSUME EngineOk, NEW lane \in 0..1, StartSingle(lane)
    PROVE  \E flags : /\ FlagsOk(flags)
                      /\ \/ start(flags)
                         \/ arm(flags) /\ ~(lane = 0 \/ "POLLING" \notin cecon)
<1>1. PICK o \in SwapFlags : WriteCecon(lane, {"START"} \cup o)
  BY DEF StartSingle
<1> DEFINE flags == atomic_op(cecon, lane, {"START"} \cup o)
<1>2. o \subseteq {"OUT_SWAP"} /\ "SWRST" \notin cecon /\ lane \in {0, 1}
  BY DEF SwapFlags, EngineOk
<1>3. flags = IF lane = 0 THEN {"START"} \cup o ELSE cecon \cup ({"START"} \cup o)
  BY <1>2 DEF atomic_op
<1>4. "SWRST" \notin flags /\ o \subseteq flags /\ "START" \in flags
      /\ ("POLLING" \in flags => ~(lane = 0 \/ "POLLING" \notin cecon))
  BY <1>2, <1>3
<1> HIDE DEF flags
<1>5. FlagsOk(flags)
  BY <1>4, SwapIs
<1>6. \/ arm(flags) /\ "POLLING" \in flags
      \/ start(flags)
  BY <1>1, <1>4 DEF WriteCecon, flags
<1> QED
  BY <1>4, <1>5, <1>6
-----------------------------------------------------------------------------
(* The invariant under the actions of the firmware. *)

\* The firmware at rest.
LEMMA IdleIs ==
    ASSUME NEW clean \in BOOLEAN
    PROVE  Idle(clean) \in IdleStates /\ Idle(clean).mode = "idle" /\ Idle(clean).clean = clean
BY DEF Idle, IdleStates

\* A reset keeps the invariant: it disarms the stream and clears the error.
LEMMA EngineReset ==
    ASSUME EngineInv, Reset
    PROVE  EngineInv'
<1>0. EngineOk
  BY DEF EngineInv
<1>1. Swrst
  <2>1. atomic_op(cecon, 0, {"SWRST"}) = {"SWRST"}
    BY DEF atomic_op
  <2> QED
    BY <2>1 DEF Reset, WriteCecon
<1>2. /\ cecon' = {} /\ errop' = FALSE /\ pktif' = FALSE /\ cebdpaddr' = 0 /\ polling' = 0
      /\ ticks' = disarm_polling /\ UNCHANGED <<silicon, bd, out>>
  BY <1>1 DEF Swrst, software_reset
<1>3. fw' = Idle(TRUE)
  BY DEF Reset
<1>4. fw' \in IdleStates /\ fw'.mode = "idle"
  BY <1>3, IdleIs, Zenon
<1>5. /\ ticks' \in Seq(Callbacks) /\ Len(ticks') = Len(ticks)
      /\ \A n \in 1..Len(ticks) : ticks'[n] = NoTick
  BY <1>0, <1>2, Disarmed
<1>6. Len(ticks) \in Nat
  BY <1>0, LenProperties DEF EngineOk
<1>7. EngineOk'
  <2>1. errop' \in BOOLEAN /\ pktif' \in BOOLEAN
    BY <1>2, Zenon
  <2>2. "SWRST" \notin cecon' /\ cebdpaddr' \in Nat /\ polling' = 0 /\ UNCHANGED <<silicon, bd, out>>
    BY <1>2
  <2> QED
    BY <1>0, <1>4, <1>5, <1>6, <2>1, <2>2 DEF EngineOk
<1>8. IdleOk' /\ StreamOk' /\ SingleOk' /\ SingleUndisturbed'
  BY <1>2, <1>4 DEF IdleOk, StreamOk, SingleOk, SingleUndisturbed, Quiet
<1> QED
  BY <1>7, <1>8 DEF EngineInv

\* A table of outputs without any.
LEMMA OutputsCleared ==
    ASSUME NEW o, o = [b \in BDs |-> NoOutput]
    PROVE  DOMAIN o = BDs /\ o = [b \in BDs |-> o[b]]
OBVIOUS

\* The layout of a stream keeps it.
LEMMA EngineLayOutStream ==
    ASSUME EngineInv, NEW m \in Streams, LayOutStream(m)
    PROVE  EngineInv'
<1>0. EngineOk
  BY DEF EngineInv
<1>1. /\ fw.mode = "idle" /\ out' = [b \in BDs |-> NoOutput] /\ pktif' = FALSE /\ cebdpaddr' = m.addr
      /\ UNCHANGED <<silicon, cecon, errop, ticks, polling>>
      /\ bd' = [b \in BDs |-> [en |-> FALSE, saf |-> b = 1, last |-> FALSE, lifm |-> FALSE,
                              buf |-> <<>>, msglen |-> m.size, nxt |-> m.ring[b], algo |-> m.algo]]
  BY DEF LayOutStream, LayOut
<1>2. fw' = [mode |-> "stream", started |-> FALSE, size |-> m.size, sent |-> 0, cur |-> 1,
              final |-> 0, inverted |-> FALSE, algo |-> m.algo, clean |-> fw.clean]
  BY DEF LayOutStream
<1>3. m.size \in Nat /\ m.addr \in Nat /\ m.algo \in AlgoNames /\ \A b \in BDs : m.ring[b] \in Nat
  BY FirmwareConstants DEF AlgoNames, BDs
<1>4. fw.clean \in BOOLEAN
  BY <1>0, <1>1, ModeIs DEF IdleStates
<1>5. /\ fw' \in StreamJobs /\ fw'.mode = "stream" /\ fw'.started = FALSE /\ fw'.sent = 0 /\ fw'.cur = 1
      /\ fw'.final = 0 /\ fw'.inverted = FALSE /\ fw'.clean = fw.clean
  BY <1>2, <1>3, <1>4, EngineConstants DEF StreamJobs
<1>6. bd' \in [BDs -> Descriptors] /\ \A b \in BDs : ~bd'[b].en
  BY <1>1, <1>3 DEF Descriptors
<1>7. DOMAIN out' = BDs /\ out' = [b \in BDs |-> out'[b]]
  BY <1>1, OutputsCleared
<1>8. EngineOk'
  BY <1>0, <1>1, <1>3, <1>5, <1>6, <1>7 DEF EngineOk
<1>9. fw.clean => Quiet /\ ~errop
  BY <1>1 DEF EngineInv, IdleOk
<1>10. StreamOk'
  BY <1>1, <1>5, <1>6, <1>9 DEF StreamOk, Quiet
<1>11. IdleOk' /\ SingleOk' /\ SingleUndisturbed'
  BY <1>5 DEF IdleOk, SingleOk, SingleUndisturbed
<1> QED
  BY <1>8, <1>10, <1>11 DEF EngineInv

\* The layout of a chain keeps it.
LEMMA EngineLayOutSingle ==
    ASSUME EngineInv, NEW d \in Singles, LayOutSingle(d)
    PROVE  EngineInv'
<1>0. EngineOk
  BY DEF EngineInv
<1>1. /\ fw.mode = "idle" /\ out' = [b \in BDs |-> NoOutput] /\ pktif' = FALSE /\ cebdpaddr' = d.addr
      /\ UNCHANGED <<silicon, cecon, errop, ticks, polling>>
      /\ bd' = [b \in BDs |->
            [en |-> d.en \/ b # 1, saf |-> d.saf \/ b # 1, last |-> d.last \/ b # 1, lifm |-> TRUE,
             buf |-> Padded(Positions(1, d.size)), msglen |-> d.size, nxt |-> d.ring[b],
             algo |-> d.algo]]
  BY DEF LayOutSingle, LayOut
<1>2. fw' = [mode |-> "single", started |-> FALSE, first |-> d, clean |-> fw.clean]
  BY DEF LayOutSingle
<1>3. /\ d.size \in Nat /\ d.addr \in Nat /\ d.algo \in AlgoNames /\ \A b \in BDs : d.ring[b] \in Nat
      /\ d.en \in BOOLEAN /\ d.saf \in BOOLEAN /\ d.last \in BOOLEAN
  BY FirmwareConstants DEF AlgoNames, BDs
<1>4. fw.clean \in BOOLEAN
  BY <1>0, <1>1, ModeIs DEF IdleStates
<1>5. /\ fw' \in SingleJobs /\ fw'.mode = "single" /\ fw'.started = FALSE /\ fw'.first = d
      /\ fw'.clean = fw.clean
  BY <1>2, <1>4 DEF SingleJobs
<1> DEFINE p == Padded(Positions(1, d.size))
<1>6. p \in Seq(Int)
  BY FirstBdIs DEF FirstBd
<1> HIDE DEF p
<1>7. bd' \in [BDs -> Descriptors]
  <2>1. \A b \in BDs : /\ (d.en \/ b # 1) \in BOOLEAN /\ (d.saf \/ b # 1) \in BOOLEAN
                       /\ (d.last \/ b # 1) \in BOOLEAN /\ TRUE \in BOOLEAN
    BY <1>3
  <2>2. bd' = [b \in BDs |->
            [en |-> d.en \/ b # 1, saf |-> d.saf \/ b # 1, last |-> d.last \/ b # 1, lifm |-> TRUE,
             buf |-> p, msglen |-> d.size, nxt |-> d.ring[b], algo |-> d.algo]]
    BY <1>1 DEF p
  <2> QED
    BY <1>3, <1>6, <2>1, <2>2 DEF Descriptors
<1>8. bd'[1] = FirstBd(d)
  <2>1. 1 \in BDs
    BY EngineConstants DEF BDs
  <2>2. (d.en \/ 1 # 1) = d.en /\ (d.saf \/ 1 # 1) = d.saf /\ (d.last \/ 1 # 1) = d.last
    BY <1>3
  <2> QED
    BY <1>1, <2>1, <2>2, Zenon DEF FirstBd
<1>9. DOMAIN out' = BDs /\ out' = [b \in BDs |-> out'[b]]
  BY <1>1, OutputsCleared
<1>10. EngineOk'
  BY <1>0, <1>1, <1>3, <1>5, <1>7, <1>9 DEF EngineOk
<1>11. fw.clean => Quiet /\ ~errop
  BY <1>1 DEF EngineInv, IdleOk
<1>12. SingleOk'
  <2>1. FirstBd(d)' = FirstBd(d)
    BY DEF FirstBd
  <2> QED
    BY <1>1, <1>5, <1>8, <1>11 DEF SingleOk, Quiet, FirstBd
<1>13. IdleOk' /\ StreamOk' /\ SingleUndisturbed'
  BY <1>5 DEF IdleOk, StreamOk, SingleUndisturbed
<1> QED
  BY <1>10, <1>12, <1>13 DEF EngineInv

\* The start of a stream keeps it: an error leaves no stream.
LEMMA EngineStartStream ==
    ASSUME EngineInv, StartStream
    PROVE  EngineInv'
<1>0. EngineOk
  BY DEF EngineInv
<1>1. PICK flags : FlagsOk(flags) /\ arm(flags)
  BY <1>0, StreamWrite
<1> DEFINE sw == out_swap(flags)
<1>2. sw \in BOOLEAN
  BY Zenon DEF out_swap
<1>3. /\ ArmResult(sw) /\ cecon' = flags \ {"START"}
      /\ UNCHANGED <<silicon, cebdpaddr, bd, out>>
  BY <1>0, <1>1, <1>2, ArmIs
<1>4. fw.mode = "stream" /\ ~fw.started /\ fw' = [fw EXCEPT !.started = TRUE] /\ fw \in StreamJobs
  BY <1>0, ModeIs DEF StartStream
<1>5. /\ fw' \in StreamJobs /\ fw'.mode = "stream" /\ fw'.started /\ fw'.final = fw.final
      /\ fw'.clean = fw.clean
  BY <1>4 DEF StreamJobs
<1>6. fw.final = 0 /\ (fw.clean => ~errop)
  BY <1>4 DEF EngineInv, StreamOk
<1> HIDE DEF sw
<1>7. Len(ticks) \in Nat
  BY <1>0, LenProperties DEF EngineOk
<1>8. /\ ticks' \in Seq(Callbacks) /\ polling' \in 0..Len(ticks') /\ errop' \in BOOLEAN /\ pktif' \in BOOLEAN
      /\ polling' # 0 => ticks'[polling'] \in StreamStates
      /\ \A n \in 1..Len(ticks') : n # polling' => ticks'[n] = NoTick
      /\ polling' # 0 => errop' = errop
  <2>1. CASE polling' = Len(ticks) + 1 /\ Len(ticks') = Len(ticks) + 1 /\ UNCHANGED <<errop, pktif>>
             /\ ticks'[polling'] \in StreamStates
    BY <1>0, <1>3, <1>7, <2>1 DEF ArmResult, EngineOk
  <2>2. CASE polling' = 0 /\ Len(ticks') = Len(ticks) /\ errop' = TRUE /\ pktif' = TRUE
    <3>1. errop' \in BOOLEAN /\ pktif' \in BOOLEAN
      BY <2>2, Zenon
    <3>2. ticks' \in Seq(Callbacks) /\ \A n \in 1..Len(ticks) : ticks'[n] = NoTick
      BY <1>3, Zenon DEF ArmResult
    <3>3. polling' = 0 /\ Len(ticks') = Len(ticks)
      BY <2>2
    <3> QED
      BY <1>7, <3>1, <3>2, <3>3
  <2> QED
    BY <1>3, <2>1, <2>2 DEF ArmResult
<1>9. EngineOk'
  BY <1>0, <1>1, <1>3, <1>5, <1>8 DEF EngineOk, FlagsOk
<1>10. StreamOk'
  BY <1>3, <1>5, <1>6, <1>8 DEF StreamOk
<1>11. IdleOk' /\ SingleOk' /\ SingleUndisturbed'
  BY <1>5 DEF IdleOk, SingleOk, SingleUndisturbed
<1> QED
  BY <1>9, <1>10, <1>11 DEF EngineInv
\* A chain writes outputs, and nothing else.
RunStates(s) ==
    /\ s = [at |-> s.at, out |-> s.out, state |-> s.state]
    /\ DOMAIN s.out = BDs /\ s.out = [b \in BDs |-> s.out[b]]

\* One descriptor writes one output.
LEMMA RunStepOut ==
    ASSUME NEW s, RunStates(s), NEW sw
    PROVE  RunStates(RunStep(s, sw))
<1>1. CASE RunStep(s, sw) = s
  BY <1>1
<1>2. CASE RunStep(s, sw) = [s EXCEPT !.state = "failed"]
  <2>1. PICK x, y, z : s = [at |-> x, out |-> y, state |-> z]
    BY DEF RunStates
  <2>2. y = s.out
    BY <2>1
  <2>3. RunStep(s, sw) = [at |-> x, out |-> y, state |-> "failed"]
    BY <1>2, <2>1
  <2> QED
    BY <2>2, <2>3 DEF RunStates
<1>3. ASSUME NEW x, NEW r, NEW z, RunStep(s, sw) = [at |-> x, out |-> [s.out EXCEPT ![s.at] = r], state |-> z]
      PROVE  RunStates(RunStep(s, sw))
  <2> DEFINE o == [s.out EXCEPT ![s.at] = r]
  <2>1. DOMAIN o = BDs /\ o = [b \in BDs |-> o[b]]
    BY DEF RunStates
  <2> HIDE DEF o
  <2> QED
    BY <1>3, <2>1 DEF RunStates, o
<1> QED
  <2>1. CASE s.state # "running"
    BY <1>1, <2>1 DEF RunStep
  <2>2. CASE s.state = "running"
    <3>1. RunStep(s, sw) = run_bd(s, sw)
      BY <2>2 DEF RunStep
    <3>2. \/ run_bd(s, sw) = [s EXCEPT !.state = "failed"]
          \/ \E x, r, z : run_bd(s, sw) = [at |-> x, out |-> [s.out EXCEPT ![s.at] = r], state |-> z]
      BY Zenon DEF run_bd
    <3> QED
      BY <1>2, <1>3, <3>1, <3>2
  <2> QED
    BY <2>1, <2>2

\* A chain that runs at once writes outputs.
LEMMA RunOut ==
    ASSUME EngineOk, NEW sw
    PROVE  DOMAIN run_chain(sw).out = BDs /\ run_chain(sw).out = [b \in BDs |-> run_chain(sw).out[b]]
<1> DEFINE n == MAX_BD_CHAIN
<1>1. n \in Nat
  BY EngineConstants
<1>2. PICK g : RunFrom(g, sw)
  BY RunIs
<1>3. /\ g[0] = [at |-> cebdpaddr, out |-> out, state |-> "running"]
      /\ \A i \in 1..n : g[i] = RunStep(g[i - 1], sw)
      /\ run_chain(sw) = g[n]
  BY <1>2 DEF RunFrom
<1> DEFINE S == {i \in Nat : i <= n => RunStates(g[i])}
<1>4. 0 \in S
  <2>1. DOMAIN out = BDs /\ out = [b \in BDs |-> out[b]]
    BY DEF EngineOk
  <2>2. RunStates(g[0])
    BY <1>3, <2>1 DEF RunStates
  <2> QED
    BY <2>2
<1>5. ASSUME NEW i \in Nat, i \in S PROVE i + 1 \in S
  <2> SUFFICES ASSUME i + 1 <= n PROVE RunStates(g[i + 1])
    OBVIOUS
  <2>1. i + 1 \in 1..n /\ (i + 1) - 1 = i /\ i <= n
    BY <1>1
  <2>2. g[i + 1] = RunStep(g[i], sw) /\ RunStates(g[i])
    BY <1>3, <1>5, <2>1
  <2> QED
    BY <2>2, RunStepOut
<1> HIDE DEF S
<1>6. Nat \subseteq S
  BY <1>4, <1>5, Induction
<1>7. RunStates(g[n])
  BY <1>1, <1>6 DEF S
<1> QED
  BY <1>3, <1>7 DEF RunStates

\* The start of a chain keeps it, and the chain of a clean firmware is not disturbed.
LEMMA EngineStartSingle ==
    ASSUME EngineInv, NEW lane \in 0..1, StartSingle(lane)
    PROVE  EngineInv'
<1>0. EngineOk
  BY DEF EngineInv
<1>1. PICK flags : /\ FlagsOk(flags)
                   /\ \/ start(flags)
                      \/ arm(flags) /\ ~(lane = 0 \/ "POLLING" \notin cecon)
  BY <1>0, SingleWrite
<1> DEFINE sw == out_swap(flags)
           plain == lane = 0 \/ "POLLING" \notin cecon
<1>2. sw \in BOOLEAN /\ sw = (silicon = "EF") /\ "SWRST" \notin flags
  BY <1>1 DEF FlagsOk
<1>3. /\ fw.mode = "single" /\ ~fw.started /\ fw \in SingleJobs
      /\ fw' = [fw EXCEPT !.started = TRUE, !.clean = @ /\ plain]
  BY <1>0, ModeIs DEF StartSingle
<1> HIDE DEF plain
<1>4. /\ fw' \in SingleJobs /\ fw'.mode = "single" /\ fw'.started /\ fw'.first = fw.first
      /\ fw'.clean => fw.clean /\ plain
  <2>1. plain \in BOOLEAN
    BY Zenon DEF plain
  <2> QED
    BY <1>3, <2>1 DEF SingleJobs
<1>5. IdleOk' /\ StreamOk'
  BY <1>4 DEF IdleOk, StreamOk
<1>6. CASE arm(flags) /\ ~plain
  <2>1. /\ ArmResult(sw) /\ cecon' = flags \ {"START"}
        /\ UNCHANGED <<silicon, cebdpaddr, bd, out>>
    BY <1>0, <1>2, <1>6, ArmIs
  <2>2. Len(ticks) \in Nat
    BY <1>0, LenProperties DEF EngineOk
  <2> HIDE DEF sw
  <2>3. /\ ticks' \in Seq(Callbacks) /\ polling' \in 0..Len(ticks') /\ errop' \in BOOLEAN /\ pktif' \in BOOLEAN
        /\ polling' # 0 => ticks'[polling'] \in StreamStates
        /\ \A n \in 1..Len(ticks') : n # polling' => ticks'[n] = NoTick
    <3>1. CASE polling' = Len(ticks) + 1 /\ Len(ticks') = Len(ticks) + 1 /\ UNCHANGED <<errop, pktif>>
               /\ ticks'[polling'] \in StreamStates
      BY <1>0, <2>1, <2>2, <3>1 DEF ArmResult, EngineOk
    <3>2. CASE polling' = 0 /\ Len(ticks') = Len(ticks) /\ errop' = TRUE /\ pktif' = TRUE
      <4>1. errop' \in BOOLEAN /\ pktif' \in BOOLEAN
        BY <3>2, Zenon
      <4>2. ticks' \in Seq(Callbacks) /\ \A n \in 1..Len(ticks) : ticks'[n] = NoTick
        BY <2>1, Zenon DEF ArmResult
      <4>3. polling' = 0 /\ Len(ticks') = Len(ticks)
        BY <3>2
      <4> QED
        BY <2>2, <4>1, <4>2, <4>3
    <3> QED
      BY <2>1, <3>1, <3>2 DEF ArmResult
  <2>4. EngineOk'
    BY <1>0, <1>2, <1>4, <2>1, <2>3 DEF EngineOk
  <2>5. SingleOk' /\ SingleUndisturbed'
    BY <1>4, <1>6 DEF SingleOk, SingleUndisturbed
  <2> QED
    BY <1>5, <2>4, <2>5 DEF EngineInv
<1>7. CASE start(flags)
  <2> DEFINE r == run_chain(sw)
  <2>1. /\ cecon' = flags \ {"START"} /\ out' = r.out /\ errop' = (errop \/ r.state = "failed")
        /\ pktif' = TRUE /\ UNCHANGED <<silicon, cebdpaddr, bd, ticks, polling>>
    BY <1>7 DEF start
  <2>2. DOMAIN r.out = BDs /\ r.out = [b \in BDs |-> r.out[b]]
    BY <1>0, RunOut
  <2> HIDE DEF r
  <2>3. errop' \in BOOLEAN /\ pktif' \in BOOLEAN
    BY <2>1, Zenon
  <2>4. EngineOk'
    BY <1>0, <1>2, <1>4, <2>1, <2>2, <2>3 DEF EngineOk
  <2>5. fw'.clean => Quiet /\ bd[1] = FirstBd(fw.first) /\ ~errop
    BY <1>3, <1>4 DEF EngineInv, SingleOk
  <2>6. SingleOk'
    BY <1>4, <2>1, <2>5 DEF SingleOk, Quiet, FirstBd
  <2>7. SingleUndisturbed'
    <3> DEFINE d == fw.first
    <3> SUFFICES ASSUME fw'.clean, cebdpaddr = 1, d.en, d.saf, d.last, d.algo # "none"
                 PROVE  SingleUndisturbed'
      BY <1>4, <2>1 DEF SingleUndisturbed
    <3>1. GoodFirst(d) /\ d \in Singles
      BY <1>3 DEF GoodFirst, SingleJobs
    <3>2. bd[1] = FirstBd(d) /\ ~errop
      BY <2>5
    <3> HIDE DEF d
    <3>3. RanOne(r, d, sw)
      BY <1>2, <3>1, <3>2, RunOne DEF r
    <3>4. ResultOk(d, execute(FirstBd(d), sw), sw)
      BY <1>2, <3>1, ExecuteIs DEF GoodFirst
    <3> DEFINE x == execute(FirstBd(d), sw)
    <3>5. out'[1] = x /\ r.state = "done"
      <4>1. 1 \in BDs /\ DOMAIN out = BDs
        BY <1>0, EngineConstants DEF BDs, EngineOk
      <4> QED
        BY <2>1, <3>3, <4>1 DEF RanOne
    <3> HIDE DEF x
    <3>6. ~errop' /\ pktif'
      BY <2>1, <3>2, <3>5, Zenon
    <3>7. silicon \in {"EF", "EC"}
      BY <1>0 DEF EngineOk
    <3>8. (~sw) = (silicon = "EC")
      BY <1>2, <3>7
    <3>9. Reached(bd[1]) = Reached(FirstBd(d))
      BY <3>2
    <3>10. /\ x # NoOutput /\ x.swapped = (silicon = "EC")
           /\ IF d.algo \in {"hash", "hmac"} THEN x.bytes = Positions(1, d.size)
              ELSE \A i \in 1..Reached(bd[1]) : x.bytes[i] = -i
      BY <3>4, <3>8, <3>9, Zenon DEF ResultOk, x
    <3>11. fw'.first = d /\ silicon' = silicon /\ bd' = bd
      BY <1>4, <2>1 DEF d
    <3>12. Reached(bd[1])' = Reached(bd[1])
      BY <2>1 DEF Reached
    <3> QED
      BY <3>5, <3>6, <3>10, <3>11, <3>12 DEF SingleUndisturbed
  <2> QED
    BY <1>5, <2>4, <2>6, <2>7 DEF EngineInv
<1> QED
  BY <1>1, <1>6, <1>7 DEF plain

\* The descriptor d once it is filled with the bytes after lo, up to hi.
Filled(d, lo, hi, last, e) ==
    /\ e \in Descriptors /\ e.en /\ e.buf = Padded(Positions(lo + 1, hi)) /\ e.last = last /\ e.lifm = last
    /\ e.saf = d.saf /\ e.msglen = d.msglen /\ e.nxt = d.nxt /\ e.algo = d.algo

\* What the firmware does to a descriptor that it fills.
LEMMA FillIs ==
    ASSUME EngineOk, NEW k \in 0..BUF, Fill(k)
    PROVE  /\ fw \in StreamJobs /\ fw.mode = "stream" /\ fw.started /\ fw.final = 0
           /\ fw.cur \in BDs /\ ~bd[fw.cur].en /\ k \in Nat
           /\ k <= fw.size - fw.sent /\ (fw.sent + k = fw.size \/ k % BLOCK = 0)
           /\ bd' \in [BDs -> Descriptors] /\ \A b \in BDs : b # fw.cur => bd'[b] = bd[b]
           /\ Filled(bd[fw.cur], fw.sent, fw.sent + k, fw.sent + k = fw.size, bd'[fw.cur])
           /\ fw' \in StreamJobs
           /\ fw'.mode = "stream" /\ fw'.started /\ fw'.size = fw.size /\ fw'.sent = fw.sent + k
           /\ fw'.cur = bd[fw.cur].nxt /\ fw'.algo = fw.algo /\ fw'.clean = fw.clean
           /\ fw'.final = IF fw.sent + k = fw.size THEN fw.cur ELSE 0
           /\ UNCHANGED <<engine, out>>
<1> DEFINE b == fw.cur
           last == fw.sent + k = fw.size
           buf == Padded(Positions(fw.sent + 1, fw.sent + k))
           inv == fw.inverted \/ (polling # 0 /\ \E c \in Behind(b) : bd[c].en)
           d == bd[b]
           e == [d EXCEPT !.buf = buf, !.last = last, !.lifm = last, !.en = TRUE]
<1>1. /\ fw.mode = "stream" /\ fw.started /\ fw.final = 0 /\ b \in BDs /\ ~d.en
      /\ k <= fw.size - fw.sent /\ (last \/ (k > 0 /\ k % BLOCK = 0))
      /\ UNCHANGED <<engine, out>>
  BY DEF Fill, Mapped
<1>2. fw \in StreamJobs /\ fw.size \in Nat /\ fw.sent \in Nat
  BY <1>1, ModeIs DEF StreamJobs
<1>3. k \in Nat /\ fw.sent + 1 \in Nat /\ fw.sent + k \in Nat /\ fw.sent + 1 <= (fw.sent + k) + 1
  BY <1>2, EngineConstants
<1>4. buf \in Seq(Int)
  <2>1. Positions(fw.sent + 1, fw.sent + k) \in Seq(Int)
    BY <1>3, PositionsSeq
  <2> QED
    BY <2>1, PaddedIs DEF PaddedOf
<1>5. last \in BOOLEAN /\ inv \in BOOLEAN /\ TRUE \in BOOLEAN
  BY <1>2, Zenon DEF StreamJobs
<1>6. bd' = [bd EXCEPT ![b].buf = buf, ![b].last = last, ![b].lifm = last, ![b].en = TRUE]
  BY Zenon DEF Fill
<1>7. fw' = [fw EXCEPT !.sent = @ + k, !.cur = d.nxt, !.final = IF last THEN b ELSE 0, !.inverted = inv]
  BY Zenon DEF Fill
<1>8. d \in Descriptors /\ bd \in [BDs -> Descriptors] /\ d.nxt \in Nat
  BY <1>1 DEF EngineOk, Descriptors
<1>9. IF last THEN b = b ELSE 0 = 0
  OBVIOUS
<1>10. (IF last THEN b ELSE 0) \in 0..NBD
  BY <1>1, EngineConstants DEF BDs
<1> HIDE DEF buf, last, inv, d, b
<1>11. /\ fw' \in StreamJobs /\ fw'.mode = "stream" /\ fw'.started = fw.started /\ fw'.size = fw.size
       /\ fw'.sent = fw.sent + k
       /\ fw'.cur = d.nxt /\ fw'.algo = fw.algo /\ fw'.clean = fw.clean
       /\ fw'.final = IF last THEN b ELSE 0
  BY <1>2, <1>3, <1>5, <1>7, <1>8, <1>10 DEF StreamJobs
<1>12. bd' = [bd EXCEPT ![b] = e]
  BY <1>1, <1>6, <1>8 DEF d
<1>13. e \in Descriptors /\ e.en /\ e.buf = buf /\ e.last = last /\ e.lifm = last
       /\ e.saf = d.saf /\ e.msglen = d.msglen /\ e.nxt = d.nxt /\ e.algo = d.algo
  BY <1>4, <1>5, <1>8 DEF Descriptors
<1> HIDE DEF e
<1>14. bd' \in [BDs -> Descriptors] /\ bd'[b] = e /\ \A c \in BDs : c # b => bd'[c] = bd[c]
  BY <1>1, <1>8, <1>12, <1>13
<1>15. Filled(d, fw.sent, fw.sent + k, last, bd'[b])
  BY <1>13, <1>14 DEF Filled, buf
<1> QED
  BY <1>1, <1>2, <1>3, <1>11, <1>14, <1>15 DEF b, d, last

\* It keeps the invariant of the engine.
LEMMA EngineFill ==
    ASSUME EngineInv, NEW k \in 0..BUF, Fill(k)
    PROVE  EngineInv'
<1>0. EngineOk
  BY DEF EngineInv
<1>1. /\ fw \in StreamJobs /\ fw.mode = "stream" /\ fw.started /\ fw.cur \in BDs
      /\ bd' \in [BDs -> Descriptors]
      /\ Filled(bd[fw.cur], fw.sent, fw.sent + k, fw.sent + k = fw.size, bd'[fw.cur])
      /\ fw' \in StreamJobs /\ fw'.mode = "stream" /\ fw'.started /\ fw'.clean = fw.clean
      /\ fw'.final = IF fw.sent + k = fw.size THEN fw.cur ELSE 0
      /\ UNCHANGED <<engine, out>>
  BY <1>0, FillIs
<1>2. UNCHANGED <<silicon, cecon, errop, pktif, cebdpaddr, ticks, polling, out>>
  BY <1>1 DEF engine
<1>3. EngineOk'
  BY <1>0, <1>1, <1>2 DEF EngineOk
<1>4. fw'.final # 0 => bd'[fw'.final].last /\ bd'[fw'.final].lifm /\ bd'[fw'.final].en
  BY <1>1 DEF Filled
<1>5. fw.clean /\ polling # 0 => ~errop
  BY <1>1 DEF EngineInv, StreamOk
<1>6. StreamOk'
  BY <1>1, <1>2, <1>4, <1>5 DEF StreamOk
<1>7. IdleOk' /\ SingleOk' /\ SingleUndisturbed'
  BY <1>1 DEF IdleOk, SingleOk, SingleUndisturbed
<1> QED
  BY <1>3, <1>6, <1>7 DEF EngineInv

\* So does the end of a job: a firmware that is clean after it leaves a quiet engine.
LEMMA EngineLeave ==
    ASSUME EngineInv, Leave
    PROVE  EngineInv'
<1>0. EngineOk
  BY DEF EngineInv
<1> DEFINE clean == /\ fw.clean /\ fw.started
                    /\ IF fw.mode = "stream" THEN fw.final # 0 /\ ~bd[fw.final].en ELSE ~errop
<1>1. fw.mode # "idle" /\ fw' = Idle(clean) /\ UNCHANGED <<engine, bd, out>>
  BY DEF Leave
<1>2. UNCHANGED <<silicon, cecon, errop, pktif, cebdpaddr, ticks, polling, bd, out>>
  BY <1>1 DEF engine
<1>3. fw.mode \in {"stream", "single"}
  BY <1>0, <1>1, ModeIs
<1>4. clean \in BOOLEAN
  <2>1. CASE fw.mode = "stream"
    BY <1>0, <2>1, ModeIs DEF StreamJobs
  <2>2. CASE fw.mode = "single"
    BY <1>0, <2>2, ModeIs DEF SingleJobs
  <2> QED
    BY <1>3, <2>1, <2>2
<1>5. clean => Quiet /\ ~errop
  <2>1. CASE fw.mode = "stream"
    BY <2>1 DEF EngineInv, StreamOk, Quiet
  <2>2. CASE fw.mode = "single"
    BY <2>2 DEF EngineInv, SingleOk
  <2> QED
    BY <1>3, <2>1, <2>2
<1> HIDE DEF clean
<1>6. fw' \in IdleStates /\ fw'.mode = "idle" /\ fw'.clean = clean
  BY <1>1, <1>4, IdleIs
<1>7. EngineOk'
  BY <1>0, <1>2, <1>6 DEF EngineOk
<1>8. IdleOk'
  BY <1>2, <1>5, <1>6 DEF IdleOk, Quiet
<1>9. StreamOk' /\ SingleOk' /\ SingleUndisturbed'
  BY <1>6 DEF StreamOk, SingleOk, SingleUndisturbed
<1> QED
  BY <1>7, <1>8, <1>9 DEF EngineInv

\* Every step keeps the invariant of the engine.
LEMMA EngineStep ==
    ASSUME EngineInv, [CeNext]_cevars
    PROVE  EngineInv'
<1>1. CASE Tick
  BY <1>1, EngineTick
<1>2. CASE Reset
  BY <1>2, EngineReset
<1>3. ASSUME NEW m \in Streams, LayOutStream(m) PROVE EngineInv'
  BY <1>3, EngineLayOutStream
<1>4. ASSUME NEW d \in Singles, LayOutSingle(d) PROVE EngineInv'
  BY <1>4, EngineLayOutSingle
<1>5. CASE StartStream
  BY <1>5, EngineStartStream
<1>6. ASSUME NEW lane \in 0..1, StartSingle(lane) PROVE EngineInv'
  BY <1>6, EngineStartSingle
<1>7. ASSUME NEW k \in 0..BUF, Fill(k) PROVE EngineInv'
  BY <1>7, EngineFill
<1>8. CASE Leave
  BY <1>8, EngineLeave
<1>9. CASE UNCHANGED cevars
  BY <1>9, EngineUnchanged
<1> QED
  BY <1>1, <1>2, <1>3, <1>4, <1>5, <1>6, <1>7, <1>8, <1>9 DEF CeNext

\* The invariant of the engine always holds.
LEMMA EngineAlways == CeSpec => []EngineInv
<1>1. CeInit => EngineInv
  BY EngineInit
<1>2. EngineInv /\ [CeNext]_cevars => EngineInv'
  BY EngineStep
<1> QED
  BY <1>1, <1>2, PTL DEF CeSpec

\* A chain that the PIC32MZ firmware lays out after a reset, or after work that ended well, is not
\* disturbed by an earlier stream.
THEOREM ChainsAreUndisturbed == CeSpec => []SingleUndisturbed
<1>1. EngineInv => SingleUndisturbed
  BY DEF EngineInv
<1> QED
  BY <1>1, EngineAlways, PTL
-----------------------------------------------------------------------------
(***************************************************************************)
(* The bytes of a message.                                                 *)
(***************************************************************************)
LEMMA PositionsJoin ==
    ASSUME NEW lo \in Nat, NEW hi \in Nat, lo <= hi
    PROVE  Positions(1, lo) \o Positions(lo + 1, hi) = Positions(1, hi)
<1> DEFINE a == Positions(1, lo)
           b == Positions(lo + 1, hi)
           c == Positions(1, hi)
           j == a \o b
<1>1. a \in Seq(Int) /\ Len(a) = lo /\ \A i \in 1..lo : a[i] = i
  BY PositionsSeq, FirstPositions
<1>2. c \in Seq(Int) /\ Len(c) = hi /\ \A i \in 1..hi : c[i] = i
  BY PositionsSeq, FirstPositions
<1>3. b \in Seq(Int) /\ Len(b) = hi - lo /\ \A i \in 1..(hi - lo) : b[i] = lo + i
  <2>1. lo + 1 \in Nat /\ lo + 1 <= hi + 1 /\ hi - (lo + 1) + 1 = hi - lo
    OBVIOUS
  <2>2. b \in Seq(Int) /\ Len(b) = hi - (lo + 1) + 1
        /\ \A n \in 1..(hi - (lo + 1) + 1) : b[n] = lo + 1 + n - 1
    BY <2>1, PositionsSeq, PositionsAre
  <2> HIDE DEF b
  <2> QED
    BY <2>1, <2>2
<1> HIDE DEF a, b, c
<1>4. /\ j \in Seq(Int) /\ Len(j) = Len(a) + Len(b)
      /\ \A i \in 1..(Len(a) + Len(b)) : j[i] = IF i <= Len(a) THEN a[i] ELSE b[i - Len(a)]
  BY <1>1, <1>3, ConcatProperties
<1> HIDE DEF j
<1>5. Len(j) = hi /\ \A i \in 1..hi : j[i] = IF i <= lo THEN a[i] ELSE b[i - lo]
  BY <1>1, <1>3, <1>4
<1>6. ASSUME NEW i \in 1..hi PROVE j[i] = c[i]
  <2>1. CASE i <= lo
    BY <1>1, <1>2, <1>5, <2>1
  <2>2. CASE ~(i <= lo)
    <3>1. i - lo \in 1..(hi - lo) /\ lo + (i - lo) = i
      BY <2>2
    <3> QED
      BY <1>2, <1>3, <1>5, <2>2, <3>1
  <2> QED
    BY <2>1, <2>2
<1>7. j = c
  BY <1>2, <1>4, <1>5, <1>6, SeqEqual
<1> QED
  BY <1>7 DEF j, a, b, c

\* MSGLEN cuts the padding and nothing else.
LEMMA TakeIs ==
    ASSUME NEW size \in Nat, NEW lo \in 0..size, NEW hi \in 0..size, NEW d,
           HoldsBytes(d, lo, hi, size), d.msglen = size
    PROVE  take(d, lo) = Positions(lo + 1, hi)
<1> DEFINE s == Positions(lo + 1, hi)
           p == d.buf
           n == Len(s)
<1>1. lo <= hi /\ p = Padded(s) /\ ((hi - lo) % BLOCK = 0 \/ hi = size)
  BY DEF HoldsBytes
<1>2. s \in Seq(Int) /\ n = hi - lo /\ n \in Nat
  <2>1. lo + 1 \in Nat /\ hi \in Nat /\ lo + 1 <= hi + 1 /\ hi - (lo + 1) + 1 = hi - lo /\ hi - lo \in Nat
    BY <1>1
  <2>2. s \in Seq(Int) /\ Len(s) = hi - (lo + 1) + 1
    BY <2>1, PositionsSeq
  <2> HIDE DEF s
  <2> QED
    BY <2>1, <2>2
<1> HIDE DEF s
<1>3. PaddedOf(Padded(s), s)
  BY <1>2, PaddedIs
<1>4. p \in Seq(Int) /\ Len(p) \in Nat /\ n <= Len(p) /\ SubSeq(p, 1, n) = s
      /\ (n % BLOCK = 0 => Len(p) = n)
  BY <1>1, <1>3 DEF PaddedOf
<1> HIDE DEF p, n
<1>5. CASE size = 0
  <2>1. n = 0 /\ take(d, lo) = p
    BY <1>1, <1>2, <1>5 DEF take, p
  <2>2. 0 % BLOCK = 0
    BY EngineConstants
  <2>3. Len(p) = 0 /\ Len(s) = 0
    BY <1>4, <2>1, <2>2 DEF n
  <2>4. p = s
    BY <1>2, <1>4, <2>3, SeqEqual
  <2> QED
    BY <2>1, <2>4 DEF s
<1>6. CASE size # 0
  <2> DEFINE m == Lesser(Len(p), size - Lesser(lo, size))
  <2>1. take(d, lo) = SubSeq(p, 1, m)
    BY <1>6 DEF take, p
  <2>2. Lesser(lo, size) = lo
    BY DEF Lesser
  <2>3. n % BLOCK = 0 \/ hi = size
    BY <1>1, <1>2
  <2>4. m = n
    <3>1. CASE n % BLOCK = 0
      BY <1>1, <1>2, <1>4, <2>2, <3>1 DEF Lesser
    <3>2. CASE hi = size
      BY <1>1, <1>2, <1>4, <2>2, <3>2 DEF Lesser
    <3> QED
      BY <2>3, <3>1, <3>2
  <2> QED
    BY <1>4, <2>1, <2>4 DEF s
<1> QED
  BY <1>5, <1>6
-----------------------------------------------------------------------------
(***************************************************************************)
(* A sweep along the backlog.                                              *)
(***************************************************************************)
\* A stream at the beginning of a sweep.
SweepInput(s, H, sent, size) ==
    /\ SweepKeeps(s, s) /\ ~s.stop /\ ~s.st.completed /\ Distinct(s.st.chain)
    /\ size \in Nat /\ \A b \in BDs : s.bd[b].msglen = size
    /\ Backlog(H, s.st, s.bd, sent, size)

\* The first m descriptors of the chain are done, and the others as they were.
Along(s, H, a, m) ==
    /\ a.st.fed = Positions(1, H[m])
    /\ \A i \in 1..m : ~a.bd[s.st.chain[i]].en
    /\ \A i \in (m + 1)..Len(s.st.chain) : a.bd[s.st.chain[i]] = s.bd[s.st.chain[i]]

Result(s, size) == [at |-> "upd", bytes |-> Positions(1, size), swapped |-> ~s.st.swap]

\* The last descriptor is done.
Finished(s, size, a) ==
    \E b \in BDs : s.bd[b].last /\ ~a.bd[b].en /\ a.out[b] = Result(s, size)

SweepDigest(s, H, size, a, n) ==
    /\ SweepKeeps(s, a)
    /\ ~a.st.completed => \E m \in 0..Len(s.st.chain) : Along(s, H, a, m) /\ (~a.stop => m = n)
    /\ a.st.completed => Finished(s, size, a)

\* A chain with a backlog.
LEMMA BacklogIs ==
    ASSUME NEW s, NEW H, NEW sent, NEW size, SweepInput(s, H, sent, size)
    PROVE  /\ s.st.chain \in Seq(BDs) /\ Len(s.st.chain) \in Nat /\ size \in Nat
           /\ DOMAIN s.st.chain = 1..Len(s.st.chain)
           /\ \A i \in 1..Len(s.st.chain) : s.st.chain[i] \in BDs
           /\ \A i \in 0..Len(s.st.chain) : H[i] \in 0..size
           /\ s.bd \in [BDs -> Descriptors] /\ s.st \in StreamStates
           /\ \A i, j \in 1..Len(s.st.chain) : i # j => s.st.chain[i] # s.st.chain[j]
<1>1. /\ s.st.chain \in Seq(BDs) /\ s.bd \in [BDs -> Descriptors] /\ size \in Nat /\ s.st \in StreamStates
  BY DEF SweepInput, SweepKeeps, SweepState, StreamStates
<1>2. /\ Len(s.st.chain) \in Nat /\ DOMAIN s.st.chain = 1..Len(s.st.chain)
      /\ \A i \in 1..Len(s.st.chain) : s.st.chain[i] \in BDs
  BY <1>1, LenProperties, ElementOfSeq
<1>3. \A i \in 0..Len(s.st.chain) : H[i] \in 0..size
  BY DEF SweepInput, Backlog
<1> QED
  BY <1>1, <1>2, <1>3 DEF SweepInput, Distinct

\* One descriptor of the backlog.
LEMMA BacklogAt ==
    ASSUME NEW s, NEW H, NEW sent, NEW size, SweepInput(s, H, sent, size), NEW i \in 1..Len(s.st.chain)
    PROVE  /\ s.bd[s.st.chain[i]].en => HoldsBytes(s.bd[s.st.chain[i]], H[i - 1], H[i], size)
           /\ ~s.bd[s.st.chain[i]].en => H[i] = H[i - 1]
<1>1. IF s.bd[s.st.chain[i]].en THEN HoldsBytes(s.bd[s.st.chain[i]], H[i - 1], H[i], size)
      ELSE H[i] = H[i - 1]
  BY DEF SweepInput, Backlog
<1> QED
  BY <1>1, Zenon

\* A descriptor that is processed adds its bytes to the digest, in order.
LEMMA DigestProcessed ==
    ASSUME NEW s, NEW H, NEW sent, NEW size, SweepInput(s, H, sent, size),
           NEW a, NEW n \in 1..Len(s.st.chain), SweepDigest(s, H, size, a, n - 1), ~a.stop, ~a.st.completed,
           a.bd[s.st.chain[n]].en, NEW c, Handled(a, s.st.chain[n], c), SweepKeeps(s, c)
    PROVE  SweepDigest(s, H, size, c, n)
<1> DEFINE L == Len(s.st.chain)
           b == s.st.chain[n]
           d == a.bd[b]
           bytes == a.st.fed \o take(d, Len(a.st.fed))
           final == d.last /\ d.lifm
<1>1. /\ L \in Nat /\ size \in Nat /\ s.bd \in [BDs -> Descriptors]
      /\ \A i \in 1..L : s.st.chain[i] \in BDs
      /\ \A i \in 0..L : H[i] \in 0..size
      /\ \A i, j \in 1..L : i # j => s.st.chain[i] # s.st.chain[j]
  BY BacklogIs
<1>2. Along(s, H, a, n - 1)
  BY DEF SweepDigest
<1>3. n \in n..L /\ n - 1 \in 0..L /\ n \in 0..L /\ (n - 1) + 1 = n
  BY <1>1
<1>4. a.st.fed = Positions(1, H[n - 1]) /\ d = s.bd[b]
  BY <1>2, <1>3 DEF Along
<1>5. HoldsBytes(d, H[n - 1], H[n], size)
  BY <1>4, BacklogAt
<1>6. H[n - 1] \in 0..size /\ H[n] \in 0..size
  BY <1>1, <1>3
<1>7. Len(a.st.fed) = H[n - 1]
  BY <1>4, <1>6, FirstPositions
<1>8. bytes = Positions(1, H[n])
  <2>1. d.msglen = size
    BY <1>1, <1>4 DEF SweepInput
  <2>2. take(d, H[n - 1]) = Positions(H[n - 1] + 1, H[n])
    BY <1>1, <1>5, <1>6, <2>1, TakeIs
  <2>3. H[n - 1] <= H[n]
    BY <1>5 DEF HoldsBytes
  <2>4. Positions(1, H[n - 1]) \o Positions(H[n - 1] + 1, H[n]) = Positions(1, H[n])
    <3>1. H[n - 1] \in Nat /\ H[n] \in Nat
      BY <1>1, <1>6
    <3>2. \A lo, hi \in Nat : lo <= hi => Positions(1, lo) \o Positions(lo + 1, hi) = Positions(1, hi)
      BY PositionsJoin
    <3> QED
      BY <2>3, <3>1, <3>2, Zenon
  <2> QED
    BY <1>4, <1>7, <2>2, <2>4
<1>9. /\ c.st = [a.st EXCEPT !.ctx = ~final, !.fed = bytes, !.completed = final]
      /\ c.bd = [a.bd EXCEPT ![b].en = FALSE]
      /\ c.out = IF final THEN [a.out EXCEPT ![b] = [at |-> "upd", bytes |-> bytes,
                                                       swapped |-> ~a.st.swap]]
                   ELSE a.out
      /\ c.stop = final
  BY Zenon DEF Handled
<1>10. /\ a.st \in StreamStates /\ a.bd \in [BDs -> Descriptors] /\ DOMAIN a.out = BDs
       /\ a.st.swap = s.st.swap
  BY DEF SweepDigest, SweepKeeps, SweepState
<1> HIDE DEF bytes, final, L
<1>11. c.st.fed = bytes /\ c.st.completed = final
  BY <1>9, <1>10 DEF StreamStates
<1>12. b \in BDs
  BY <1>1 DEF L
<1>13. ~c.bd[b].en /\ \A e \in BDs : e # b => c.bd[e] = a.bd[e]
  BY <1>9, <1>10, <1>12 DEF Descriptors
<1>14. CASE final
  <2>1. H[n] = size
    BY <1>5, <1>14 DEF HoldsBytes, final
  <2>2. c.out[b] = [at |-> "upd", bytes |-> bytes, swapped |-> ~a.st.swap]
    BY <1>9, <1>10, <1>12, <1>14
  <2>3. c.out[b] = Result(s, size)
    BY <1>8, <1>10, <2>1, <2>2, Zenon DEF Result
  <2>4. s.bd[b].last
    BY <1>4, <1>14 DEF final
  <2>5. Finished(s, size, c)
    BY <1>12, <1>13, <2>3, <2>4 DEF Finished
  <2> QED
    BY <1>11, <1>14, <2>5 DEF SweepDigest
<1>15. CASE ~final
  <2>1. ASSUME NEW i \in 1..n PROVE ~c.bd[s.st.chain[i]].en
    <3>1. CASE i = n
      BY <1>13, <3>1
    <3>2. CASE i # n
      <4>1. i \in 1..(n - 1) /\ i \in 1..L /\ n \in 1..L
        BY <1>1, <3>2 DEF L
      <4>2. s.st.chain[i] # b /\ s.st.chain[i] \in BDs
        BY <1>1, <3>2, <4>1
      <4>3. ~a.bd[s.st.chain[i]].en
        BY <1>2, <4>1 DEF Along
      <4> QED
        BY <1>13, <4>2, <4>3
    <3> QED
      BY <3>1, <3>2
  <2>2. ASSUME NEW i \in (n + 1)..L PROVE c.bd[s.st.chain[i]] = s.bd[s.st.chain[i]]
    <3>1. i # n /\ i \in 1..L /\ n \in 1..L /\ i \in ((n - 1) + 1)..L
      BY <1>1 DEF L
    <3>2. s.st.chain[i] # b /\ s.st.chain[i] \in BDs
      BY <1>1, <3>1
    <3>3. a.bd[s.st.chain[i]] = s.bd[s.st.chain[i]]
      BY <1>2, <3>1 DEF Along, L
    <3> QED
      BY <1>13, <3>2, <3>3
  <2>3. Along(s, H, c, n)
    BY <1>8, <1>11, <2>1, <2>2 DEF Along, L
  <2> QED
    BY <1>3, <1>11, <1>15, <2>3 DEF SweepDigest, L
<1> QED
  BY <1>14, <1>15

\* One step of a sweep goes one descriptor along the backlog, or stops.
LEMMA DigestStep ==
    ASSUME NEW s, NEW H, NEW sent, NEW size, SweepInput(s, H, sent, size),
           NEW a, NEW n \in 1..Len(s.st.chain), SweepDigest(s, H, size, a, n - 1)
    PROVE  SweepDigest(s, H, size, SweepStep(a, s.st.chain[n]), n)
<1> DEFINE L == Len(s.st.chain)
           b == s.st.chain[n]
           c == SweepStep(a, b)
<1>1. /\ L \in Nat /\ size \in Nat /\ s.bd \in [BDs -> Descriptors] /\ b \in BDs
      /\ \A i \in 0..L : H[i] \in 0..size
  BY BacklogIs
<1>2. SweepKeeps(s, a)
  BY DEF SweepDigest
<1>3. SweepKeeps(s, c)
  BY <1>1, <1>2, SweepStepKeeps
<1>4. CASE a.stop /\ c = a
  BY <1>2, <1>4 DEF SweepDigest
<1>5. CASE ~a.stop /\ ~a.bd[b].en /\ c = a
  <2>1. ~a.st.completed
    BY <1>2, <1>5 DEF SweepKeeps
  <2>2. Along(s, H, a, n - 1)
    BY <1>5, <2>1 DEF SweepDigest
  <2>3. n \in ((n - 1) + 1)..L /\ n \in 0..L
    BY <1>1
  <2>4. a.bd[b] = s.bd[b]
    BY <2>2, <2>3 DEF Along
  <2>5. H[n] = H[n - 1]
    BY <1>5, <2>4, BacklogAt
  <2>6. Along(s, H, a, n)
    <3>1. a.st.fed = Positions(1, H[n])
      BY <2>2, <2>5 DEF Along
    <3>2. \A i \in 1..n : i = n \/ i \in 1..(n - 1)
      BY <1>1
    <3>3. \A i \in 1..n : ~a.bd[s.st.chain[i]].en
      BY <1>5, <2>2, <3>2 DEF Along
    <3>4. \A i \in (n + 1)..L : i \in ((n - 1) + 1)..L
      BY <1>1
    <3>5. \A i \in (n + 1)..L : a.bd[s.st.chain[i]] = s.bd[s.st.chain[i]]
      BY <2>2, <3>4 DEF Along
    <3> QED
      BY <3>1, <3>3, <3>5 DEF Along
  <2> QED
    BY <1>2, <1>5, <2>1, <2>3, <2>6 DEF SweepDigest
<1>6. CASE ~a.stop /\ c = [a EXCEPT !.stop = TRUE]
  <2>1. ~a.st.completed
    BY <1>2, <1>6 DEF SweepKeeps
  <2>2. Along(s, H, a, n - 1) /\ n - 1 \in 0..L
    BY <1>1, <1>6, <2>1 DEF SweepDigest
  <2>3. c.st = a.st /\ c.bd = a.bd /\ c.stop
    <3>1. a = [st |-> a.st, bd |-> a.bd, out |-> a.out, stop |-> a.stop]
      BY <1>2 DEF SweepKeeps, SweepState
    <3>2. PICK x, y, z, w : a = [st |-> x, bd |-> y, out |-> z, stop |-> w]
      BY <3>1
    <3>3. \A v : [a EXCEPT !.stop = v] = [st |-> a.st, bd |-> a.bd, out |-> a.out, stop |-> v]
      BY <3>2, Stopped
    <3>4. c = [st |-> a.st, bd |-> a.bd, out |-> a.out, stop |-> TRUE]
      BY <1>6, <3>3, Zenon
    <3> QED
      BY <3>4
  <2> HIDE DEF c
  <2>4. Along(s, H, c, n - 1)
    BY <2>2, <2>3 DEF Along
  <2> QED
    BY <1>3, <2>1, <2>2, <2>3, <2>4 DEF SweepDigest, c
<1>7. CASE ~a.stop /\ a.bd[b].en /\ Handled(a, b, c)
  <2>1. ~a.st.completed
    BY <1>2, <1>7 DEF SweepKeeps
  <2> QED
    BY <1>3, <1>7, <2>1, DigestProcessed
<1> QED
  BY <1>4, <1>5, <1>6, <1>7, SweepStepIs

\* A sweep goes along the backlog as far as it gets.
LEMMA SweepAlong ==
    ASSUME NEW s, NEW H, NEW sent, NEW size, SweepInput(s, H, sent, size)
    PROVE  SweepDigest(s, H, size, sweep(s), Len(s.st.chain))
<1> DEFINE chain == s.st.chain
           L == Len(chain)
<1>1. /\ L \in Nat /\ size \in Nat /\ s.bd \in [BDs -> Descriptors]
      /\ \A i \in 0..L : H[i] \in 0..size
  BY BacklogIs
<1>2. PICK g : SweepFrom(g, s)
  BY <1>1, SweepIs
<1>3. g[0] = s /\ sweep(s) = g[L] /\ \A i \in 1..L : g[i] = SweepStep(g[i - 1], chain[i])
  BY <1>2 DEF SweepFrom
<1> DEFINE S == {i \in Nat : i <= L => SweepDigest(s, H, size, g[i], i)}
<1>4. 0 \in S
  <2>1. Along(s, H, s, 0)
    <3>1. s.st.fed = Positions(1, H[0])
      BY DEF SweepInput, Backlog
    <3>2. 1..0 = {}
      OBVIOUS
    <3> QED
      BY <3>1, <3>2 DEF Along
  <2>2. 0 \in 0..L
    BY <1>1
  <2>3. SweepDigest(s, H, size, s, 0)
    BY <2>1, <2>2 DEF SweepDigest, SweepInput
  <2> QED
    BY <1>3, <2>3
<1>5. ASSUME NEW i \in Nat, i \in S PROVE i + 1 \in S
  <2> SUFFICES ASSUME i + 1 <= L PROVE SweepDigest(s, H, size, g[i + 1], i + 1)
    OBVIOUS
  <2>1. i + 1 \in 1..L /\ (i + 1) - 1 = i /\ i <= L
    BY <1>1
  <2>2. g[i + 1] = SweepStep(g[i], chain[i + 1]) /\ SweepDigest(s, H, size, g[i], (i + 1) - 1)
    BY <1>3, <1>5, <2>1
  <2>3. \A n \in 1..L : SweepDigest(s, H, size, g[i], n - 1)
            => SweepDigest(s, H, size, SweepStep(g[i], chain[n]), n)
    BY DigestStep
  <2> QED
    BY <2>1, <2>2, <2>3
<1> HIDE DEF S
<1>6. Nat \subseteq S
  BY <1>4, <1>5, Induction
<1> QED
  BY <1>1, <1>3, <1>6 DEF S

\* What is left of the backlog after a sweep that did not reach the end of the message.
LEMMA BacklogLeft ==
    ASSUME NEW s, NEW H, NEW sent, NEW size, SweepInput(s, H, sent, size), NEW a, SweepKeeps(s, a),
           NEW m \in 0..Len(s.st.chain), Along(s, H, a, m)
    PROVE  \E K \in [0..Len(a.st.chain) -> 0..size] : Backlog(K, a.st, a.bd, sent, size)
<1> DEFINE chain == s.st.chain
           L == Len(chain)
           K == [i \in 0..L |-> IF i <= m THEN H[m] ELSE H[i]]
<1>1. /\ L \in Nat /\ size \in Nat /\ \A i \in 0..L : H[i] \in 0..size
  BY BacklogIs
<1>2. a.st.chain = chain
  BY DEF SweepKeeps
<1>3. K \in [0..L -> 0..size] /\ \A i \in 0..L : K[i] = IF i <= m THEN H[m] ELSE H[i]
  BY <1>1
<1> HIDE DEF K
<1>4. K[0] = H[m] /\ K[L] = sent
  <2>1. H[L] = sent /\ 0 \in 0..L /\ L \in 0..L /\ 0 <= m
    BY <1>1 DEF SweepInput, Backlog
  <2>2. L <= m => L = m
    BY <1>1
  <2> QED
    BY <1>3, <2>1, <2>2
<1>5. ASSUME NEW i \in 1..L
      PROVE  IF a.bd[chain[i]].en THEN HoldsBytes(a.bd[chain[i]], K[i - 1], K[i], size) ELSE K[i] = K[i - 1]
  <2>1. i \in 0..L /\ i - 1 \in 0..L
    BY <1>1
  <2>2. CASE i <= m
    <3>1. ~a.bd[chain[i]].en
      BY <2>2 DEF Along
    <3>2. K[i] = K[i - 1]
      <4>1. i - 1 <= m
        BY <1>1, <2>2
      <4> QED
        BY <1>3, <2>1, <2>2, <4>1
    <3> QED
      BY <3>1, <3>2
  <2>3. CASE ~(i <= m)
    <3>1. i \in (m + 1)..L
      BY <1>1, <2>3
    <3>2. a.bd[chain[i]] = s.bd[chain[i]]
      BY <3>1 DEF Along
    <3>3. K[i] = H[i]
      BY <1>3, <2>1, <2>3
    <3>4. K[i - 1] = H[i - 1]
      <4>1. i - 1 <= m => i - 1 = m
        BY <1>1, <2>3
      <4> QED
        BY <1>3, <2>1, <4>1
    <3>5. /\ s.bd[chain[i]].en => HoldsBytes(s.bd[chain[i]], H[i - 1], H[i], size)
          /\ ~s.bd[chain[i]].en => H[i] = H[i - 1]
      BY BacklogAt
    <3> HIDE DEF chain
    <3> QED
      BY <3>2, <3>3, <3>4, <3>5
  <2> QED
    BY <2>2, <2>3
<1>6. a.st.fed = Positions(1, K[0])
  BY <1>4 DEF Along
<1> HIDE DEF chain
<1>7. Backlog(K, a.st, a.bd, sent, size)
  BY <1>2, <1>3, <1>4, <1>5, <1>6 DEF Backlog
<1> QED
  BY <1>2, <1>3, <1>7

\* A stream that misses the first descriptor refuses every other.
Refuses(s, a) == a.st = s.st /\ a.bd = s.bd /\ a.out = s.out

\* So its sweeps change nothing.
LEMMA SweepRefuses ==
    ASSUME NEW s, SweepKeeps(s, s), ~s.st.ctx, 1 \notin ToSet(s.st.chain),
           \A b \in BDs : s.bd[b].saf => b = 1
    PROVE  Refuses(s, sweep(s))
<1> DEFINE chain == s.st.chain
           L == Len(chain)
<1>1. chain \in Seq(BDs) /\ s = [st |-> s.st, bd |-> s.bd, out |-> s.out, stop |-> s.stop]
  BY DEF SweepKeeps, SweepState, StreamStates
<1>2. L \in Nat /\ DOMAIN chain = 1..L /\ \A i \in 1..L : chain[i] \in BDs
  BY <1>1, LenProperties, ElementOfSeq
<1>3. \A i \in 1..L : ~s.bd[chain[i]].saf
  BY <1>2 DEF ToSet
<1>4. PICK g : SweepFrom(g, s)
  BY <1>2, SweepIs
<1>5. g[0] = s /\ sweep(s) = g[L] /\ \A i \in 1..L : g[i] = SweepStep(g[i - 1], chain[i])
  BY <1>4 DEF SweepFrom
<1> DEFINE Ok(a) == Refuses(s, a) /\ SweepState(a)
           S == {i \in Nat : i <= L => Ok(g[i])}
<1>6. 0 \in S
  BY <1>5 DEF Refuses, SweepKeeps
<1>7. ASSUME NEW a, Ok(a), NEW b, ~s.bd[b].saf
      PROVE  Ok(SweepStep(a, b))
  <2>1. a.st = s.st /\ a.bd = s.bd /\ a.out = s.out
    BY <1>7 DEF Refuses
  <2>2. ~a.st.ctx /\ ~a.bd[b].saf
    BY <1>7, <2>1
  <2>3. SweepStep(a, b) = a \/ SweepStep(a, b) = [a EXCEPT !.stop = TRUE]
    BY <2>2, SweepStepIs
  <2>4. CASE SweepStep(a, b) = a
    BY <1>7, <2>4
  <2>5. CASE SweepStep(a, b) = [a EXCEPT !.stop = TRUE]
    <3>1. a = [st |-> a.st, bd |-> a.bd, out |-> a.out, stop |-> a.stop]
      BY <1>7 DEF SweepState
    <3>2. PICK x, y, z, w : a = [st |-> x, bd |-> y, out |-> z, stop |-> w]
      BY <3>1
    <3>3. \A v : [a EXCEPT !.stop = v] = [st |-> a.st, bd |-> a.bd, out |-> a.out, stop |-> v]
      BY <3>2, Stopped
    <3> DEFINE c == SweepStep(a, b)
    <3>4. c = [st |-> a.st, bd |-> a.bd, out |-> a.out, stop |-> TRUE]
      BY <2>5, <3>3, Zenon
    <3> HIDE DEF c
    <3>5. /\ c.st = a.st /\ c.bd = a.bd /\ c.out = a.out /\ c.stop \in BOOLEAN
          /\ c = [st |-> c.st, bd |-> c.bd, out |-> c.out, stop |-> c.stop]
      BY <3>4
    <3>6. Ok(c)
      BY <1>7, <3>5 DEF Refuses, SweepState
    <3> QED
      BY <3>6 DEF c
  <2> QED
    BY <2>3, <2>4, <2>5
<1>8. ASSUME NEW i \in Nat, i \in S PROVE i + 1 \in S
  <2> SUFFICES ASSUME i + 1 <= L PROVE Ok(g[i + 1])
    OBVIOUS
  <2>1. i + 1 \in 1..L /\ (i + 1) - 1 = i /\ i <= L
    BY <1>2
  <2>2. g[i + 1] = SweepStep(g[i], chain[i + 1]) /\ ~s.bd[chain[i + 1]].saf
    BY <1>3, <1>5, <2>1
  <2>3. Ok(g[i])
    BY <1>8, <2>1
  <2> HIDE DEF Ok
  <2> QED
    BY <1>7, <2>2, <2>3
<1> HIDE DEF S
<1>9. Nat \subseteq S
  BY <1>6, <1>8, Induction
<1> QED
  BY <1>2, <1>5, <1>9 DEF S
-----------------------------------------------------------------------------
(***************************************************************************)
(* The invariant of the digest is kept.                                    *)
(***************************************************************************)
LEMMA DigestUnchanged ==
    ASSUME DigestInv, UNCHANGED cevars
    PROVE  DigestInv'
<1>1. UNCHANGED <<silicon, cecon, errop, pktif, cebdpaddr, ticks, polling, bd, out, fw>>
  BY DEF cevars, engine
<1> QED
  BY <1>1 DEF DigestInv, LaidOut, InChain, OutOfChain, Closed, Digest

\* The tick of a stream whose chain has the first descriptor.
LEMMA SweptInChain ==
    ASSUME EngineInv, EngineInv', Sweeps, fw.mode = "stream", UNCHANGED <<silicon, polling, fw>>,
           LaidOut(ticks[polling]), InChain(ticks[polling])
    PROVE  InChain(ticks[polling])'
<1> DEFINE st == ticks[polling]
           s == SweepFirst
           a == Swept
           size == fw.size
           L == Len(s.st.chain)
<1>1. EngineOk /\ EngineOk'
  BY DEF EngineInv
<1>2. SweepKeeps(s, a) /\ ticks'[polling] = a.st /\ bd' = a.bd /\ out' = a.out
  <2>1. polling \in 1..Len(ticks)
    BY <1>1 DEF EngineOk, Sweeps
  <2> QED
    BY <1>1, <2>1, SweepsKeeps DEF Sweeps
<1>3. s.st = st /\ s.bd = bd /\ s.out = out /\ ~s.stop /\ ~s.st.completed
  BY DEF SweepFirst, Sweeps
<1>4. fw \in StreamJobs /\ size \in Nat
  BY <1>1, ModeIs DEF StreamJobs
<1>5. PICK H \in [0..Len(st.chain) -> 0..size] : Backlog(H, st, bd, fw.sent, size)
  BY <1>3 DEF InChain
<1>6. SweepInput(s, H, fw.sent, size)
  <2>1. SweepKeeps(s, s)
    BY <1>1, FirstKeeps DEF Sweeps
  <2>2. Distinct(s.st.chain) /\ \A b \in BDs : s.bd[b].msglen = size
    BY <1>3 DEF LaidOut
  <2>3. Backlog(H, s.st, s.bd, fw.sent, size)
    BY <1>3, <1>5
  <2> HIDE DEF s, size
  <2> QED
    BY <1>3, <1>4, <2>1, <2>2, <2>3 DEF SweepInput
<1>7. SweepDigest(s, H, size, a, L)
  BY <1>6, SweepAlong DEF Swept
<1>8. a.st.chain = st.chain
  BY <1>2, <1>3 DEF SweepKeeps
<1> HIDE DEF a
<1>9. 1 \in ToSet(a.st.chain) /\ (fw.final = 0 /\ Mapped(fw.cur) => fw.cur \in ToSet(a.st.chain))
  BY <1>8 DEF InChain
<1>10. ASSUME a.st.completed
       PROVE  fw.final # 0 /\ ~bd'[fw.final].en /\ out'[fw.final] = Digest
  <2>1. PICK b \in BDs : s.bd[b].last /\ ~a.bd[b].en /\ a.out[b] = Result(s, size)
    BY <1>7, <1>10 DEF SweepDigest, Finished
  <2>2. b = fw.final
    BY <1>3, <2>1 DEF LaidOut
  <2>3. b # 0
    BY DEF BDs
  <2>4. Result(s, size) = Digest
    <3>1. silicon \in {"EF", "EC"} /\ s.st.swap = (silicon = "EF")
      BY <1>1, <1>3 DEF EngineOk, LaidOut
    <3>2. (~s.st.swap) = (silicon = "EC")
      BY <3>1
    <3> QED
      BY <3>2, Zenon DEF Result, Digest
  <2> QED
    BY <1>2, <2>1, <2>2, <2>3, <2>4
<1>11. ASSUME ~a.st.completed
       PROVE  /\ fw.final # 0 => bd'[fw.final].en
              /\ \E K \in [0..Len(a.st.chain) -> 0..size] : Backlog(K, a.st, a.bd, fw.sent, size)
  <2>1. \E K \in [0..Len(a.st.chain) -> 0..size] : Backlog(K, a.st, a.bd, fw.sent, size)
    <3>1. PICK m \in 0..L : Along(s, H, a, m)
      BY <1>7, <1>11 DEF SweepDigest
    <3> QED
      BY <1>2, <1>6, <3>1, BacklogLeft
  <2>2. fw.final # 0 => bd'[fw.final].en
    BY <1>2, <1>11 DEF EngineInv, StreamOk
  <2> QED
    BY <2>1, <2>2
<1>12. Digest' = Digest
  BY DEF Digest
<1>13. fw' = fw /\ polling' = polling
  OBVIOUS
<1> HIDE DEF st, s, size
<1> QED
  BY <1>2, <1>9, <1>10, <1>11, <1>12, <1>13 DEF InChain, size

\* A tick keeps the invariant of the digest.
LEMMA DigestTick ==
    ASSUME EngineInv, EngineInv', DigestInv, Tick
    PROVE  DigestInv'
<1>0. EngineOk
  BY DEF EngineInv
<1>1. UNCHANGED <<silicon, cecon, errop, pktif, cebdpaddr, polling, fw>>
  BY <1>0, TickSweeps
<1>2. CASE UNCHANGED <<ticks, bd, out>>
  BY <1>1, <1>2, DigestUnchanged DEF cevars, engine
<1>3. CASE Sweeps /\ fw.mode = "stream" /\ fw.started
  <2> DEFINE st == ticks[polling]
             a == Swept
  <2>1. /\ SweepKeeps(SweepFirst, a) /\ ticks'[polling] = a.st /\ bd' = a.bd /\ out' = a.out
        /\ \A b \in BDs : Done(bd'[b], bd[b])
    <3>1. polling \in 1..Len(ticks)
      BY <1>0, <1>3 DEF EngineOk, Sweeps
    <3> QED
      BY <1>0, <1>3, <3>1, SweepsKeeps DEF Sweeps
  <2>2. SweepFirst.st = st /\ SweepFirst.bd = bd /\ SweepFirst.out = out
    BY DEF SweepFirst
  <2>3. a.st.chain = st.chain /\ a.st.swap = st.swap
    BY <2>1, <2>2 DEF SweepKeeps
  <2>4. LaidOut(st) /\ polling # 0
    BY <1>3 DEF DigestInv, Sweeps
  <2> HIDE DEF a
  <2>5. \A b \in BDs : /\ bd'[b].saf = bd[b].saf /\ bd'[b].msglen = bd[b].msglen /\ bd'[b].nxt = bd[b].nxt
                       /\ bd'[b].last = bd[b].last /\ bd'[b].lifm = bd[b].lifm
    BY <1>0, <2>1, DoneIs DEF EngineOk
  <2>6. \A i \in DOMAIN st.chain : st.chain[i] \in BDs
    <3>1. st.chain \in Seq(BDs)
      BY <1>0, <2>4 DEF EngineOk, StreamStates
    <3> QED
      BY <3>1, LenProperties, ElementOfSeq
  <2>7. LaidOut(ticks[polling])'
    <3>1. Closed(ticks[polling].chain)'
      BY <1>1, <2>1, <2>3, <2>4, <2>5, <2>6 DEF LaidOut, Closed
    <3>2. /\ ticks'[polling].swap = (silicon' = "EF") /\ Distinct(ticks'[polling].chain)
          /\ fw'.sent <= fw'.size
      BY <1>1, <2>1, <2>3, <2>4 DEF LaidOut
    <3>3. /\ \A b \in BDs : bd'[b].saf => b = 1
          /\ \A b \in BDs : bd'[b].msglen = fw'.size /\ (bd'[b].last \/ bd'[b].lifm => b = fw'.final)
      BY <1>1, <2>4, <2>5 DEF LaidOut
    <3> QED
      BY <1>1, <3>1, <3>2, <3>3 DEF LaidOut, Distinct
  <2>8. CASE fw.inverted
    BY <1>1, <2>7, <2>8 DEF DigestInv
  <2>9. CASE InChain(st)
    BY <1>1, <1>3, <2>4, <2>7, <2>9, SweptInChain DEF DigestInv
  <2>10. CASE OutOfChain(st)
    <3>1. SweepKeeps(SweepFirst, SweepFirst)
      BY <1>0, <1>3, FirstKeeps DEF Sweeps
    <3>2. Refuses(SweepFirst, a)
      BY <2>2, <2>4, <2>10, <3>1, SweepRefuses DEF a, Swept, OutOfChain, LaidOut
    <3>3. a.st = st /\ a.bd = bd
      BY <2>2, <3>2 DEF Refuses
    <3>4. OutOfChain(ticks[polling])'
      BY <1>1, <2>1, <2>10, <3>3 DEF OutOfChain
    <3> QED
      BY <1>1, <2>7, <3>4 DEF DigestInv
  <2> QED
    BY <1>3, <2>4, <2>8, <2>9, <2>10 DEF DigestInv
<1>4. CASE ~(fw.mode = "stream" /\ fw.started)
  BY <1>1, <1>4 DEF DigestInv
<1> QED
  BY <1>0, <1>2, <1>3, <1>4, TickSweeps

\* A stream that was armed just now.
LEMMA DigestStartStream ==
    ASSUME EngineInv, EngineInv', StartStream, FreshStream
    PROVE  DigestInv'
<1>0. EngineOk
  BY DEF EngineInv
<1>1. PICK flags : FlagsOk(flags) /\ arm(flags)
  BY <1>0, StreamWrite
<1> DEFINE sw == out_swap(flags)
<1>2. sw \in BOOLEAN /\ sw = (silicon = "EF")
  BY <1>1 DEF FlagsOk
<1>3. ArmResult(sw) /\ UNCHANGED <<silicon, cebdpaddr, bd, out>>
  BY <1>0, <1>1, <1>2, ArmIs
<1>4. fw.mode = "stream" /\ ~fw.started /\ fw' = [fw EXCEPT !.started = TRUE] /\ fw \in StreamJobs
  BY <1>0, ModeIs DEF StartStream
<1>5. /\ fw'.mode = "stream" /\ fw'.size = fw.size /\ fw'.sent = fw.sent /\ fw'.final = fw.final
      /\ fw'.cur = fw.cur /\ fw.size \in Nat
  BY <1>4 DEF StreamJobs
<1>6. fw.final = 0 /\ fw.sent = 0 /\ fw.cur = 1 /\ \A b \in BDs : ~bd[b].en
  BY <1>4 DEF EngineInv, StreamOk
<1> HIDE DEF sw
<1>7. CASE polling' = 0
  BY <1>7 DEF DigestInv
<1>8. CASE polling' # 0
  <2> DEFINE c == collect_chain
             chain == c.addrs
             st == Armed(sw)
             L == Len(chain)
  <2>1. c.state # "failed" /\ ticks'[polling'] = st
    BY <1>3, <1>8 DEF ArmResult
  <2>2. chain \in Seq(BDs) /\ Distinct(chain) /\ Closed(chain)
    BY <1>0, <2>1, ChainIs
  <2> HIDE DEF c
  <2>3. st.chain = chain /\ st.swap = sw /\ st.fed = <<>> /\ st.completed = FALSE /\ st.ctx = FALSE
    BY DEF Armed, c
  <2> HIDE DEF st, chain
  <2>4. LaidOut(ticks[polling])'
    <3>1. /\ \A b \in BDs : bd[b].saf => b = 1
          /\ \A b \in BDs : bd[b].msglen = fw.size /\ ~(bd[b].last \/ bd[b].lifm)
      BY <1>4 DEF FreshStream
    <3>2. Closed(ticks[polling].chain)'
      BY <1>3, <2>1, <2>2, <2>3 DEF Closed
    <3>3. Distinct(ticks'[polling'].chain) /\ ticks'[polling'].swap = (silicon' = "EF")
      BY <1>2, <1>3, <2>1, <2>2, <2>3
    <3>4. fw'.sent <= fw'.size
      BY <1>5, <1>6
    <3> QED
      BY <1>3, <1>5, <3>1, <3>2, <3>3, <3>4 DEF LaidOut, Distinct
  <2>5. CASE 1 \in ToSet(chain)
    <3> DEFINE H == [i \in 0..L |-> 0]
    <3>1. L \in Nat /\ \A i \in 1..L : chain[i] \in BDs
      BY <2>2, LenProperties, ElementOfSeq
    <3>2. H \in [0..L -> 0..fw.size] /\ \A i \in 0..L : H[i] = 0
      BY <1>5
    <3>3. 0 \in 0..L /\ L \in 0..L /\ \A i \in 1..L : i \in 0..L /\ i - 1 \in 0..L
      BY <3>1
    <3>4. Positions(1, 0) = <<>>
      <4>1. Positions(1, 0) \in Seq(Int) /\ Len(Positions(1, 0)) = 0
        BY PositionsSeq, FirstPositions
      <4> QED
        BY <4>1, EmptySeq
    <3> HIDE DEF H
    <3>5. Backlog(H, st, bd, 0, fw.size)
      BY <1>6, <2>3, <3>1, <3>2, <3>3, <3>4 DEF Backlog
    <3>6. \E K \in [0..Len(st.chain) -> 0..fw.size] : Backlog(K, st, bd, fw.sent, fw.size)
      BY <1>6, <2>3, <3>2, <3>5
    <3>7. InChain(ticks[polling])'
      BY <1>3, <1>5, <1>6, <2>1, <2>3, <2>5, <3>6 DEF InChain
    <3> QED
      BY <2>4, <3>7 DEF DigestInv
  <2>6. CASE 1 \notin ToSet(chain)
    <3>1. OutOfChain(ticks[polling])'
      BY <1>5, <1>6, <2>1, <2>3, <2>6 DEF OutOfChain
    <3> QED
      BY <2>4, <3>1 DEF DigestInv
  <2> QED
    BY <2>5, <2>6
<1> QED
  BY <1>7, <1>8

\* A descriptor that is filled in order has none behind it that waits.
LEMMA FillOrder ==
    ASSUME EngineOk, NEW k \in 0..BUF, Fill(k), ~fw'.inverted, polling # 0
    PROVE  ~fw.inverted /\ \A c \in Behind(fw.cur) : ~bd[c].en
<1> DEFINE inv == fw.inverted \/ (polling # 0 /\ \E c \in Behind(fw.cur) : bd[c].en)
<1>1. fw \in StreamJobs
  BY FillIs
<1>2. fw' = [fw EXCEPT !.sent = @ + k, !.cur = bd[fw.cur].nxt,
                       !.final = IF fw.sent + k = fw.size THEN fw.cur ELSE 0, !.inverted = inv]
  BY Zenon DEF Fill
<1> HIDE DEF inv
<1>3. fw'.inverted = inv
  BY <1>1, <1>2 DEF StreamJobs
<1>4. ~inv
  BY <1>3
<1> QED
  BY <1>4, Zenon DEF inv

\* Nothing waits from the descriptor at p on.
LEMMA Flat ==
    ASSUME NEW st, NEW H, NEW table, NEW sent, NEW size, Backlog(H, st, table, sent, size),
           Len(st.chain) \in Nat, NEW p \in 1..Len(st.chain),
           \A i \in p..Len(st.chain) : ~table[st.chain[i]].en
    PROVE  H[p - 1] = sent
<1> DEFINE L == Len(st.chain)
           S == {j \in Nat : (p - 1) + j <= L => H[(p - 1) + j] = H[p - 1]}
<1>1. 0 \in S
  OBVIOUS
<1>2. ASSUME NEW j \in Nat, j \in S PROVE j + 1 \in S
  <2> SUFFICES ASSUME (p - 1) + (j + 1) <= L PROVE H[(p - 1) + (j + 1)] = H[p - 1]
    OBVIOUS
  <2> DEFINE i == (p - 1) + (j + 1)
  <2>1. i \in 1..L /\ i \in p..L /\ i - 1 = (p - 1) + j /\ (p - 1) + j <= L
    OBVIOUS
  <2>2. H[i - 1] = H[p - 1]
    BY <1>2, <2>1
  <2> HIDE DEF i
  <2>3. ~table[st.chain[i]].en
    BY <2>1
  <2>4. H[i] = H[i - 1]
    BY <2>1, <2>3 DEF Backlog
  <2> QED
    BY <2>2, <2>4 DEF i
<1> HIDE DEF S
<1>3. Nat \subseteq S
  BY <1>1, <1>2, Induction
<1>4. L - (p - 1) \in Nat /\ (p - 1) + (L - (p - 1)) = L
  OBVIOUS
<1>5. L - (p - 1) \in S
  BY <1>3, <1>4
<1>6. H[L] = H[p - 1]
  BY <1>4, <1>5 DEF S
<1> QED
  BY <1>6 DEF Backlog

\* The backlog with one more descriptor, behind all that wait.
GrowsAt(st, H, table, sent, size, p, k, new) ==
    /\ st.chain \in Seq(BDs) /\ Distinct(st.chain) /\ sent \in Nat /\ size \in Nat
    /\ H \in [0..Len(st.chain) -> 0..size] /\ Backlog(H, st, table, sent, size)
    /\ p \in 1..Len(st.chain) /\ \A i \in p..Len(st.chain) : ~table[st.chain[i]].en
    /\ k \in Nat /\ sent + k <= size /\ (sent + k = size \/ k % BLOCK = 0)
    /\ \A b \in BDs : b # st.chain[p] => new[b] = table[b]
    /\ Filled(table[st.chain[p]], sent, sent + k, sent + k = size, new[st.chain[p]])

\* A descriptor that is filled in order goes to the end of the backlog.
LEMMA BacklogGrows ==
    ASSUME NEW st, NEW H, NEW table, NEW sent, NEW size, NEW p, NEW k, NEW new,
           GrowsAt(st, H, table, sent, size, p, k, new)
    PROVE  \E K \in [0..Len(st.chain) -> 0..size] : Backlog(K, st, new, sent + k, size)
<1> SUFFICES ASSUME st.chain \in Seq(BDs), Distinct(st.chain), sent \in Nat, size \in Nat,
           H \in [0..Len(st.chain) -> 0..size], Backlog(H, st, table, sent, size),
           p \in 1..Len(st.chain), \A i \in p..Len(st.chain) : ~table[st.chain[i]].en,
           k \in Nat, sent + k <= size, sent + k = size \/ k % BLOCK = 0,
           \A b \in BDs : b # st.chain[p] => new[b] = table[b],
           Filled(table[st.chain[p]], sent, sent + k, sent + k = size, new[st.chain[p]])
    PROVE  \E K \in [0..Len(st.chain) -> 0..size] : Backlog(K, st, new, sent + k, size)
  BY DEF GrowsAt
<1> DEFINE chain == st.chain
           L == Len(chain)
           K == [i \in 0..L |-> IF i < p THEN H[i] ELSE sent + k]
<1>1. L \in Nat /\ DOMAIN chain = 1..L /\ \A i \in 1..L : chain[i] \in BDs
  BY LenProperties, ElementOfSeq
<1>2. H[p - 1] = sent
  BY <1>1, Flat
<1>3. K \in [0..L -> 0..size] /\ \A i \in 0..L : K[i] = IF i < p THEN H[i] ELSE sent + k
  BY <1>1
<1> HIDE DEF K
<1>4. K[0] = H[0] /\ K[L] = sent + k
  BY <1>1, <1>3
<1>5. \A i \in 1..L : i # p => chain[i] # chain[p]
  BY <1>1 DEF Distinct
<1>6. \A i \in 1..L : i # p => new[chain[i]] = table[chain[i]]
  BY <1>1, <1>5
<1>7. ASSUME NEW i \in 1..L
      PROVE  IF new[chain[i]].en THEN HoldsBytes(new[chain[i]], K[i - 1], K[i], size) ELSE K[i] = K[i - 1]
  <2>1. i \in 0..L /\ i - 1 \in 0..L
    BY <1>1
  <2>2. CASE i < p
    <3>1. K[i] = H[i] /\ K[i - 1] = H[i - 1] /\ new[chain[i]] = table[chain[i]]
      BY <1>1, <1>3, <1>6, <2>1, <2>2
    <3>2. IF table[chain[i]].en THEN HoldsBytes(table[chain[i]], H[i - 1], H[i], size)
          ELSE H[i] = H[i - 1]
      BY DEF Backlog
    <3> HIDE DEF chain
    <3> QED
      BY <3>1, <3>2
  <2>3. CASE i = p
    <3>1. K[i - 1] = sent /\ K[i] = sent + k
      BY <1>1, <1>2, <1>3, <2>1, <2>3
    <3>2. (sent + k) - sent = k /\ sent <= sent + k
      OBVIOUS
    <3>3. HoldsBytes(new[chain[p]], sent, sent + k, size)
      BY <3>2 DEF HoldsBytes, Filled
    <3> QED
      BY <2>3, <3>1, <3>3 DEF Filled
  <2>4. CASE i > p
    <3>1. K[i] = sent + k /\ K[i - 1] = sent + k
      <4>1. ~(i < p) /\ ~(i - 1 < p)
        BY <1>1, <2>4
      <4> QED
        BY <1>3, <2>1, <4>1
    <3>2. i \in p..L /\ i # p
      BY <1>1, <2>4
    <3>3. ~new[chain[i]].en
      BY <1>6, <3>2
    <3> QED
      BY <3>1, <3>3
  <2> QED
    BY <1>1, <2>2, <2>3, <2>4
<1>8. st.fed = Positions(1, K[0])
  BY <1>4 DEF Backlog
<1>9. Backlog(K, st, new, sent + k, size)
  BY <1>3, <1>4, <1>7, <1>8 DEF Backlog
<1> QED
  BY <1>3, <1>9

\* A descriptor that is filled keeps the invariant of the digest.
LEMMA DigestFill ==
    ASSUME EngineInv, EngineInv', DigestInv, NEW k \in 0..BUF, Fill(k)
    PROVE  DigestInv'
<1>0. EngineOk
  BY DEF EngineInv
<1> DEFINE cur == fw.cur
           st == ticks[polling]
<1>1. /\ fw \in StreamJobs /\ fw.mode = "stream" /\ fw.started /\ fw.final = 0
      /\ cur \in BDs /\ ~bd[cur].en /\ k \in Nat
      /\ k <= fw.size - fw.sent /\ (fw.sent + k = fw.size \/ k % BLOCK = 0)
      /\ bd' \in [BDs -> Descriptors] /\ \A b \in BDs : b # cur => bd'[b] = bd[b]
      /\ Filled(bd[cur], fw.sent, fw.sent + k, fw.sent + k = fw.size, bd'[cur])
      /\ fw'.mode = "stream" /\ fw'.started /\ fw'.size = fw.size /\ fw'.sent = fw.sent + k
      /\ fw'.cur = bd[cur].nxt
      /\ fw'.final = IF fw.sent + k = fw.size THEN cur ELSE 0
      /\ UNCHANGED <<engine, out>>
  BY <1>0, FillIs
<1>2. UNCHANGED <<silicon, ticks, polling, out>>
  BY <1>1 DEF engine
<1>3. CASE polling = 0
  BY <1>2, <1>3 DEF DigestInv
<1>4. CASE polling # 0
  <2>1. LaidOut(st) /\ (~fw.inverted => InChain(st) \/ OutOfChain(st))
    BY <1>1, <1>4 DEF DigestInv
  <2>2. fw.size \in Nat /\ fw.sent \in Nat /\ cur # 0 /\ fw.sent + k <= fw.size
    BY <1>1 DEF StreamJobs, BDs
  <2>3. st.chain \in Seq(BDs)
    BY <1>0, <1>4 DEF EngineOk, StreamStates
  <2>4. /\ DOMAIN st.chain = 1..Len(st.chain) /\ Len(st.chain) \in Nat
        /\ \A i \in DOMAIN st.chain : st.chain[i] \in BDs
    BY <2>3, LenProperties, ElementOfSeq
  <2>5. \A b \in BDs : bd'[b].saf = bd[b].saf /\ bd'[b].msglen = bd[b].msglen /\ bd'[b].nxt = bd[b].nxt
    BY <1>1 DEF Filled
  <2>6. \A b \in BDs : bd'[b].last \/ bd'[b].lifm => b = fw'.final
    <3>1. \A b \in BDs : ~(bd[b].last \/ bd[b].lifm)
      BY <1>1, <2>1 DEF LaidOut, BDs
    <3> QED
      BY <1>1, <3>1 DEF Filled
  <2>7. LaidOut(ticks[polling])'
    <3>1. Closed(ticks[polling].chain)'
      BY <1>2, <2>1, <2>4, <2>5 DEF LaidOut, Closed
    <3>2. /\ ticks'[polling'].swap = (silicon' = "EF") /\ Distinct(ticks'[polling'].chain)
          /\ fw'.sent <= fw'.size
      BY <1>1, <1>2, <2>1, <2>2 DEF LaidOut
    <3>3. /\ \A b \in BDs : bd'[b].saf => b = 1
          /\ \A b \in BDs : bd'[b].msglen = fw'.size
      BY <1>1, <2>1, <2>5 DEF LaidOut
    <3> QED
      BY <2>6, <3>1, <3>2, <3>3 DEF LaidOut, Distinct
  <2>8. fw'.final # 0 => bd'[fw'.final].en
    BY <1>1 DEF Filled
  <2>9. CASE fw'.inverted
    BY <2>7, <2>9 DEF DigestInv
  <2>10. CASE ~fw'.inverted
    <3>1. ~fw.inverted /\ \A c \in Behind(cur) : ~bd[c].en
      BY <1>0, <1>4, <2>10, FillOrder
    <3>2. CASE OutOfChain(st)
      <4>1. OutOfChain(ticks[polling])'
        BY <1>2, <2>8, <3>2 DEF OutOfChain
      <4> QED
        BY <2>7, <4>1 DEF DigestInv
    <3>3. CASE InChain(st)
      <4>1. cur \in ToSet(st.chain) /\ ~st.completed /\ 1 \in ToSet(st.chain)
        BY <1>0, <1>1, <1>4, <3>3 DEF InChain, Mapped, EngineOk, StreamStates
      <4>2. PICK p \in 1..Len(st.chain) : st.chain[p] = cur
        BY <2>4, <4>1 DEF ToSet
      <4>3. PICK H \in [0..Len(st.chain) -> 0..fw.size] : Backlog(H, st, bd, fw.sent, fw.size)
        BY <3>3, <4>1 DEF InChain
      <4>4. \A i \in p..Len(st.chain) : ~bd[st.chain[i]].en
        <5>1. \A i \in p..Len(st.chain) : i = p \/ (i \in DOMAIN st.chain /\ p \in DOMAIN st.chain /\ p < i)
          BY <2>4
        <5>2. \A i \in DOMAIN st.chain : p < i => st.chain[i] \in Behind(cur)
          BY <2>4, <4>2 DEF Behind
        <5> QED
          BY <1>1, <3>1, <4>2, <5>1, <5>2
      <4>5. Distinct(st.chain)
        BY <2>1 DEF LaidOut
      <4> HIDE DEF st, cur
      <4>6. \E K \in [0..Len(st.chain) -> 0..fw.size] : Backlog(K, st, bd', fw.sent + k, fw.size)
        <5>1. /\ \A b \in BDs : b # st.chain[p] => bd'[b] = bd[b]
              /\ Filled(bd[st.chain[p]], fw.sent, fw.sent + k, fw.sent + k = fw.size, bd'[st.chain[p]])
          BY <1>1, <4>2
        <5> DEFINE sent == fw.sent
                   size == fw.size
        <5>2. /\ sent \in Nat /\ size \in Nat /\ k \in Nat /\ sent + k <= size
              /\ sent + k = size \/ k % BLOCK = 0
              /\ H \in [0..Len(st.chain) -> 0..size] /\ Backlog(H, st, bd, sent, size)
              /\ Filled(bd[st.chain[p]], sent, sent + k, sent + k = size, bd'[st.chain[p]])
          BY <1>1, <2>2, <4>3, <5>1
        <5> HIDE DEF sent, size
        <5>3. \E K \in [0..Len(st.chain) -> 0..size] : Backlog(K, st, bd', sent + k, size)
          <6>1. GrowsAt(st, H, bd, sent, size, p, k, bd')
            BY <2>3, <4>2, <4>4, <4>5, <5>1, <5>2 DEF GrowsAt
          <6> QED
            BY <6>1, BacklogGrows
        <5> QED
          BY <5>3 DEF sent, size
      <4>7. Mapped(bd[cur].nxt) => bd[cur].nxt \in ToSet(st.chain)
        BY <2>1, <2>4, <4>2 DEF LaidOut, Closed
      <4>8. ticks'[polling'] = st
        BY <1>2 DEF st
      <4>9. InChain(ticks[polling])'
        BY <1>1, <2>8, <4>1, <4>6, <4>7, <4>8 DEF InChain, Mapped
      <4> QED
        BY <2>7, <4>9 DEF DigestInv
    <3> QED
      BY <2>1, <3>1, <3>2, <3>3
  <2> QED
    BY <2>9, <2>10
<1> QED
  BY <1>3, <1>4

\* A tick changes nothing in the descriptors of a stream that has not started.
LEMMA FreshTick ==
    ASSUME EngineInv, FreshStream, Tick
    PROVE  FreshStream'
<1>0. EngineOk
  BY DEF EngineInv
<1>1. fw' = fw
  BY DEF Tick
<1>2. CASE bd' = bd
  BY <1>1, <1>2 DEF FreshStream
<1>3. CASE Sweeps
  <2>1. \A b \in BDs : Done(bd'[b], bd[b]) /\ bd[b] \in Descriptors
    BY <1>0, <1>3, SweepsKeeps DEF EngineOk
  <2>2. \A b \in BDs : /\ bd'[b].saf = bd[b].saf /\ bd'[b].msglen = bd[b].msglen
                       /\ bd'[b].last = bd[b].last /\ bd'[b].lifm = bd[b].lifm
    BY <2>1, DoneIs
  <2> QED
    BY <1>1, <2>2 DEF FreshStream
<1> QED
  BY <1>0, <1>2, <1>3, TickSweeps

\* The descriptors as the firmware lays them out.
LEMMA FreshLayOut ==
    ASSUME NEW m \in Streams, LayOutStream(m)
    PROVE  FreshStream' /\ DigestInv'
<1>1. bd' = [b \in BDs |-> [en |-> FALSE, saf |-> b = 1, last |-> FALSE, lifm |-> FALSE,
                            buf |-> <<>>, msglen |-> m.size, nxt |-> m.ring[b], algo |-> m.algo]]
  BY DEF LayOutStream, LayOut
<1>2. fw'.size = m.size /\ fw'.started = FALSE
  BY DEF LayOutStream
<1>3. \A b \in BDs : bd'[b].saf => b = 1
  BY <1>1
<1>4. \A b \in BDs : bd'[b].msglen = m.size /\ ~(bd'[b].last \/ bd'[b].lifm)
  BY <1>1
<1> QED
  BY <1>2, <1>3, <1>4 DEF FreshStream, DigestInv

StreamInv == EngineInv /\ FreshStream /\ DigestInv

\* The whole invariant holds at the start,
LEMMA StreamInit ==
    ASSUME CeInit
    PROVE  StreamInv
<1>1. fw.mode = "idle"
  BY DEF CeInit, Idle
<1> QED
  BY <1>1, EngineInit DEF StreamInv, FreshStream, DigestInv

\* and every step keeps it.
LEMMA StreamStep ==
    ASSUME StreamInv, [CeNext]_cevars
    PROVE  StreamInv'
<1>0. EngineInv /\ FreshStream /\ DigestInv /\ EngineOk
  BY DEF StreamInv, EngineInv
<1>1. EngineInv'
  BY <1>0, EngineStep
<1>2. CASE Tick
  BY <1>0, <1>1, <1>2, FreshTick, DigestTick DEF StreamInv
<1>3. ASSUME NEW m \in Streams, LayOutStream(m) PROVE StreamInv'
  BY <1>1, <1>3, FreshLayOut DEF StreamInv
<1>4. CASE StartStream
  <2>1. FreshStream'
    <3>1. fw' = [fw EXCEPT !.started = TRUE] /\ fw \in StreamJobs
      BY <1>0, <1>4, ModeIs DEF StartStream
    <3>2. fw'.started
      BY <3>1 DEF StreamJobs
    <3> QED
      BY <3>2 DEF FreshStream
  <2> QED
    BY <1>0, <1>1, <1>4, <2>1, DigestStartStream DEF StreamInv
<1>5. ASSUME NEW k \in 0..BUF, Fill(k) PROVE StreamInv'
  <2>1. FreshStream'
    <3>1. fw'.started
      BY <1>0, <1>5, FillIs
    <3> QED
      BY <3>1 DEF FreshStream
  <2> QED
    BY <1>0, <1>1, <1>5, <2>1, DigestFill DEF StreamInv
<1>6. CASE fw'.mode # "stream"
  BY <1>1, <1>6 DEF StreamInv, FreshStream, DigestInv
<1>7. CASE UNCHANGED cevars
  <2>1. UNCHANGED <<bd, fw>>
    BY <1>7 DEF cevars
  <2>2. FreshStream'
    BY <1>0, <2>1 DEF FreshStream
  <2> QED
    BY <1>0, <1>1, <1>7, <2>2, DigestUnchanged DEF StreamInv
<1>8. CASE Reset \/ Leave
  <2>1. PICK c : fw' = Idle(c)
    BY <1>8 DEF Reset, Leave
  <2>2. fw'.mode = "idle"
    BY <2>1 DEF Idle
  <2> QED
    BY <1>6, <2>2
<1>9. ASSUME NEW d \in Singles, LayOutSingle(d) PROVE StreamInv'
  <2>1. fw'.mode = "single"
    BY <1>9 DEF LayOutSingle
  <2> QED
    BY <1>6, <2>1
<1>10. ASSUME NEW lane \in 0..1, StartSingle(lane) PROVE StreamInv'
  <2>1. /\ fw.mode = "single" /\ fw \in SingleJobs
        /\ fw' = [fw EXCEPT !.started = TRUE, !.clean = @ /\ (lane = 0 \/ "POLLING" \notin cecon)]
    BY <1>0, <1>10, ModeIs DEF StartSingle
  <2>2. fw'.mode = "single"
    BY <2>1 DEF SingleJobs
  <2> QED
    BY <1>6, <2>2
<1> QED
  BY <1>2, <1>3, <1>4, <1>5, <1>7, <1>8, <1>9, <1>10 DEF CeNext

\* A digest that a stream of the PIC32MZ leaves, once its last descriptor is done, is that of the
\* message: no padding, no byte twice and none left out, in the byte order of the silicon, unless
\* the firmware enabled a descriptor ahead of one that still waits.
THEOREM DigestsAreMessages == CeSpec => []DigestIsMessage
<1>1. CeInit => StreamInv
  BY StreamInit
<1>2. StreamInv /\ [CeNext]_cevars => StreamInv'
  BY StreamStep
<1>3. StreamInv => DigestIsMessage
  <2> SUFFICES ASSUME StreamInv, fw.mode = "stream", fw.final # 0, polling # 0, ~fw.inverted
               PROVE  bd[fw.final].en \/ out[fw.final] = Digest
    BY Zenon DEF DigestIsMessage, Digest
  <2>1. fw.started
    BY DEF StreamInv, EngineInv, StreamOk
  <2>2. InChain(ticks[polling]) \/ OutOfChain(ticks[polling])
    BY <2>1 DEF StreamInv, DigestInv
  <2> QED
    BY <2>2 DEF InChain, OutOfChain
<1> QED
  BY <1>1, <1>2, <1>3, PTL DEF CeSpec

=============================================================================
