------------------------------ MODULE LogProofs ------------------------------
(***************************************************************************)
(* log.c for any number of processes, blocks and crashes: the account of   *)
(* the log is exact, system calls are atomic with respect to crashes, and  *)
(* begin_op's reservation leaves room for every log_write.                 *)
(***************************************************************************)
EXTENDS Log, FiniteSetTheorems, TLAPS

-----------------------------------------------------------------------------
(* The inductive invariant. *)

Entry(s)   == 1 .. Len(s)
NoRepeat(s) == \A i, j \in Entry(s) : s[i] = s[j] => i = j

InOp    == {p \in Proc : pc[p] = "in"}
Commits == {"write_log", "write_head", "install", "clear", "done"}

\* Where the calls and the commit are.
Control ==
    /\ outstanding = Cardinality(InOp)
    /\ committing <=> phase \in Commits
    /\ phase # "none" => outstanding = 0
    /\ phase = "none" /\ outstanding = 0 => lh = <<>>
    /\ phase \in Recovery => \A p \in Proc : pc[p] = "out"
    /\ phase \in {"write_log", "install", "recover"} => tail < Len(lh)
    /\ phase = "write_head" => Len(lh) > 0
    /\ phase \in {"done", "read_head"} => lh = <<>>

\* The header on disk: empty until the commit point and after the end, else the log's.
Header ==
    /\ NoRepeat(lh) /\ NoRepeat(dhead)
    /\ phase \in {"none", "write_log", "write_head", "done"} => dhead = <<>>
    /\ phase \in {"install", "clear", "recover", "recover_clear"} => dhead = lh

\* A block is pinned while it is in the log and not installed.
Pinned(b) ==
    /\ phase \notin Recovery \cup {"clear"}
    /\ \E i \in Entry(lh) : lh[i] = b /\ (phase = "install" => i > tail)
Pins == \A b \in Block : pins[b] = IF Pinned(b) THEN 1 ELSE 0

Logged(n)    == \A i \in Entry(lh) : i <= n => dlog[i] = cache[lh[i]]
Installed(n) == \A i \in Entry(lh) : i <= n => home[lh[i]] = dlog[i]
Clean        == \A b \in Block : b \notin Range(lh) => cache[b] = home[b]

\* What is where, at each point of a commit and of a recovery.
Contents ==
    /\ phase \in Recovery => cache = home
    /\ ~panicked => Clean
    /\ phase = "write_log" => Logged(tail)
    /\ phase \in {"write_head", "install", "clear"} => Logged(Len(lh))
    /\ phase \in {"install", "recover"} => Installed(tail)
    /\ phase \in {"clear", "recover_clear"} => Installed(Len(lh))

\* Together with the types and the absence of lost wakeups this is inductive.
LogInv == TypeOK /\ Control /\ Header /\ Pins /\ Contents /\ SleeperHasWaker

\* The blocks the calls in progress have written, each with its call.
Writes == {w \in Proc \X Block : w[2] \in written[w[1]]}

\* Every call in progress has MAXOPBLOCKS entries of the log, used or free.
Reserved ==
    /\ \A p \in Proc : written[p] \subseteq Range(lh) /\ Cardinality(written[p]) <= OPBLOCKS
    /\ \A p \in Proc : written[p] # {} => pc[p] = "in"
    /\ phase = "none" => Len(lh) + outstanding * MAXOPBLOCKS <= LOGBLOCKS + Cardinality(Writes)
    /\ ~panicked

-----------------------------------------------------------------------------
(* Counting. *)

\* The calls in progress are finitely many.
LEMMA InOpFinite == IsFiniteSet(InOp) /\ Cardinality(InOp) \in Nat /\ Cardinality(InOp) <= Cardinality(Proc)
                    /\ (Cardinality(InOp) = 0 <=> InOp = {})
<1>1. IsFiniteSet(Proc) /\ InOp \in SUBSET Proc
  BY LogAssumption, Zenon DEF InOp
<1> QED
  BY <1>1, FS_Subset, FS_CardinalityType, FS_EmptySet, Zenon

\* A header without repetitions: the entries of block b from n + 1 on are one or none.
LEMMA EntriesOfBlock ==
    ASSUME NEW s \in Seq(Block), NoRepeat(s), NEW b \in Block, NEW n \in Nat
    PROVE  Cardinality({i \in n + 1 .. Len(s) : s[i] = b})
           = IF \E i \in Entry(s) : s[i] = b /\ i > n THEN 1 ELSE 0
<1> DEFINE E == {i \in n + 1 .. Len(s) : s[i] = b}
<1>1. CASE \E i \in Entry(s) : s[i] = b /\ i > n
  <2>1. PICK i \in Entry(s) : s[i] = b /\ i > n
    BY <1>1, Zenon
  <2>2. E = {i}
    BY <2>1 DEF NoRepeat, Entry
  <2> QED
    BY <1>1, <2>2, FS_Singleton, Zenon
<1>2. CASE ~ \E i \in Entry(s) : s[i] = b /\ i > n
  <2>1. E = {}
    BY <1>2 DEF Entry
  <2> QED
    BY <1>2, <2>1, FS_EmptySet, Zenon
<1> QED
  BY <1>1, <1>2, Zenon

\* Pins is PinsMatchLog without cardinalities.
LEMMA PinsCounted == LogInv => PinsMatchLog
<1> SUFFICES ASSUME LogInv, NEW b \in Block
             PROVE  pins[b] = IF phase \in Recovery THEN 0
                              ELSE IF phase = "clear" THEN 0
                              ELSE IF phase = "install"
                                   THEN Cardinality({i \in tail + 1 .. Len(lh) : lh[i] = b})
                              ELSE Cardinality({i \in 1 .. Len(lh) : lh[i] = b})
  BY Zenon DEF PinsMatchLog
<1>1. pins[b] = IF Pinned(b) THEN 1 ELSE 0
  BY Zenon DEF LogInv, Pins
<1>2. lh \in Seq(Block) /\ NoRepeat(lh) /\ tail \in Nat
  BY LogAssumption DEF LogInv, TypeOK, Header
<1>3. CASE phase \in Recovery \cup {"clear"}
  BY <1>1, <1>3, Zenon DEF Pinned
<1>4. CASE phase = "install"
  <2>1. Pinned(b) <=> \E i \in Entry(lh) : lh[i] = b /\ i > tail
    BY <1>4, Zenon DEF Pinned, Recovery
  <2> QED
    BY <1>1, <1>2, <1>4, <2>1, EntriesOfBlock, Zenon DEF Recovery
<1>5. CASE phase \notin Recovery \cup {"clear", "install"}
  <2>1. Pinned(b) <=> \E i \in Entry(lh) : lh[i] = b /\ i > 0
    BY <1>2, <1>5 DEF Pinned, Entry
  <2>2. 0 + 1 .. Len(lh) = 1 .. Len(lh)
    OBVIOUS
  <2> QED
    BY <1>1, <1>2, <1>5, <2>1, <2>2, EntriesOfBlock
<1> QED
  BY <1>3, <1>4, <1>5, Zenon

-----------------------------------------------------------------------------
(* LogInv is inductive. *)

\* mkfs leaves an empty log, and the machine boots.
LEMMA LogInit == Init => LogInv
<1> SUFFICES ASSUME Init
             PROVE  LogInv
  BY Zenon
<1>1. TypeOK
  <2>1. Cardinality(Proc) \in Nat
    BY LogAssumption, FS_CardinalityType, Zenon
  <2>2. <<>> \in Seq(Block) /\ Len(<<>>) = 0
    OBVIOUS
  <2>3. lh \in Seq(Block) /\ Len(lh) <= LOGBLOCKS /\ dhead \in Seq(Block) /\ Len(dhead) <= LOGBLOCKS
    BY <2>2, LogAssumption DEF Init
  <2>4. /\ cache \in [Block -> Val] /\ home \in [Block -> Val] /\ pins \in [Block -> Nat]
        /\ dlog \in [1 .. LOGBLOCKS -> Val]
    BY LogAssumption, Zenon DEF Init
  <2>5. /\ pc \in [Proc -> {"out", "asleep", "ready", "in", "commit"}]
        /\ written \in [Proc -> SUBSET Block]
    BY Zenon DEF Init
  <2>6. /\ outstanding \in 0 .. Cardinality(Proc) /\ tail \in 0 .. LOGBLOCKS
        /\ crashes \in 0 .. MAX_CRASHES
    BY <2>1, LogAssumption DEF Init
  <2>7. committing \in BOOLEAN /\ panicked \in BOOLEAN /\ phase \in Phase
    BY Zenon DEF Init, Phase, Recovery
  <2> QED
    BY <2>3, <2>4, <2>5, <2>6, <2>7, Zenon DEF TypeOK
<1>2. InOp = {}
  BY Zenon DEF Init, InOp
<1>3. Control /\ Header
  BY <1>2, FS_EmptySet DEF Init, Control, Header, NoRepeat, Entry, Commits, Recovery
<1>4. Pins /\ Contents
  BY Zenon DEF Init, Pins, Pinned, Contents, Clean, Recovery
<1> QED
  BY <1>1, <1>3, <1>4, Zenon DEF LogInv, SleeperHasWaker, Init

\* begin_op: a call is admitted in no commit, or its process sleeps with a waker.
LEMMA BeginStep ==
    ASSUME LogInv, NEW p \in Proc, begin_op(p)
    PROVE  LogInv'
<1> USE DEF LogInv
<1>1. phase = "none" \/ phase \in Commits
  BY Zenon DEF begin_op, Running, TypeOK, Phase, Commits
<1>2. CASE committing \/ NoSpace
  <2>1. pc' = [pc EXCEPT ![p] = "asleep"] /\ UNCHANGED <<outstanding, committing, lh, phase, tail>>
    BY <1>2, Zenon DEF begin_op
  <2>2. InOp' = InOp
    BY <2>1, Zenon DEF begin_op, InOp, TypeOK
  <2>3. committing \/ outstanding > 0
    <3> SUFFICES ASSUME ~committing, outstanding = 0
                 PROVE  FALSE
      BY InOpFinite DEF Control
    <3>1. lh = <<>>
      BY <1>1, Zenon DEF Control
    <3> QED
      BY <1>2, <3>1, LogAssumption DEF NoSpace
  <2>4. TypeOK' /\ SleeperHasWaker'
    BY <2>1, <2>3 DEF begin_op, disk, TypeOK, SleeperHasWaker
  <2>5. Control'
    BY <2>1, <2>2 DEF begin_op, Control, Running
  <2> QED
    BY <2>1, <2>4, <2>5 DEF begin_op, disk, Header, Pins, Pinned, Contents, Clean, Logged, Installed
<1>3. CASE ~(committing \/ NoSpace)
  <2>1. pc' = [pc EXCEPT ![p] = "in"] /\ outstanding' = outstanding + 1
        /\ UNCHANGED <<committing, lh, phase, tail>>
    BY <1>3, Zenon DEF begin_op
  <2>2. InOp' = InOp \cup {p} /\ p \notin InOp
    BY <2>1, Zenon DEF begin_op, InOp, TypeOK
  <2>3. Cardinality(InOp') = Cardinality(InOp) + 1
    BY <2>2, InOpFinite, FS_AddElement, Zenon
  <2>4. Cardinality(InOp') <= Cardinality(Proc)
    BY LogAssumption, FS_Subset, Zenon DEF InOp
  <2>5. phase = "none"
    BY <1>1, <1>3, Zenon DEF Control
  <2>6. outstanding' = Cardinality(InOp)' /\ outstanding' \in 0 .. Cardinality(Proc) /\ outstanding' > 0
    BY <2>1, <2>3, <2>4, InOpFinite, LogAssumption, FS_CardinalityType DEF Control
  <2>7. TypeOK' /\ SleeperHasWaker'
    BY <2>1, <2>6, Zenon DEF begin_op, disk, TypeOK, SleeperHasWaker
  <2>8. Control'
    BY <2>1, <2>5, <2>6 DEF begin_op, Control, Recovery
  <2> QED
    BY <2>1, <2>7, <2>8 DEF begin_op, disk, Header, Pins, Pinned, Contents, Clean, Logged, Installed
<1> QED
  BY <1>2, <1>3, Zenon


\* The range of a sequence.
LEMMA RangeSeq ==
    ASSUME NEW s \in Seq(Block)
    PROVE  /\ Range(s) \subseteq Block
           /\ \A b : b \in Range(s) <=> \E i \in Entry(s) : s[i] = b
BY DEF Range, Entry

\* What a call in progress excludes.
LEMMA InCall ==
    ASSUME LogInv, NEW p \in Proc, pc[p] = "in"
    PROVE  phase = "none" /\ ~committing /\ outstanding > 0 /\ outstanding \in Nat /\ dhead = <<>>
<1>1. InOp # {}
  BY Zenon DEF InOp
<1>2. outstanding \in Nat /\ outstanding # 0
  BY <1>1, InOpFinite, Zenon DEF LogInv, Control
<1> QED
  BY <1>2 DEF LogInv, Control, Header, Commits

\* log_write: the block is in the log, once, and pinned, once.
LEMMA WriteStep ==
    ASSUME LogInv, NEW p \in Proc, NEW b \in Block, NEW v \in Val, log_write(p, b, v)
    PROVE  LogInv'
<1>1. phase = "none" /\ ~committing /\ outstanding > 0 /\ dhead = <<>>
  BY InCall, Zenon DEF log_write
<1> USE DEF LogInv
<1>2. /\ cache' = [cache EXCEPT ![b] = v]
      /\ UNCHANGED <<outstanding, committing, home, dlog, dhead, pc, phase, tail, crashes>>
  BY Zenon DEF log_write, disk
<1>3. SleeperHasWaker' /\ InOp' = InOp
  BY <1>2, Zenon DEF SleeperHasWaker, InOp
<1>4. cache' \in [Block -> Val]
  BY <1>2, Zenon DEF TypeOK
<1>5. CASE Len(lh) >= LOGBLOCKS
  <2>1. panicked' = TRUE /\ UNCHANGED <<lh, pins, written>>
    BY <1>5, Zenon DEF log_write
  <2>2. TypeOK'
    BY <1>2, <1>4, <2>1, Zenon DEF TypeOK
  <2>3. Control' /\ Header'
    BY <1>2, <1>3, <2>1, Zenon DEF Control, Header
  <2>4. Pins' /\ Contents'
    BY <1>1, <1>2, <2>1, Zenon DEF Pins, Pinned, Contents, Recovery
  <2> QED
    BY <1>3, <2>2, <2>3, <2>4, Zenon
<1>6. CASE Len(lh) < LOGBLOCKS /\ b \in Range(lh)
  <2>1. UNCHANGED <<lh, pins, panicked>> /\ written' = [written EXCEPT ![p] = @ \cup {b}]
    BY <1>6, LogAssumption DEF log_write, TypeOK
  <2>2. TypeOK'
    BY <1>2, <1>4, <2>1, Zenon DEF TypeOK
  <2>3. Control' /\ Header'
    BY <1>2, <1>3, <2>1, Zenon DEF Control, Header
  <2>4. Clean => Clean'
    BY <1>2, <1>6, <2>1, Zenon DEF Clean, TypeOK
  <2>5. Pins' /\ Contents'
    BY <1>1, <1>2, <2>1, <2>4, Zenon DEF Pins, Pinned, Contents, Recovery
  <2> QED
    BY <1>3, <2>2, <2>3, <2>5, Zenon
<1>7. CASE Len(lh) < LOGBLOCKS /\ b \notin Range(lh)
  <2>1. /\ lh' = Append(lh, b) /\ pins' = [pins EXCEPT ![b] = @ + 1] /\ UNCHANGED panicked
        /\ written' = [written EXCEPT ![p] = @ \cup {b}]
    BY <1>7, LogAssumption DEF log_write, TypeOK
  <2>2. lh \in Seq(Block) /\ Len(lh) \in Nat
    BY DEF TypeOK
  <2>3. /\ lh' \in Seq(Block) /\ Len(lh') = Len(lh) + 1
        /\ \A i \in Entry(lh) : lh'[i] = lh[i]
        /\ lh'[Len(lh) + 1] = b
    BY <2>1, <2>2 DEF Entry
  <2>4. \A i \in Entry(lh) : lh[i] # b
    BY <1>7, <2>2, RangeSeq, Zenon
  <2>5. TypeOK'
    <3>1. pins' \in [Block -> Nat] /\ written' \in [Proc -> SUBSET Block]
      BY <2>1 DEF TypeOK
    <3>2. Len(lh') <= LOGBLOCKS
      BY <1>7, <2>2, <2>3, LogAssumption
    <3> QED
      BY <1>2, <1>4, <2>1, <2>3, <3>1, <3>2, Zenon DEF TypeOK
  <2>6. NoRepeat(lh)'
    BY <2>2, <2>3, <2>4 DEF Header, NoRepeat, Entry
  <2>7. Control' /\ Header'
    BY <1>1, <1>2, <1>3, <2>6 DEF Control, Header, Recovery
  <2>8. ASSUME NEW c \in Block
        PROVE  Pinned(c)' <=> (Pinned(c) \/ c = b)
    BY <1>1, <1>2, <2>2, <2>3 DEF Pinned, Entry, Recovery
  <2>9. ~Pinned(b)
    BY <2>4, Zenon DEF Pinned
  <2>10. Pins'
    BY <2>1, <2>8, <2>9 DEF Pins, TypeOK
  <2>11. Clean => Clean'
    <3>1. \A c : c \in Range(lh') <=> (c \in Range(lh) \/ c = b)
      BY <2>2, <2>3, RangeSeq DEF Entry
    <3> QED
      BY <1>2, <3>1, Zenon DEF Clean, TypeOK
  <2>12. Contents'
    BY <1>1, <1>2, <2>1, <2>11, Zenon DEF Contents, Recovery
  <2> QED
    BY <1>3, <2>5, <2>7, <2>10, <2>12, Zenon
<1> QED
  BY <1>5, <1>6, <1>7, LogAssumption, SMTT(30) DEF TypeOK


\* end_op: the last call starts the commit, any other wakes the sleepers.
LEMMA EndStep ==
    ASSUME LogInv, NEW p \in Proc, end_op(p)
    PROVE  LogInv' /\ ~panicked'
<1>1. phase = "none" /\ ~committing /\ outstanding > 0 /\ outstanding \in Nat /\ dhead = <<>>
  BY InCall, Zenon DEF end_op
<1> USE DEF LogInv
<1>2. /\ outstanding' = outstanding - 1 /\ written' = [written EXCEPT ![p] = {}]
      /\ UNCHANGED <<lh, cache, pins, home, dlog, dhead, crashes, panicked>>
      /\ pc[p] = "in" /\ ~panicked
  BY <1>1, Zenon DEF end_op, disk, Running
<1>3. written' \in [Proc -> SUBSET Block] /\ outstanding' \in 0 .. Cardinality(Proc)
  <2>1. written' \in [Proc -> SUBSET Block]
    BY <1>2, Zenon DEF TypeOK
  <2>2. Cardinality(Proc) \in Nat
    BY LogAssumption, FS_CardinalityType, Zenon
  <2> QED
    BY <1>1, <1>2, <2>1, <2>2 DEF TypeOK
<1>4. InOp' = InOp \ {p} => outstanding' = Cardinality(InOp')
  <2>1. p \in InOp
    BY <1>2, Zenon DEF InOp
  <2>2. Cardinality(InOp \ {p}) = Cardinality(InOp) - 1
    BY <2>1, InOpFinite, FS_RemoveElement, Zenon
  <2> QED
    BY <1>2, <2>2, Zenon DEF Control
<1>5. CASE outstanding' = 0
  <2>1. /\ committing' = TRUE /\ pc' = [pc EXCEPT ![p] = "commit"] /\ tail' = 0
        /\ phase' = IF lh = <<>> THEN "done" ELSE "write_log"
    BY <1>1, <1>5, Zenon DEF end_op
  <2>2. InOp' = InOp \ {p} /\ pc' \in [Proc -> {"out", "asleep", "ready", "in", "commit"}]
    BY <2>1, Zenon DEF InOp, TypeOK
  <2>3. TypeOK'
    <3>1. phase' \in Phase /\ tail' \in 0 .. LOGBLOCKS
      BY <2>1, LogAssumption DEF Phase
    <3> QED
      BY <1>2, <1>3, <2>1, <2>2, <3>1, Zenon DEF TypeOK
  <2>4. lh # <<>> => 0 < Len(lh)
    BY DEF TypeOK
  <2>5. Control'
    BY <1>2, <1>4, <1>5, <2>1, <2>2, <2>4, Zenon DEF Control, Commits, Recovery
  <2>6. Header'
    BY <1>1, <1>2, <2>1, Zenon DEF Header
  <2>7. Pins'
    BY <1>1, <1>2, <2>1, Zenon DEF Pins, Pinned, Recovery
  <2>8. Contents'
    <3>1. phase' = "write_log" => Logged(tail)'
      BY <2>1 DEF Logged, Entry
    <3> QED
      BY <1>2, <2>1, <3>1, Zenon DEF Contents, Clean, Recovery
  <2> QED
    BY <1>2, <2>1, <2>3, <2>5, <2>6, <2>7, <2>8, Zenon DEF SleeperHasWaker
<1>6. CASE outstanding' # 0
  <2>1. wakeup(p, "out") /\ UNCHANGED <<committing, phase, tail>>
    BY <1>1, <1>6, Zenon DEF end_op
  <2>2. /\ InOp' = InOp \ {p} /\ pc' \in [Proc -> {"out", "asleep", "ready", "in", "commit"}]
        /\ SleeperHasWaker'
    BY <2>1, Zenon DEF wakeup, InOp, TypeOK, SleeperHasWaker
  <2>3. TypeOK'
    BY <1>2, <1>3, <2>1, <2>2, Zenon DEF TypeOK
  <2>4. Control'
    BY <1>1, <1>2, <1>4, <1>6, <2>1, <2>2, Zenon DEF Control, Recovery
  <2> QED
    BY <1>2, <2>1, <2>2, <2>3, <2>4, Zenon DEF Header, Pins, Pinned, Contents, Clean, Logged, Installed
<1> QED
  BY <1>5, <1>6, Zenon

\* One round of the loops over the log's entries.
LEMMA Loop ==
    ASSUME LogInv, NEW now, NEW next, LoopTo(now, next), tail < Len(lh)
    PROVE  \/ phase' = now /\ tail' = tail + 1 /\ tail + 1 < Len(lh)
           \/ phase' = next /\ tail' = 0 /\ tail + 1 = Len(lh)
BY LogAssumption DEF LogInv, TypeOK, LoopTo

\* write_log: one more entry of the log on disk has the content of its block.
LEMMA WriteLogStep ==
    ASSUME LogInv, write_log
    PROVE  LogInv'
<1> USE DEF LogInv
<1>1. phase = "write_log" /\ tail < Len(lh) /\ tail + 1 \in Entry(lh) /\ tail \in Nat
      /\ tail + 1 \in 1 .. LOGBLOCKS
  BY LogAssumption DEF write_log, Control, TypeOK, Entry
<1>2. \/ phase' = "write_log" /\ tail' = tail + 1 /\ tail + 1 < Len(lh)
      \/ phase' = "write_head" /\ tail' = 0 /\ tail + 1 = Len(lh)
  BY <1>1, Loop, Zenon DEF write_log
<1>3. /\ dlog' = [dlog EXCEPT ![tail + 1] = cache[lh[tail + 1]]]
      /\ UNCHANGED <<outstanding, committing, lh, cache, pins, home, dhead, pc, written, crashes, panicked>>
  BY Zenon DEF write_log
<1>4. TypeOK'
  <2>1. cache[lh[tail + 1]] \in Val
    BY <1>1 DEF TypeOK, Entry
  <2>2. dlog' \in [1 .. LOGBLOCKS -> Val]
    BY <1>3, <2>1, Zenon DEF TypeOK
  <2>3. phase' \in Phase /\ tail' \in 0 .. LOGBLOCKS
    BY <1>1, <1>2, LogAssumption DEF Phase
  <2> QED
    BY <1>3, <2>2, <2>3, Zenon DEF TypeOK
<1>5. Control' /\ SleeperHasWaker'
  BY <1>1, <1>2, <1>3 DEF Control, Commits, Recovery, InOp, SleeperHasWaker
<1>6. Header' /\ Pins'
  BY <1>1, <1>2, <1>3, Zenon DEF Header, Pins, Pinned, Recovery
<1>7. \A i \in Entry(lh) : i <= tail + 1 => dlog'[i] = cache[lh[i]]
  BY <1>1, <1>3, LogAssumption DEF Contents, Logged, Entry, TypeOK
<1>8. Contents'
  BY <1>1, <1>2, <1>3, <1>7, ZenonT(40) DEF Contents, Logged, Clean, Recovery
<1> QED
  BY <1>4, <1>5, <1>6, <1>8, Zenon

\* write_head: the header on disk is the log's, whose blocks are all on disk.
LEMMA WriteHeadStep ==
    ASSUME LogInv, write_head
    PROVE  LogInv'
<1> USE DEF LogInv
<1>1. /\ phase = "write_head" /\ phase' = "install" /\ tail' = 0 /\ dhead' = lh
      /\ UNCHANGED <<outstanding, committing, lh, cache, pins, home, dlog, pc, written, crashes, panicked>>
  BY Zenon DEF write_head

<1>2. TypeOK'
  <2>1. phase' \in Phase /\ tail' \in 0 .. LOGBLOCKS
    BY <1>1, LogAssumption DEF Phase
  <2> QED
    BY <1>1, <2>1, Zenon DEF TypeOK
<1>3. Control' /\ SleeperHasWaker'
  BY <1>1, Zenon DEF Control, Commits, Recovery, InOp, SleeperHasWaker
<1>4. Header'
  BY <1>1, Zenon DEF Header
<1>5. Pins'
  BY <1>1 DEF Pins, Pinned, Recovery, Entry
<1>6. Contents'
  BY <1>1 DEF Contents, Logged, Installed, Clean, Entry, Recovery
<1> QED
  BY <1>2, <1>3, <1>4, <1>5, <1>6, Zenon

\* install_trans: one more block is home; a commit unpins it, a recovery has nothing pinned.
LEMMA InstallStep ==
    ASSUME LogInv, NEW now, NEW next, NEW unpin, install_trans(now, next, unpin),
           \/ now = "install" /\ next = "clear" /\ unpin = 1
           \/ now = "recover" /\ next = "recover_clear" /\ unpin = 0
    PROVE  LogInv'
<1> USE DEF LogInv
<1> DEFINE b == lh[tail + 1]
<1>1. phase = now /\ tail < Len(lh) /\ tail + 1 \in Entry(lh) /\ tail \in Nat
      /\ tail + 1 \in 1 .. LOGBLOCKS /\ b \in Block /\ b \in Range(lh)
  BY LogAssumption, RangeSeq DEF install_trans, Control, TypeOK, Entry
<1>2. \/ phase' = now /\ tail' = tail + 1 /\ tail + 1 < Len(lh)
      \/ phase' = next /\ tail' = 0 /\ tail + 1 = Len(lh)
  BY <1>1, Loop, Zenon DEF install_trans
<1>3. /\ home' = [home EXCEPT ![b] = dlog[tail + 1]]
      /\ cache' = [cache EXCEPT ![b] = dlog[tail + 1]]
      /\ pins' = [pins EXCEPT ![b] = @ - unpin]
      /\ UNCHANGED <<outstanding, committing, lh, dlog, dhead, pc, written, crashes, panicked>>
  BY Zenon DEF install_trans
<1>4. home' \in [Block -> Val] /\ cache' \in [Block -> Val]
  BY <1>1, <1>3, Zenon DEF TypeOK
<1>5. NoRepeat(lh)
  BY Zenon DEF Header
<1>6. Pins' /\ pins' \in [Block -> Nat]
  <2>1. CASE now = "recover"
    BY <1>1, <1>2, <1>3, <2>1 DEF Pins, Pinned, Recovery, TypeOK
  <2>2. CASE now = "install"
    <3>1. ASSUME NEW c \in Block
          PROVE  Pinned(c)' <=> (Pinned(c) /\ c # b)
      <4>1. Pinned(c) <=> \E i \in Entry(lh) : lh[i] = c /\ i > tail
        BY <1>1, <2>2, Zenon DEF Pinned, Recovery
      <4>2. Pinned(c)' <=> \E i \in Entry(lh) : lh[i] = c /\ i > tail + 1
        BY <1>1, <1>2, <1>3, <2>2 DEF Pinned, Recovery, Entry
      <4> QED
        BY <1>1, <1>5, <4>1, <4>2 DEF NoRepeat, Entry
    <3>2. Pinned(b)
      BY <1>1, <2>2 DEF Pinned, Recovery
    <3> QED
      BY <1>1, <1>3, <2>2, <3>1, <3>2 DEF Pins, TypeOK
  <2> QED
    BY <2>1, <2>2, Zenon
<1>7. TypeOK'
  <2>1. phase' \in Phase /\ tail' \in 0 .. LOGBLOCKS
    BY <1>1, <1>2, LogAssumption DEF Phase, Recovery
  <2> QED
    BY <1>3, <1>4, <1>6, <2>1, Zenon DEF TypeOK
<1>8. Control' /\ SleeperHasWaker'
  BY <1>1, <1>2, <1>3, Zenon DEF Control, Commits, Recovery, InOp, SleeperHasWaker
<1>9. Header'
  BY <1>1, <1>2, <1>3, Zenon DEF Header
<1>10. \A i \in Entry(lh) : i <= tail + 1 => home'[lh[i]] = dlog[i]
  <2> SUFFICES ASSUME NEW i \in Entry(lh), i <= tail + 1
               PROVE  home'[lh[i]] = dlog[i]
    BY Zenon
  <2>1. CASE i = tail + 1
    BY <1>1, <1>3, <2>1, Zenon DEF TypeOK
  <2>2. CASE i # tail + 1
    <3>1. i <= tail /\ home[lh[i]] = dlog[i]
      BY <1>1, <2>2 DEF Contents, Installed, Entry
    <3>2. lh[i] # b
      BY <1>1, <1>5, <2>2, Zenon DEF NoRepeat
    <3> QED
      BY <1>3, <3>1, <3>2 DEF TypeOK
  <2> QED
    BY <2>1, <2>2, Zenon
<1>11. now = "install" => Logged(Len(lh))'
  <2> SUFFICES ASSUME now = "install", NEW i \in Entry(lh)
               PROVE  dlog[i] = cache'[lh[i]]
    BY <1>3, Zenon DEF Logged, Entry
  <2>1. dlog[i] = cache[lh[i]]
    BY <1>1 DEF Contents, Logged, Entry, TypeOK
  <2>2. lh[i] = b => i = tail + 1
    BY <1>1, <1>5, Zenon DEF NoRepeat
  <2>3. lh[i] \in Block
    BY DEF TypeOK, Entry
  <2> QED
    BY <1>3, <2>1, <2>2, <2>3, Zenon DEF TypeOK
<1>12. (Clean => Clean') /\ (cache = home => cache' = home')
  BY <1>1, <1>3, Zenon DEF Clean, TypeOK
<1>13. Contents'
  <2>1. phase' = now => Installed(tail)'
    BY <1>1, <1>2, <1>3, <1>10, Zenon DEF Installed, Entry
  <2>2. phase' = next => Installed(Len(lh))'
    BY <1>1, <1>2, <1>3, <1>10, Zenon DEF Installed, Entry
  <2>3. Clean' \/ panicked'
    BY <1>3, <1>12, Zenon DEF Contents
  <2>4. CASE now = "install"
    BY <1>2, <1>11, <2>1, <2>2, <2>3, <2>4, Zenon DEF Contents, Recovery
  <2>5. CASE now = "recover"
    BY <1>1, <1>2, <1>12, <2>1, <2>2, <2>3, <2>5, Zenon DEF Contents, Recovery
  <2> QED
    BY <2>4, <2>5, Zenon
<1> QED
  BY <1>6, <1>7, <1>8, <1>9, <1>13, Zenon


\* The header is cleared, by a commit whose blocks are home or at the end of a recovery.
LEMMA ClearStep ==
    ASSUME LogInv, NEW now, NEW next, clear(now, next),
           \/ now = "clear" /\ next = "done"
           \/ now = "recover_clear" /\ next = "none"
    PROVE  LogInv'
<1> USE DEF LogInv
<1>1. /\ ~panicked /\ phase = now /\ phase' = next /\ lh' = <<>> /\ dhead' = <<>>
      /\ UNCHANGED <<outstanding, committing, cache, pins, home, dlog, pc, written, tail, crashes, panicked>>
  BY Zenon DEF clear
<1>2. TypeOK'
  <2>1. lh' \in Seq(Block) /\ Len(lh') = 0 /\ dhead' \in Seq(Block) /\ Len(dhead') = 0
    BY <1>1
  <2>2. phase' \in Phase /\ 0 <= LOGBLOCKS
    BY <1>1, LogAssumption DEF Phase
  <2> QED
    BY <1>1, <2>1, <2>2, Zenon DEF TypeOK
<1>3. Control' /\ SleeperHasWaker'
  BY <1>1, Zenon DEF Control, Commits, Recovery, InOp, SleeperHasWaker
<1>4. Header' /\ Entry(lh)' = {}
  BY <1>1 DEF Header, NoRepeat, Entry
<1>5. Pins'
  BY <1>1, <1>4, Zenon DEF Pins, Pinned, Recovery
<1>6. Clean'
  <2> SUFFICES ASSUME NEW b \in Block
               PROVE  cache[b] = home[b]
    BY <1>1, Zenon DEF Clean
  <2>1. CASE b \notin Range(lh)
    BY <1>1, <2>1, Zenon DEF Contents, Clean
  <2>2. CASE b \in Range(lh) /\ now = "clear"
    <3>1. PICK i \in Entry(lh) : lh[i] = b
      BY <2>2, RangeSeq, Zenon DEF TypeOK
    <3>2. dlog[i] = cache[lh[i]] /\ home[lh[i]] = dlog[i]
      BY <1>1, <2>2 DEF Contents, Logged, Installed, Entry, TypeOK
    <3> QED
      BY <3>1, <3>2, Zenon
  <2>3. CASE now = "recover_clear"
    BY <1>1, <2>3, Zenon DEF Contents, Recovery
  <2> QED
    BY <1>1, <2>1, <2>2, <2>3, Zenon
<1>7. Contents'
  BY <1>1, <1>6, Zenon DEF Contents, Recovery
<1> QED
  BY <1>2, <1>3, <1>4, <1>5, <1>7, Zenon

\* The end of a commit wakes every sleeper.
LEMMA EndCommitStep ==
    ASSUME LogInv, NEW p \in Proc, end_commit(p)
    PROVE  LogInv'
<1> USE DEF LogInv
<1>1. /\ phase = "done" /\ phase' = "none" /\ committing' = FALSE /\ wakeup(p, "out") /\ pc[p] = "commit"
      /\ UNCHANGED <<outstanding, lh, cache, pins, home, dlog, dhead, written, tail, crashes, panicked>>
  BY Zenon DEF end_commit, disk
<1>2. /\ pc' \in [Proc -> {"out", "asleep", "ready", "in", "commit"}]
      /\ InOp' = InOp /\ SleeperHasWaker'
  BY <1>1, Zenon DEF wakeup, InOp, TypeOK, SleeperHasWaker
<1>3. TypeOK'
  <2>1. phase' \in Phase /\ committing' \in BOOLEAN
    BY <1>1, Zenon DEF Phase
  <2> QED
    BY <1>1, <1>2, <2>1, Zenon DEF TypeOK
<1>4. Control'
  BY <1>1, <1>2, Zenon DEF Control, Commits, Recovery
<1>5. Header' /\ Pins'
  BY <1>1, Zenon DEF Header, Pins, Pinned, Recovery
<1>6. Contents'
  BY <1>1, Zenon DEF Contents, Clean, Recovery
<1> QED
  BY <1>2, <1>3, <1>4, <1>5, <1>6, Zenon

\* A crash leaves what is on disk.
LEMMA CrashStep ==
    ASSUME LogInv, crash
    PROVE  LogInv'
<1> USE DEF LogInv
<1>1. /\ outstanding' = 0 /\ committing' = FALSE /\ lh' = <<>> /\ cache' = home
      /\ pins' = [b \in Block |-> 0] /\ pc' = [p \in Proc |-> "out"]
      /\ written' = [p \in Proc |-> {}] /\ phase' = "read_head" /\ tail' = 0
      /\ crashes < MAX_CRASHES /\ crashes' = crashes + 1
      /\ UNCHANGED <<home, dlog, dhead, panicked>>
  BY Zenon DEF crash, disk
<1>2. TypeOK'
  <2>1. lh' \in Seq(Block) /\ Len(lh') = 0
    BY <1>1
  <2>2. pins' \in [Block -> Nat] /\ written' \in [Proc -> SUBSET Block]
    BY <1>1, Zenon
  <2>3. pc' \in [Proc -> {"out", "asleep", "ready", "in", "commit"}]
    BY <1>1, Zenon
  <2>4. /\ outstanding' \in 0 .. Cardinality(Proc) /\ tail' \in 0 .. LOGBLOCKS /\ 0 <= LOGBLOCKS
        /\ crashes' \in 0 .. MAX_CRASHES
    BY <1>1, LogAssumption, FS_CardinalityType DEF TypeOK
  <2>5. phase' \in Phase /\ committing' \in BOOLEAN
    BY <1>1, Zenon DEF Phase, Recovery
  <2> QED
    BY <1>1, <2>1, <2>2, <2>3, <2>4, <2>5, Zenon DEF TypeOK
<1>3. InOp' = {}
  BY <1>1, Zenon DEF InOp
<1>4. Control' /\ SleeperHasWaker'
  BY <1>1, <1>3, FS_EmptySet, Zenon DEF Control, Commits, Recovery, SleeperHasWaker
<1>5. Header'
  BY <1>1 DEF Header, NoRepeat, Entry
<1>6. Pins' /\ Contents'
  BY <1>1, Zenon DEF Pins, Pinned, Contents, Clean, Recovery
<1> QED
  BY <1>2, <1>4, <1>5, <1>6, Zenon


\* Recovery reads the header that is on disk.
LEMMA ReadHeadStep ==
    ASSUME LogInv, read_head
    PROVE  LogInv'
<1> USE DEF LogInv
<1>1. /\ phase = "read_head" /\ lh' = dhead /\ tail' = 0
      /\ phase' = IF dhead = <<>> THEN "recover_clear" ELSE "recover"
      /\ UNCHANGED <<outstanding, committing, cache, pins, home, dlog, dhead, pc, written, crashes, panicked>>
  BY Zenon DEF read_head, disk
<1>2. TypeOK'
  <2>1. phase' \in Phase /\ tail' \in 0 .. LOGBLOCKS
    BY <1>1, LogAssumption DEF Phase, Recovery
  <2> QED
    BY <1>1, <2>1, Zenon DEF TypeOK
<1>3. dhead # <<>> => 0 < Len(dhead)
  BY DEF TypeOK
<1>4. Control' /\ SleeperHasWaker'
  BY <1>1, <1>3, Zenon DEF Control, Commits, Recovery, InOp, SleeperHasWaker
<1>5. Header' /\ Pins'
  BY <1>1, Zenon DEF Header, Pins, Pinned, Recovery
<1>6. cache = home
  BY <1>1, Zenon DEF Contents, Recovery
<1>7. phase' = "recover" => Installed(tail)'
  BY <1>1 DEF Installed, Entry
<1>8. phase' = "recover_clear" => Installed(Len(lh))'
  BY <1>1 DEF Installed, Entry
<1>9. Contents'
  BY <1>1, <1>6, <1>7, <1>8, Zenon DEF Contents, Clean, Recovery
<1> QED
  BY <1>2, <1>4, <1>5, <1>9, Zenon

\* A buffer that is recycled has no content the disk has not.
LEMMA RecycleStep ==
    ASSUME LogInv, NEW b \in Block, Recycle(b)
    PROVE  LogInv'
<1> USE DEF LogInv
<1>1. /\ pins[b] = 0 /\ cache' = [cache EXCEPT ![b] = home[b]]
      /\ UNCHANGED <<outstanding, committing, lh, pins, home, dlog, dhead, pc, written, phase, tail, crashes,
                     panicked>>
  BY Zenon DEF Recycle, disk
<1>2. TypeOK'
  <2>1. cache' \in [Block -> Val]
    BY <1>1, Zenon DEF TypeOK
  <2> QED
    BY <1>1, <2>1, Zenon DEF TypeOK
<1>3. Control' /\ SleeperHasWaker' /\ Header' /\ Pins'
  BY <1>1, Zenon DEF Control, InOp, SleeperHasWaker, Header, Pins, Pinned
<1>4. ~Pinned(b)
  BY <1>1 DEF Pins
<1>5. (Clean => Clean') /\ (cache = home => cache' = home')
  BY <1>1, Zenon DEF Clean, TypeOK
<1>6. \A i \in Entry(lh) : lh[i] \in Block /\ cache'[lh[i]] = IF lh[i] = b THEN home[b] ELSE cache[lh[i]]
  BY <1>1 DEF TypeOK, Entry
<1>7. phase = "write_log" => Logged(tail)'
  BY <1>1, <1>4, <1>6, Zenon DEF Contents, Logged, Pinned, Recovery
<1>8. phase = "write_head" => Logged(Len(lh))'
  BY <1>1, <1>4, <1>6, Zenon DEF Contents, Logged, Pinned, Recovery
<1>9. phase = "install" => Logged(Len(lh))'
  <2> SUFFICES ASSUME phase = "install", NEW i \in Entry(lh)
               PROVE  dlog[i] = cache'[lh[i]]
    BY <1>1, Zenon DEF Logged
  <2>1. dlog[i] = cache[lh[i]]
    BY DEF Contents, Logged, Entry, TypeOK
  <2>2. lh[i] = b => home[lh[i]] = dlog[i]
    BY <1>4 DEF Contents, Installed, Pinned, Entry, Recovery, TypeOK
  <2> QED
    BY <1>6, <2>1, <2>2, Zenon
<1>10. phase = "clear" => Logged(Len(lh))'
  BY <1>1, <1>6 DEF Contents, Logged, Installed
<1>11. Contents'
  BY <1>1, <1>5, <1>7, <1>8, <1>9, <1>10, Zenon DEF Contents, Installed
<1> QED
  BY <1>2, <1>3, <1>11, Zenon

\* Every step of the log keeps the invariant.
LEMMA LogStep == LogInv /\ [Next]_vars => LogInv'
<1> SUFFICES ASSUME LogInv, [Next]_vars
             PROVE  LogInv'
  BY Zenon
<1>1. CASE UNCHANGED vars
  BY <1>1 DEF vars, disk, LogInv, TypeOK, Control, InOp, Header, Pins, Pinned, Contents, Clean, Logged,
              Installed, SleeperHasWaker
<1>2. CASE commit
  BY <1>2, WriteLogStep, WriteHeadStep, InstallStep, ClearStep, EndCommitStep, Zenon DEF commit
<1>3. CASE recover_from_log
  BY <1>3, ReadHeadStep, InstallStep, ClearStep, Zenon DEF recover_from_log
<1> QED
  BY <1>1, <1>2, <1>3, BeginStep, WriteStep, EndStep, CrashStep, RecycleStep, Zenon DEF Next

\* The log's account of itself is exact at every step of every commit and recovery, whatever the
\* calls write and whenever the machine crashes: each block of the log is pinned once until it is
\* installed, no sleeper of begin_op is without a waker, and a quiet log is a durable one.
THEOREM LogAccount == Spec => []LogExact
<1>1. LogInv => LogExact
  <2> SUFFICES ASSUME LogInv
               PROVE  QuietIsDurable
    BY PinsCounted, Zenon DEF LogExact, LogInv
  <2> SUFFICES ASSUME phase = "none", outstanding = 0, ~panicked
               PROVE  home = cache /\ lh = <<>> /\ dhead = <<>>
    BY Zenon DEF QuietIsDurable
  <2>1. lh = <<>> /\ dhead = <<>>
    BY Zenon DEF LogInv, Control, Header
  <2>2. \A b \in Block : cache[b] = home[b]
    BY <2>1 DEF LogInv, Contents, Clean, Range
  <2> QED
    BY <2>1, <2>2 DEF LogInv, TypeOK
<1> QED
  BY <1>1, LogInit, LogStep, PTL DEF Spec


-----------------------------------------------------------------------------
(* Log implements AtomicDisk. *)

Mem == IF phase \in Recovery THEN Stable ELSE cache

\* What recovery would leave: the entries of the header on disk over the home blocks.
LEMMA StableBlocks ==
    ASSUME LogInv
    PROVE  /\ Stable = [b \in Block |-> Stable[b]]
           /\ \A i \in Entry(dhead) : dhead[i] \in Block /\ Stable[dhead[i]] = dlog[i]
           /\ \A b \in Block : b \notin Range(dhead) => Stable[b] = home[b]
<1> USE DEF LogInv
<1>1. Stable = [b \in Block |-> Stable[b]] /\ \A b \in Block : b \notin Range(dhead) => Stable[b] = home[b]
  BY DEF Stable
<1>2. ASSUME NEW i \in Entry(dhead)
      PROVE  dhead[i] \in Block /\ Stable[dhead[i]] = dlog[i]
  <2>1. dhead[i] \in Block /\ dhead[i] \in Range(dhead)
    BY RangeSeq, Zenon DEF TypeOK, Entry
  <2>2. (CHOOSE j \in 1 .. Len(dhead) : dhead[j] = dhead[i]) = i
    BY Zenon DEF Header, NoRepeat, Entry
  <2> QED
    BY <2>1, <2>2, Zenon DEF Stable
<1> QED
  BY <1>1, <1>2, Zenon

\* Without a header it is the home blocks; so it is when all entries are installed.
LEMMA StableHome ==
    ASSUME LogInv, \A i \in Entry(dhead) : home[dhead[i]] = dlog[i]
    PROVE  Stable = home
<1>1. \A b \in Block : Stable[b] = home[b]
  BY StableBlocks, RangeSeq DEF LogInv, TypeOK
<1> QED
  BY <1>1, StableBlocks, Zenon DEF LogInv, TypeOK

\* A recycled buffer held what is on disk.
LEMMA RecycleKeeps ==
    ASSUME LogInv, ~panicked, NEW b \in Block, pins[b] = 0
    PROVE  cache[b] = home[b]
<1> USE DEF LogInv
<1>1. ~Pinned(b)
  BY DEF Pins
<1>2. CASE b \notin Range(lh)
  BY <1>2, Zenon DEF Contents, Clean
<1>3. CASE phase \in Recovery
  BY <1>3, Zenon DEF Contents
<1>4. CASE b \in Range(lh) /\ phase \notin Recovery
  <2>1. PICK i \in Entry(lh) : lh[i] = b
    BY <1>4, RangeSeq, Zenon DEF TypeOK
  <2>2. phase = "clear" \/ (phase = "install" /\ i <= tail)
    BY <1>1, <1>4, <2>1 DEF Pinned, Entry, TypeOK
  <2>3. dlog[i] = cache[lh[i]] /\ home[lh[i]] = dlog[i]
    BY <2>2 DEF Contents, Logged, Installed, Entry, TypeOK
  <2> QED
    BY <2>1, <2>3, Zenon
<1> QED
  BY <1>2, <1>3, <1>4, Zenon

\* Once the header is on disk, installing a block changes nothing a crash or a reader could see.
LEMMA InstallKeeps ==
    ASSUME LogInv, NEW now, NEW next, NEW unpin, install_trans(now, next, unpin),
           \/ now = "install" /\ next = "clear" /\ unpin = 1
           \/ now = "recover" /\ next = "recover_clear" /\ unpin = 0
    PROVE  Mem' = Mem /\ Stable' = Stable /\ InOp' = InOp
<1> USE DEF LogInv
<1> DEFINE b == lh[tail + 1]
<1>1. /\ phase = now /\ dhead = lh /\ tail + 1 \in Entry(lh) /\ b \in Block /\ b \in Range(dhead)
  BY LogAssumption, RangeSeq DEF install_trans, Control, Header, TypeOK, Entry
<1>2. phase' = now \/ phase' = next
  BY Zenon DEF install_trans, LoopTo
<1>3. /\ home' = [home EXCEPT ![b] = dlog[tail + 1]]
      /\ cache' = [cache EXCEPT ![b] = dlog[tail + 1]]
      /\ UNCHANGED <<lh, dlog, dhead, pc>>
  BY Zenon DEF install_trans
<1>4. \A c \in Block : Stable'[c] = Stable[c]
  <2> SUFFICES ASSUME NEW c \in Block
               PROVE  Stable'[c] = Stable[c]
    BY Zenon
  <2>1. CASE c \notin Range(dhead)
    <3>1. Stable[c] = home[c] /\ home'[c] = home[c]
      BY <1>1, <1>3, <2>1, StableBlocks, Zenon DEF TypeOK
    <3> QED
      BY <1>3, <2>1, <3>1, Zenon DEF Stable
  <2>2. CASE c \in Range(dhead)
    BY <1>3, <2>2 DEF Stable
  <2> QED
    BY <2>1, <2>2, Zenon
<1>5. Stable' = Stable
  BY <1>4, Zenon DEF Stable
<1>6. now = "install" => cache' = cache
  <2>1. now = "install" => cache[b] = dlog[tail + 1]
    BY <1>1 DEF Contents, Logged, Entry, TypeOK
  <2> QED
    BY <1>3, <2>1, Zenon DEF TypeOK
<1> QED
  BY <1>1, <1>2, <1>3, <1>5, <1>6, Zenon DEF Mem, InOp, Recovery


\* Every step of the log is a step of the atomic disk, or one it does not see.
LEMMA AtomicStep == LogInv /\ [Next]_vars => [Atomic!Next]_(Atomic!vars)
<1> SUFFICES ASSUME LogInv, [Next]_vars
             PROVE  Atomic!Next \/ (Mem' = Mem /\ Stable' = Stable /\ InOp' = InOp)
  BY Zenon DEF Atomic!vars, Mem, InOp
<1>0. UNCHANGED <<home, dlog, dhead>> => Stable' = Stable
  BY DEF Stable
<1>1. CASE UNCHANGED vars
  BY <1>0, <1>1, Zenon DEF vars, disk, Mem, InOp
<1>2. ASSUME NEW p \in Proc, begin_op(p)
      PROVE  Atomic!Next \/ (Mem' = Mem /\ Stable' = Stable /\ InOp' = InOp)
  <2>1. Stable' = Stable /\ Mem' = Mem
    BY <1>0, <1>2, Zenon DEF begin_op, disk, Mem
  <2>2. CASE committing \/ NoSpace
    <3>1. pc' = [pc EXCEPT ![p] = "asleep"] /\ pc[p] # "in"
      BY <1>2, <2>2, Zenon DEF begin_op
    <3>2. InOp' = InOp
      BY <3>1, Zenon DEF InOp, LogInv, TypeOK
    <3> QED
      BY <2>1, <3>2, Zenon
  <2>3. CASE ~(committing \/ NoSpace)
    <3>1. pc' = [pc EXCEPT ![p] = "in"]
      BY <1>2, <2>3, Zenon DEF begin_op
    <3>2. InOp' = InOp \cup {p}
      BY <3>1, Zenon DEF InOp, LogInv, TypeOK
    <3>3. Atomic!Begin(p)
      BY <2>1, <3>2, Zenon DEF Atomic!Begin, Mem, InOp
    <3> QED
      BY <3>3, Zenon DEF Atomic!Next
  <2> QED
    BY <2>2, <2>3, Zenon
<1>3. ASSUME NEW p \in Proc, NEW b \in Block, NEW v \in Val, log_write(p, b, v)
      PROVE  Atomic!Next
  <2>1. /\ phase = "none" /\ phase' = "none" /\ cache' = [cache EXCEPT ![b] = v]
        /\ UNCHANGED <<home, dlog, dhead, pc>> /\ pc[p] = "in"
    BY <1>3, InCall, Zenon DEF log_write, disk
  <2>2. Mem = cache /\ Mem' = cache' /\ Stable' = Stable /\ InOp' = InOp /\ p \in InOp
    BY <1>0, <2>1, Zenon DEF Mem, Recovery, InOp
  <2>3. Atomic!Update(p, b, v)
    BY <2>1, <2>2, Zenon DEF Atomic!Update, Mem, InOp
  <2> QED
    BY <2>3, Zenon DEF Atomic!Next
<1>4. ASSUME NEW p \in Proc, end_op(p)
      PROVE  Atomic!Next
  <2>1. phase = "none" /\ ~committing
    BY <1>4, InCall, Zenon DEF end_op
  <2>2. /\ UNCHANGED <<cache, home, dlog, dhead>> /\ phase' \in {"none", "done", "write_log"}
        /\ pc' = [pc EXCEPT ![p] = "commit"] \/ wakeup(p, "out")
    BY <1>4, <2>1, Zenon DEF end_op, disk
  <2>3. Mem' = Mem /\ Stable' = Stable
    BY <1>0, <2>1, <2>2, Zenon DEF Mem, Recovery
  <2>4. InOp' = InOp \ {p}
    BY <2>2, Zenon DEF InOp, wakeup, LogInv, TypeOK
  <2>5. Atomic!End(p)
    BY <2>3, <2>4, Zenon DEF Atomic!End, Mem, InOp
  <2> QED
    BY <2>5, Zenon DEF Atomic!Next
<1>5. CASE write_log
  <2>1. /\ phase = "write_log" /\ phase' \in {"write_log", "write_head"} /\ dhead = <<>>
        /\ UNCHANGED <<cache, home, dhead, pc>>
    BY <1>5, Zenon DEF write_log, LoopTo, LogInv, Header
  <2>2. Stable' = Stable
    BY <2>1 DEF Stable, Range
  <2> QED
    BY <2>1, <2>2, Zenon DEF Mem, InOp, Recovery
<1>6. CASE write_head
  <2>1. /\ phase = "write_head" /\ phase' = "install" /\ dhead' = lh /\ ~panicked
        /\ UNCHANGED <<lh, cache, home, dlog, pc>>
    BY <1>6, Zenon DEF write_head
  <2>2. Mem = cache /\ Mem' = Mem /\ InOp' = InOp
    BY <2>1, Zenon DEF Mem, InOp, Recovery
  <2>3. InOp = {}
    BY <2>1, InOpFinite, Zenon DEF LogInv, Control
  <2>4. \A b \in Block : Stable'[b] = cache[b]
    <3> SUFFICES ASSUME NEW b \in Block
                 PROVE  Stable'[b] = cache[b]
      BY Zenon
    <3>1. CASE b \in Range(lh)
      <4>1. PICK i \in Entry(lh) : lh[i] = b
        BY <3>1, RangeSeq, Zenon DEF LogInv, TypeOK
      <4>2. (CHOOSE j \in 1 .. Len(lh) : lh[j] = b) = i
        BY <4>1, Zenon DEF LogInv, Header, NoRepeat, Entry
      <4>3. dlog[i] = cache[lh[i]]
        BY <2>1 DEF LogInv, Contents, Logged, Entry, TypeOK
      <4> QED
        BY <2>1, <3>1, <4>1, <4>2, <4>3, Zenon DEF Stable
    <3>2. CASE b \notin Range(lh)
      BY <2>1, <3>2, Zenon DEF Stable, LogInv, Contents, Clean
    <3> QED
      BY <3>1, <3>2, Zenon
  <2>5. Stable' = cache
    BY <2>4, Zenon DEF Stable, LogInv, TypeOK
  <2>6. Atomic!Commit
    BY <2>2, <2>3, <2>5, Zenon DEF Atomic!Commit, Mem, InOp
  <2> QED
    BY <2>6, Zenon DEF Atomic!Next
<1>7. CASE install_trans("install", "clear", 1) \/ install_trans("recover", "recover_clear", 0)
  BY <1>7, InstallKeeps, Zenon
<1>8. CASE clear("clear", "done") \/ clear("recover_clear", "none")
  <2>1. /\ dhead' = <<>> /\ UNCHANGED <<cache, home, dlog, pc>>
        /\ phase \in {"clear", "recover_clear"} /\ phase' \in {"done", "none"}
    BY <1>8, Zenon DEF clear
  <2>2. Stable = home
    <3>1. dhead = lh /\ \A i \in Entry(lh) : home[lh[i]] = dlog[i]
      BY <2>1 DEF LogInv, Header, Contents, Installed, Entry, TypeOK
    <3> QED
      BY <3>1, StableHome, Zenon
  <2>3. Stable' = home
    <3>1. Stable' = [b \in Block |-> home[b]]
      BY <2>1 DEF Stable, Range
    <3> QED
      BY <3>1, Zenon DEF LogInv, TypeOK
  <2>4. phase \in Recovery => cache = home
    BY Zenon DEF LogInv, Contents
  <2> QED
    BY <2>1, <2>2, <2>3, <2>4, Zenon DEF Mem, InOp, Recovery
<1>9. ASSUME NEW p \in Proc, end_commit(p)
      PROVE  Mem' = Mem /\ Stable' = Stable /\ InOp' = InOp
  BY <1>0, <1>9, Zenon DEF end_commit, disk, wakeup, Mem, InOp, Recovery, LogInv, TypeOK
<1>10. CASE read_head
  BY <1>0, <1>10, Zenon DEF read_head, disk, Mem, InOp, Recovery
<1>11. CASE crash
  <2>1. Mem' = Stable /\ Stable' = Stable /\ InOp' = {}
    BY <1>0, <1>11, Zenon DEF crash, disk, Mem, InOp, Recovery
  <2>2. Atomic!Crash
    BY <2>1, Zenon DEF Atomic!Crash, Mem, InOp
  <2> QED
    BY <2>2, Zenon DEF Atomic!Next
<1>12. ASSUME NEW b \in Block, Recycle(b)
       PROVE  Mem' = Mem /\ Stable' = Stable /\ InOp' = InOp
  <2>1. cache' = cache
    BY <1>12, RecycleKeeps, Zenon DEF Recycle, LogInv, TypeOK
  <2> QED
    BY <1>0, <1>12, <2>1, Zenon DEF Recycle, disk, Mem, InOp
<1>13. CASE commit \/ recover_from_log
  BY <1>5, <1>6, <1>7, <1>8, <1>9, <1>10, <1>13, Zenon DEF commit, recover_from_log
<1> QED
  BY <1>1, <1>2, <1>3, <1>4, <1>11, <1>12, <1>13, Zenon DEF Next

\* FS system calls are atomic with respect to crashes, wherever in a commit or a recovery the
\* machine stops: Log implements AtomicDisk.
THEOREM LogAtomic == Spec => ImplementsAtomicDisk
<1>1. Init => Atomic!Init
  <2> SUFFICES ASSUME Init
               PROVE  Atomic!Init
    BY Zenon
  <2>1. Stable = [b \in Block |-> Zero] /\ InOp = {}
    BY DEF Init, Stable, Range, InOp
  <2> QED
    BY <2>1, Zenon DEF Init, Atomic!Init, InOp, Recovery
<1> QED
  BY <1>1, LogInit, LogStep, AtomicStep, PTL DEF Spec, ImplementsAtomicDisk, Atomic!Spec


-----------------------------------------------------------------------------
(* The reservation of begin_op. *)

\* The elements of a set of at most n can be numbered from 1 to n.
LEMMA Numbering ==
    ASSUME NEW S, IsFiniteSet(S), NEW n \in Nat, Cardinality(S) <= n
    PROVE  \E g \in [S -> 1 .. n] : \A x, y \in S : g[x] = g[y] => x = y
<1> DEFINE k == Cardinality(S)
<1>1. k \in Nat /\ ExistsBijection(1 .. k, S)
  BY FS_CardinalityType, Zenon
<1> HIDE DEF k
<1>2. PICK f \in [1 .. k -> S] : \A x \in S : \E i \in 1 .. k : f[i] = x
  BY <1>1, Zenon DEF ExistsBijection, Bijection, Surjection, Injection
<1> DEFINE g == [x \in S |-> CHOOSE i \in 1 .. k : f[i] = x]
<1>3. \A x \in S : g[x] \in 1 .. k /\ f[g[x]] = x
  BY <1>2, Zenon
<1>4. g \in [S -> 1 .. n]
  BY <1>1, <1>3 DEF k
<1>5. \A x, y \in S : g[x] = g[y] => x = y
  BY <1>3, Zenon
<1> HIDE DEF g
<1> QED
  BY <1>4, <1>5, Zenon

\* The calls in progress have written at most OPBLOCKS blocks each.
LEMMA WritesBound ==
    ASSUME LogInv, Reserved
    PROVE  /\ IsFiniteSet(Writes) /\ Cardinality(Writes) \in Nat
           /\ Cardinality(Writes) <= outstanding * OPBLOCKS
<1> DEFINE num == [p \in Proc |-> CHOOSE g \in [written[p] -> 1 .. OPBLOCKS] :
                                      \A x, y \in written[p] : g[x] = g[y] => x = y]
           T   == InOp \X (1 .. OPBLOCKS)
           f   == [w \in Writes |-> <<w[1], num[w[1]][w[2]]>>]
<1>1. \A p \in Proc : /\ num[p] \in [written[p] -> 1 .. OPBLOCKS]
                      /\ \A x, y \in written[p] : num[p][x] = num[p][y] => x = y
  <2> SUFFICES ASSUME NEW p \in Proc
               PROVE  \E g \in [written[p] -> 1 .. OPBLOCKS] : \A x, y \in written[p] : g[x] = g[y] => x = y
    BY Zenon
  <2>1. IsFiniteSet(written[p])
    BY LogAssumption, FS_Subset, Zenon DEF LogInv, TypeOK
  <2> QED
    BY <2>1, LogAssumption, Numbering DEF Reserved
<1> HIDE DEF num
<1>2. ASSUME NEW w \in Writes
      PROVE  w[1] \in InOp /\ w[2] \in written[w[1]] /\ w = <<w[1], w[2]>>
  <2>1. w \in Proc \X Block /\ w[2] \in written[w[1]]
    BY <1>2, Zenon DEF Writes
  <2>2. w[1] \in Proc /\ w = <<w[1], w[2]>>
    BY <2>1
  <2>3. pc[w[1]] = "in"
    BY <2>1, <2>2, Zenon DEF Reserved
  <2> QED
    BY <2>1, <2>2, <2>3, Zenon DEF InOp
<1>3. f \in [Writes -> T]
  BY <1>1, <1>2 DEF InOp
<1>4. ASSUME NEW w \in Writes, NEW x \in Writes, f[w] = f[x]
      PROVE  w = x
  <2>1. w[1] = x[1] /\ num[w[1]][w[2]] = num[x[1]][x[2]]
    BY <1>4, Zenon
  <2> QED
    BY <1>1, <1>2, <2>1 DEF InOp
<1>5. f \in Injection(Writes, T)
  BY <1>3, <1>4, Zenon DEF Injection, IsInjective
<1>6. IsFiniteSet(1 .. OPBLOCKS) /\ Cardinality(1 .. OPBLOCKS) = OPBLOCKS
  BY LogAssumption, FS_Interval
<1>7. IsFiniteSet(T) /\ Cardinality(T) = outstanding * OPBLOCKS
  <2>1. IsFiniteSet(T) /\ Cardinality(T) = Cardinality(InOp) * Cardinality(1 .. OPBLOCKS)
    BY <1>6, InOpFinite, FS_Product, Zenon
  <2>2. outstanding = Cardinality(InOp)
    BY Zenon DEF LogInv, Control
  <2> QED
    BY <1>6, <2>1, <2>2, Zenon
<1> HIDE DEF f, T
<1> QED
  BY <1>5, <1>7, FS_Injection, FS_CardinalityType

\* With fewer blocks a call than begin_op reserves, no log_write finds the log full.
LEMMA RoomToWrite ==
    ASSUME LogInv, Reserved, OPBLOCKS < MAXOPBLOCKS, NEW p \in Proc, pc[p] = "in"
    PROVE  Len(lh) < LOGBLOCKS
<1> DEFINE W == Cardinality(Writes)
<1>1. phase = "none" /\ outstanding \in Nat /\ outstanding > 0
  BY InCall, Zenon
<1>2. W \in Nat /\ W <= outstanding * OPBLOCKS /\ Len(lh) + outstanding * MAXOPBLOCKS <= LOGBLOCKS + W
  BY <1>1, WritesBound, Zenon DEF Reserved
<1>3. Len(lh) \in Nat /\ LOGBLOCKS \in Nat /\ OPBLOCKS \in Nat /\ MAXOPBLOCKS \in Nat
  BY LogAssumption DEF LogInv, TypeOK
<1> HIDE DEF W
<1>4. outstanding * OPBLOCKS < outstanding * MAXOPBLOCKS
  BY <1>1, <1>3
<1> QED
  BY <1>2, <1>3, <1>4, <1>1


\* A step of a commit or of a recovery: no call is in progress, nothing is reserved.
LEMMA ReservedQuiet ==
    ASSUME LogInv, Reserved, phase # "none", UNCHANGED <<written, panicked>>,
           phase' = "none" => lh' = <<>> /\ outstanding' = 0
    PROVE  Reserved'
<1>1. InOp = {}
  BY InOpFinite, Zenon DEF LogInv, Control
<1>2. \A p \in Proc : written[p] = {}
  BY <1>1, Zenon DEF Reserved, InOp
<1>3. Writes' = {}
  BY <1>2, Zenon DEF Writes
<1>4. Cardinality({}) = 0
  BY FS_EmptySet, Zenon
<1>5. phase' = "none" => Len(lh)' + outstanding' * MAXOPBLOCKS <= LOGBLOCKS + Cardinality(Writes)'
  BY <1>3, <1>4, LogAssumption
<1> QED
  BY <1>2, <1>4, <1>5, LogAssumption, Zenon DEF Reserved

\* begin_op admits a call when MAXOPBLOCKS entries are left for it.
LEMMA ReservedBegin ==
    ASSUME LogInv, Reserved, NEW p \in Proc, begin_op(p)
    PROVE  Reserved'
<1>1. UNCHANGED <<lh, written, phase, panicked>>
  BY Zenon DEF begin_op
<1>2. Writes' = Writes /\ Cardinality(Writes) \in Nat
  BY <1>1, WritesBound, Zenon DEF Writes
<1>3. \A q \in Proc : pc[q] = "in" => pc'[q] = "in"
  BY Zenon DEF begin_op, LogInv, TypeOK
<1>4. phase = "none" => Len(lh) + outstanding' * MAXOPBLOCKS <= LOGBLOCKS + Cardinality(Writes)
  <2>1. CASE committing \/ NoSpace
    BY <2>1, Zenon DEF begin_op, Reserved
  <2>2. CASE ~(committing \/ NoSpace)
    <3>1. outstanding' = outstanding + 1
      BY <2>2, Zenon DEF begin_op
    <3>2. Len(lh) \in Nat /\ outstanding \in Nat
      BY InOpFinite DEF LogInv, TypeOK, Control
    <3>3. Len(lh) + outstanding' * MAXOPBLOCKS <= LOGBLOCKS
      BY <2>2, <3>1, <3>2, LogAssumption DEF NoSpace
    <3>4. outstanding' * MAXOPBLOCKS \in Nat
      BY <3>1, <3>2, LogAssumption
    <3> QED
      BY <1>2, <3>2, <3>3, <3>4, LogAssumption
  <2> QED
    BY <2>1, <2>2, Zenon
<1> QED
  BY <1>1, <1>2, <1>3, <1>4, Zenon DEF Reserved

\* log_write uses an entry of its call, unless the block is in the log already.
LEMMA ReservedWrite ==
    ASSUME LogInv, Reserved, OPBLOCKS < MAXOPBLOCKS,
           NEW p \in Proc, NEW b \in Block, NEW v \in Val, log_write(p, b, v)
    PROVE  Reserved'
<1>1. Len(lh) < LOGBLOCKS /\ phase = "none" /\ pc[p] = "in" /\ outstanding \in Nat
  BY RoomToWrite, InCall, Zenon DEF log_write
<1>2. lh \in Seq(Block) /\ Len(lh) \in Nat
  BY DEF LogInv, TypeOK
<1>3. /\ written' = [written EXCEPT ![p] = @ \cup {b}] /\ UNCHANGED <<outstanding, pc, phase, panicked>>
      /\ lh' = IF b \in Range(lh) THEN lh ELSE Append(lh, b)
      /\ Cardinality(written[p] \cup {b}) <= OPBLOCKS
  BY <1>1, <1>2, LogAssumption DEF log_write
<1>4. lh' \in Seq(Block) /\ Range(lh') = Range(lh) \cup {b}
  <2>1. CASE b \in Range(lh)
    BY <1>2, <1>3, <2>1, Zenon
  <2>2. CASE b \notin Range(lh)
    <3>1. lh' = Append(lh, b) /\ lh' \in Seq(Block)
      BY <1>2, <1>3, <2>2
    <3>2. Len(lh') = Len(lh) + 1 /\ lh'[Len(lh) + 1] = b /\ \A i \in Entry(lh) : lh'[i] = lh[i]
      BY <1>2, <3>1 DEF Entry
    <3>3. \A c : c \in Range(lh') <=> \E i \in Entry(lh') : lh'[i] = c
      BY <3>1, RangeSeq, Zenon
    <3>4. \A c : c \in Range(lh) <=> \E i \in Entry(lh) : lh[i] = c
      BY <1>2, RangeSeq, Zenon
    <3>5. \A c : c \in Range(lh') <=> c \in Range(lh) \cup {b}
      BY <1>2, <3>2, <3>3, <3>4 DEF Entry
    <3> QED
      BY <3>1, <3>5, Zenon
  <2> QED
    BY <2>1, <2>2, Zenon
<1>5. \A q \in Proc : written'[q] = IF q = p THEN written[p] \cup {b} ELSE written[q]
  BY <1>3, Zenon DEF LogInv, TypeOK
<1>6. \A q \in Proc : written'[q] \subseteq Range(lh') /\ Cardinality(written'[q]) <= OPBLOCKS
  <2>1. \A q \in Proc : written[q] \subseteq Range(lh) /\ Cardinality(written[q]) <= OPBLOCKS
    BY Zenon DEF Reserved
  <2>2. \A q \in Proc : written'[q] \subseteq Range(lh')
    BY <1>4, <1>5, <2>1, Zenon
  <2>3. \A q \in Proc : Cardinality(written'[q]) <= OPBLOCKS
    BY <1>3, <1>5, <2>1, Zenon
  <2> QED
    BY <2>2, <2>3, Zenon
<1>7. Writes' = Writes \cup {<<p, b>>}
  BY <1>5 DEF Writes
<1>8. IsFiniteSet(Writes) /\ Cardinality(Writes) \in Nat
  BY WritesBound, Zenon
<1>9. Len(lh') + outstanding * MAXOPBLOCKS <= LOGBLOCKS + Cardinality(Writes')
  <2> DEFINE K == outstanding * MAXOPBLOCKS
  <2>1. K \in Nat /\ Len(lh) + K <= LOGBLOCKS + Cardinality(Writes)
    BY <1>1, LogAssumption DEF Reserved
  <2> HIDE DEF K
  <2>2. CASE b \in Range(lh)
    <3>1. Cardinality(Writes') = IF <<p, b>> \in Writes THEN Cardinality(Writes) ELSE Cardinality(Writes) + 1
      BY <1>7, <1>8, FS_AddElement, Zenon
    <3> QED
      BY <1>2, <1>3, <1>8, <2>1, <2>2, <3>1, LogAssumption DEF K
  <2>3. CASE b \notin Range(lh)
    <3>1. <<p, b>> \notin Writes
      BY <2>3, Zenon DEF Writes, Reserved
    <3>2. Cardinality(Writes') = Cardinality(Writes) + 1
      BY <1>7, <1>8, <3>1, FS_AddElement, Zenon
    <3>3. Len(lh') = Len(lh) + 1
      BY <1>2, <1>3, <2>3
    <3> QED
      BY <1>2, <1>8, <2>1, <3>2, <3>3, LogAssumption DEF K
  <2> QED
    BY <2>2, <2>3, Zenon
<1>10. \A q \in Proc : written'[q] # {} => pc'[q] = "in"
  BY <1>1, <1>3, <1>5, Zenon DEF Reserved
<1> QED
  BY <1>3, <1>6, <1>9, <1>10, Zenon DEF Reserved


\* end_op gives back what its call reserved, and the at most OPBLOCKS entries it used stay.
LEMMA ReservedEnd ==
    ASSUME LogInv, Reserved, NEW p \in Proc, end_op(p)
    PROVE  Reserved'
<1>1. phase = "none" /\ ~committing /\ outstanding \in Nat /\ outstanding > 0
  BY InCall, Zenon DEF end_op
<1>2. /\ outstanding' = outstanding - 1 /\ written' = [written EXCEPT ![p] = {}]
      /\ UNCHANGED <<lh, panicked>>
  BY <1>1, Zenon DEF end_op
<1>3. \A q \in Proc : written'[q] = IF q = p THEN {} ELSE written[q]
  BY <1>2, Zenon DEF LogInv, TypeOK
<1>4. \A q \in Proc \ {p} : pc[q] = "in" => pc'[q] = "in"
  BY <1>1, Zenon DEF end_op, wakeup, LogInv, TypeOK
<1>5. Cardinality({}) = 0
  BY FS_EmptySet, Zenon
<1>6. \A q \in Proc : /\ written'[q] \subseteq Range(lh) /\ Cardinality(written'[q]) <= OPBLOCKS
                      /\ written'[q] # {} => pc'[q] = "in"
  <2>1. \A q \in Proc : /\ written[q] \subseteq Range(lh) /\ Cardinality(written[q]) <= OPBLOCKS
                        /\ written[q] # {} => pc[q] = "in"
    BY Zenon DEF Reserved
  <2>2. Cardinality({}) <= OPBLOCKS
    BY <1>5, LogAssumption
  <2>3. \A q \in Proc : q # p => written'[q] = written[q]
    BY <1>3, Zenon
  <2>4. written'[p] = {}
    BY <1>3, Zenon
  <2> QED
    BY <1>4, <2>1, <2>2, <2>3, <2>4, Zenon
<1>7. Len(lh) + outstanding' * MAXOPBLOCKS <= LOGBLOCKS + Cardinality(Writes')
  <2> DEFINE W == Cardinality(Writes)
             X == Cardinality(Writes')
             own == {p} \X written[p]
  <2>1. IsFiniteSet(written[p]) /\ Cardinality(written[p]) <= OPBLOCKS /\ Cardinality(written[p]) \in Nat
    BY LogAssumption, FS_Subset, FS_CardinalityType, Zenon DEF LogInv, TypeOK, Reserved
  <2>2. IsFiniteSet({p}) /\ Cardinality({p}) = 1
    BY FS_Singleton, Zenon
  <2>3. IsFiniteSet(own) /\ Cardinality(own) = Cardinality({p}) * Cardinality(written[p])
    BY <2>1, <2>2, FS_Product, Zenon
  <2>4. Cardinality(own) <= OPBLOCKS /\ Cardinality(own) \in Nat
    BY <2>1, <2>2, <2>3
  <2>5. IsFiniteSet(Writes) /\ W \in Nat /\ Writes' \in SUBSET Writes
    BY <1>3, WritesBound, Zenon DEF Writes
  <2>6. IsFiniteSet(Writes') /\ X \in Nat
    BY <2>5, FS_Subset, FS_CardinalityType, Zenon
  <2>7. Writes = Writes' \cup own /\ Writes' \cap own = {}
    BY <1>3, Zenon DEF Writes, LogInv, TypeOK
  <2>8. W = X + Cardinality(own)
    <3>1. Cardinality(Writes' \cup own) = X + Cardinality(own) - Cardinality(Writes' \cap own)
      BY <2>3, <2>6, FS_Union, Zenon
    <3>2. Cardinality(Writes' \cap own) = 0
      BY <1>5, <2>7, Zenon
    <3>3. W = Cardinality(Writes' \cup own)
      BY <2>7, Zenon
    <3> HIDE DEF W, X, own
    <3> QED
      BY <2>4, <2>6, <3>1, <3>2, <3>3
  <2>9. Len(lh) + outstanding * MAXOPBLOCKS <= LOGBLOCKS + W /\ Len(lh) \in Nat
    BY <1>1 DEF Reserved, LogInv, TypeOK
  <2>10. outstanding' * MAXOPBLOCKS = outstanding * MAXOPBLOCKS - MAXOPBLOCKS /\ outstanding * MAXOPBLOCKS \in Nat
    BY <1>1, <1>2, LogAssumption
  <2> HIDE DEF W, X, own
  <2> QED
    BY <2>4, <2>6, <2>8, <2>9, <2>10, LogAssumption DEF X
<1> QED
  BY <1>2, <1>6, <1>7, Zenon DEF Reserved

\* Every step keeps the reservation, if the calls write fewer blocks than begin_op reserves.
LEMMA ReservedStep == OPBLOCKS < MAXOPBLOCKS /\ LogInv /\ Reserved /\ [Next]_vars => Reserved'
<1> SUFFICES ASSUME OPBLOCKS < MAXOPBLOCKS, LogInv, Reserved, [Next]_vars
             PROVE  Reserved'
  BY Zenon
<1>1. CASE UNCHANGED vars
  BY <1>1, Zenon DEF vars, disk, Reserved, Writes
<1>2. CASE commit
  <2>1. phase # "none" /\ UNCHANGED <<written, panicked, outstanding>>
        /\ (phase' = "none" => phase = "done" /\ lh' = lh)
    BY <1>2, Zenon DEF commit, write_log, write_head, install_trans, clear, end_commit, LoopTo
  <2>2. phase' = "none" => lh' = <<>> /\ outstanding' = 0
    BY <2>1, Zenon DEF LogInv, Control
  <2> QED
    BY <2>1, <2>2, ReservedQuiet, Zenon
<1>3. CASE recover_from_log
  <2>1. phase # "none" /\ UNCHANGED <<written, panicked, outstanding>> /\ (phase' = "none" => lh' = <<>>)
    BY <1>3, Zenon DEF recover_from_log, read_head, install_trans, clear, LoopTo
  <2>2. outstanding = 0
    BY <2>1, Zenon DEF LogInv, Control
  <2> QED
    BY <2>1, <2>2, ReservedQuiet, Zenon
<1>4. CASE crash
  <2>1. written' = [p \in Proc |-> {}] /\ phase' = "read_head" /\ UNCHANGED panicked
    BY <1>4, Zenon DEF crash
  <2>2. Cardinality({}) = 0
    BY FS_EmptySet, Zenon
  <2>3. Cardinality({}) <= OPBLOCKS
    BY <2>2, LogAssumption
  <2>4. \A p \in Proc : written'[p] = {}
    BY <2>1, Zenon
  <2>5. phase' # "none" /\ ~panicked'
    BY <2>1, Zenon DEF Reserved
  <2> QED
    BY <2>3, <2>4, <2>5, Zenon DEF Reserved
<1>5. ASSUME NEW b \in Block, Recycle(b)
      PROVE  Reserved'
  BY <1>5, Zenon DEF Recycle, Reserved, Writes
<1> QED
  BY <1>1, <1>2, <1>3, <1>4, <1>5, ReservedBegin, ReservedWrite, ReservedEnd, Zenon DEF Next

\* When every system call writes fewer than MAXOPBLOCKS different blocks (one more than it
\* writes is what log_write's test needs), begin_op's test leaves room for every log_write of every admitted call,
\* and no end_op meets a commit: log.c never panics.
THEOREM LogNeverPanics == OPBLOCKS < MAXOPBLOCKS => (Spec => []NoPanic)
<1>1. Init => Reserved
  <2> SUFFICES ASSUME Init
               PROVE  Reserved
    BY Zenon
  <2>1. written = [p \in Proc |-> {}] /\ phase = "read_head" /\ ~panicked
    BY Zenon DEF Init
  <2>2. Cardinality({}) = 0
    BY FS_EmptySet, Zenon
  <2> QED
    BY <2>1, <2>2, LogAssumption DEF Reserved
<1>2. Reserved => NoPanic
  BY Zenon DEF Reserved, NoPanic
<1> SUFFICES ASSUME OPBLOCKS < MAXOPBLOCKS
             PROVE  Spec => []NoPanic
  BY Zenon
<1>3. LogInv /\ Reserved /\ [Next]_vars => Reserved'
  BY ReservedStep, Zenon
<1> QED
  BY <1>1, <1>2, <1>3, LogInit, LogStep, PTL DEF Spec
=============================================================================
