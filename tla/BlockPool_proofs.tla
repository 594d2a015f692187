---------------------------- MODULE BlockPool_proofs ----------------------------
(***************************************************************************)
(* Theorems about BlockPool, for every number of hardware threads, every   *)
(* size of a block and every length of the file.                           *)
(***************************************************************************)
EXTENDS BlockPool, SequenceTheorems, WellFoundedInduction, TLAPS

\* A worker has its four fields.
IsWorker(worker) ==
  worker = [future |-> worker.future, size |-> worker.size,
            in_block |-> worker.in_block, out_block |-> worker.out_block]

Pool ==
  /\ hardware \in Nat /\ w \in Nat \ {0}
  /\ \E k \in Int : workers = [v \in 1 .. k |-> workers[v]]
  /\ \A v \in DOMAIN workers : IsWorker(workers[v])

\* Who may have a task: while blocks are read only the workers that were given
\* one, while results are collected only those whose turn has not come.
Rounds ==
  \A v \in DOMAIN workers :
    /\ pc = "test" => workers[v].future = "idle"
    /\ pc = "fill" /\ v >= w => workers[v].future = "idle"
    /\ pc = "collect" /\ v < w => workers[v].future = "idle"

PoolInv == Pool /\ Rounds

\* The action of BufferOwned.
BuffersKept ==
  \A v \in DOMAIN workers :
    workers[v].future = "running" =>
      v \in DOMAIN workers' /\ workers'[v].in_block = workers[v].in_block

-------------------------------------------------------------------------------
(* The pool.                                                                  *)

\* Changing one worker leaves the pool a pool.
LEMMA PoolExcept ==
  ASSUME Pool, NEW u, NEW worker, IsWorker(worker),
         workers' = [workers EXCEPT ![u] = worker], hardware' = hardware, w' \in Nat \ {0}
  PROVE  Pool' /\ DOMAIN workers' = DOMAIN workers
<1>1. PICK k \in Int : workers = [v \in 1 .. k |-> workers[v]]
  BY DEF Pool
<1>2. workers' = [v \in 1 .. k |-> workers'[v]] /\ DOMAIN workers' = 1 .. k /\ DOMAIN workers = 1 .. k
  BY <1>1
<1>3. \A v \in 1 .. k : IsWorker(workers'[v])
  BY <1>1, <1>2 DEF Pool
<1> QED BY <1>2, <1>3 DEF Pool

\* Making the workers of either direction: none has a task.
LEMMA PoolMade ==
  ASSUME NEW d, hardware \in Nat, hardware' = hardware, Open(d)
  PROVE  PoolInv' /\ pc' = "test"
<1>1. core_number(d) \in Int
  BY DEF core_number, CompressWorkers, DecompressWorkers, get_cores
<1>2. workers' = [v \in 1 .. core_number(d) |-> NewWorker] /\ w' = 1 /\ pc' = "test"
  BY DEF Open
<1>3. Pool'
  BY <1>1, <1>2 DEF Pool, IsWorker, NewWorker
<1>4. \A v \in DOMAIN workers' : workers'[v].future = "idle"
  BY <1>2 DEF NewWorker
<1> QED BY <1>2, <1>3, <1>4 DEF PoolInv, Rounds

\* A turn of the reading loop, for either direction: the worker it has come to
\* has no task, and the buffers of the others stay as they are.
LEMMA FillKeeps ==
  ASSUME PoolInv, pc = "fill", pc' = pc, w \in DOMAIN workers, w' = w + 1, hardware' = hardware,
         NEW data, NEW bytes,
         workers' = [workers EXCEPT ![w] = Start(Loaded(@, data), bytes)]
  PROVE  PoolInv' /\ BuffersKept
<1> DEFINE worker == Start(Loaded(workers[w], data), bytes)
<1>1. IsWorker(workers[w]) /\ w \in Nat \ {0}
  BY DEF PoolInv, Pool
<1>2. IsWorker(worker)
  BY <1>1 DEF IsWorker, Start, Loaded
<1>3. workers' = [workers EXCEPT ![w] = worker]
  OBVIOUS
<1> HIDE DEF worker
<1>4. Pool' /\ DOMAIN workers' = DOMAIN workers
  <2>1. w' \in Nat \ {0}
    BY <1>1
  <2> QED BY <1>2, <1>3, <2>1, PoolExcept DEF PoolInv
<1>5. \A v \in DOMAIN workers : v # w => workers'[v] = workers[v]
  BY <1>3, <1>4
<1>6. workers[w].future = "idle"
  BY <1>1 DEF PoolInv, Rounds
<1>7. DOMAIN workers \subseteq Int
  BY DEF PoolInv, Pool
<1>8. Rounds'
  BY <1>1, <1>4, <1>5, <1>7 DEF PoolInv, Rounds
<1>9. BuffersKept
  BY <1>4, <1>5, <1>6 DEF BuffersKept
<1> QED BY <1>4, <1>8, <1>9 DEF PoolInv

-------------------------------------------------------------------------------
(* The steps.                                                                 *)

\* No task has been started.
LEMMA PoolInvInit == Init => PoolInv
<1> SUFFICES ASSUME Init PROVE PoolInv
  OBVIOUS
<1>1. hardware \in Nat
  BY PoolAssumption DEF Init
<1>2. core_number("compress") \in Int
  BY <1>1 DEF core_number, CompressWorkers, get_cores
<1>3. workers = [v \in 1 .. core_number("compress") |-> NewWorker] /\ w = 1 /\ pc = "test"
  BY DEF Init
<1> QED BY <1>1, <1>2, <1>3 DEF PoolInv, Pool, Rounds, IsWorker, NewWorker

\* A round begins, or the other direction does: no task is left.
LEMMA TestKeeps == PoolInv /\ Test => PoolInv' /\ BuffersKept
<1> SUFFICES ASSUME PoolInv, Test PROVE PoolInv' /\ BuffersKept
  OBVIOUS
<1>1. hardware \in Nat /\ hardware' = hardware /\ pc = "test"
  BY DEF Test, fixed, PoolInv, Pool
<1>2. BuffersKept
  BY <1>1 DEF PoolInv, Rounds, BuffersKept
<1>3. CASE pc' = "fill" /\ w' = 1 /\ UNCHANGED workers
  <2>1. Pool'
    BY <1>1, <1>3 DEF PoolInv, Pool
  <2> QED BY <1>1, <1>2, <1>3, <2>1 DEF PoolInv, Rounds
<1>4. CASE Open("decompress")
  BY <1>1, <1>2, <1>4, PoolMade
<1>5. CASE UNCHANGED <<pc, w, workers>>
  <2>1. Pool'
    BY <1>1, <1>5 DEF PoolInv, Pool
  <2> QED BY <1>1, <1>2, <1>5, <2>1 DEF PoolInv, Rounds
<1> QED BY <1>2, <1>3, <1>4, <1>5 DEF Test

\* Either inner loop is over: it has come past every worker.
LEMMA NextLoopKeeps == PoolInv /\ NextLoop => PoolInv' /\ BuffersKept
<1> SUFFICES ASSUME PoolInv, NextLoop PROVE PoolInv' /\ BuffersKept
  OBVIOUS
<1>1. /\ pc \in {"fill", "collect"} /\ w \notin DOMAIN workers
      /\ pc' = (IF pc = "fill" THEN "collect" ELSE "test") /\ w' = 1
      /\ workers' = workers /\ hardware' = hardware
  BY DEF NextLoop, fixed
<1>2. PICK k \in Int : DOMAIN workers = 1 .. k
  BY DEF PoolInv, Pool
<1>3. \A v \in DOMAIN workers : v < w /\ v >= 1
  BY <1>1, <1>2 DEF PoolInv, Pool
<1>4. Pool'
  BY <1>1 DEF PoolInv, Pool
<1>5. Rounds'
  BY <1>1, <1>2, <1>3 DEF PoolInv, Rounds
<1>6. BuffersKept
  BY <1>1 DEF BuffersKept
<1> QED BY <1>4, <1>5, <1>6 DEF PoolInv

\* A result is collected; the loop goes past a worker only when it has no task.
LEMMA GetKeeps == PoolInv /\ Get => PoolInv' /\ BuffersKept
<1> SUFFICES ASSUME PoolInv, Get PROVE PoolInv' /\ BuffersKept
  OBVIOUS
<1> USE DEF Get, GetPast
<1>1. pc = "collect" /\ pc' = pc /\ w \in DOMAIN workers /\ w' = w + 1 /\ hardware' = hardware
  OBVIOUS
<1>2. w \in Nat \ {0} /\ IsWorker(workers[w]) /\ DOMAIN workers \subseteq Int
  BY <1>1 DEF PoolInv, Pool
<1>3. CASE workers' = [workers EXCEPT ![w].future = "idle"]
  <2> DEFINE worker == [workers[w] EXCEPT !.future = "idle"]
  <2>1. IsWorker(worker) /\ worker.future = "idle" /\ worker.in_block = workers[w].in_block
    BY <1>2 DEF IsWorker
  <2>2. workers' = [workers EXCEPT ![w] = worker]
    BY <1>3
  <2> HIDE DEF worker
  <2>3. Pool' /\ DOMAIN workers' = DOMAIN workers
    <3>1. w' \in Nat \ {0}
      BY <1>1, <1>2
    <3> QED BY <1>1, <2>1, <2>2, <3>1, PoolExcept DEF PoolInv
  <2>4. \A v \in DOMAIN workers : workers'[v] = IF v = w THEN worker ELSE workers[v]
    BY <2>2, <2>3
  <2>5. Rounds'
    BY <1>1, <1>2, <2>1, <2>3, <2>4 DEF PoolInv, Rounds
  <2>6. BuffersKept
    BY <2>1, <2>3, <2>4 DEF BuffersKept
  <2> QED BY <2>3, <2>5, <2>6 DEF PoolInv
<1>4. CASE workers[w].future = "idle" /\ workers' = workers
  <2>1. Pool'
    BY <1>1, <1>2, <1>4 DEF PoolInv, Pool
  <2>2. Rounds'
    BY <1>1, <1>2, <1>4 DEF PoolInv, Rounds
  <2>3. BuffersKept
    BY <1>4 DEF BuffersKept
  <2> QED BY <2>1, <2>2, <2>3 DEF PoolInv
<1> QED BY <1>3, <1>4

\* A task ends: it leaves its input alone, and has a result.
LEMMA FinishKeeps == ASSUME PoolInv, NEW u, Finish(u) PROVE PoolInv' /\ BuffersKept
<1>1. /\ u \in DOMAIN workers /\ workers[u].future = "running"
      /\ UNCHANGED <<hardware, pc, w>> /\ w \in Nat \ {0} /\ IsWorker(workers[u])
  BY DEF Finish, PoolInv, Pool
<1> DEFINE block == SubSeq(workers[u].in_block, 1, workers[u].size)
           worker == [workers[u] EXCEPT !.future = "ready", !.out_block = block]
<1>2. workers' = [workers EXCEPT ![u] = worker]
  BY <1>1 DEF Finish
<1> HIDE DEF block
<1>3. IsWorker(worker) /\ worker.in_block = workers[u].in_block
  <2>1. PICK f, n, in, o : workers[u] = [future |-> f, size |-> n, in_block |-> in, out_block |-> o]
    BY <1>1 DEF IsWorker
  <2>2. worker = [future |-> "ready", size |-> n, in_block |-> in, out_block |-> block]
    <3>1. PICK ended : ended = [workers[u] EXCEPT !.future = "ready"]
      OBVIOUS
    <3>2. ended = [future |-> "ready", size |-> n, in_block |-> in, out_block |-> o]
      BY <2>1, <3>1
    <3>3. worker = [ended EXCEPT !.out_block = block]
      BY <3>1
    <3> HIDE DEF worker
    <3> QED BY <3>2, <3>3
  <2> QED BY <2>1, <2>2 DEF IsWorker
<1> HIDE DEF worker
<1>4. Pool' /\ DOMAIN workers' = DOMAIN workers
  BY <1>1, <1>2, <1>3, PoolExcept DEF PoolInv
<1>5. \A v \in DOMAIN workers : workers'[v] = IF v = u THEN worker ELSE workers[v]
  BY <1>2, <1>4
<1>6. Rounds'
  BY <1>1, <1>4, <1>5 DEF PoolInv, Rounds
<1>7. BuffersKept
  BY <1>3, <1>4, <1>5 DEF BuffersKept
<1> QED BY <1>4, <1>6, <1>7 DEF PoolInv

\* Every step keeps the invariant, and the buffers.
LEMMA PoolInvStep == PoolInv /\ [Next]_vars => PoolInv' /\ (BuffersKept \/ UNCHANGED vars)
<1> SUFFICES ASSUME PoolInv, [Next]_vars PROVE PoolInv' /\ (BuffersKept \/ UNCHANGED vars)
  OBVIOUS
<1>1. CASE ReadBlock
  BY <1>1, FillKeeps DEF ReadBlock, fixed
<1>2. CASE ReadArchive
  BY <1>2, FillKeeps DEF ReadArchive, fixed
<1>3. CASE Test \/ NextLoop \/ Get
  BY <1>3, TestKeeps, NextLoopKeeps, GetKeeps
<1>4. CASE \E v \in WorkerIds : Finish(v)
  BY <1>4, FinishKeeps
<1>5. CASE UNCHANGED vars
  BY <1>5 DEF PoolInv, Pool, Rounds, vars
<1> QED BY <1>1, <1>2, <1>3, <1>4, <1>5 DEF Next, Main

\* No buffer is read into while the task of its worker runs, and no worker
\* goes away with a running task, in either direction.
THEOREM BufferOwnedCorrect == Spec => BufferOwned
<1>1. Init => PoolInv
  BY PoolInvInit
<1>2. PoolInv /\ [Next]_vars => PoolInv'
  BY PoolInvStep
<1>3. PoolInv /\ [Next]_vars => [BuffersKept]_vars
  BY PoolInvStep
<1>4. Spec => [][BuffersKept]_vars
  BY <1>1, <1>2, <1>3, PTL DEF Spec
<1> QED BY <1>4 DEF BufferOwned, BuffersKept

-------------------------------------------------------------------------------
(* Sequences of blocks.                                                       *)

\* A set of naturals with 0 and closed under successor is all of Nat.
LEMMA NatSetInduction ==
  ASSUME NEW T \in SUBSET Nat, 0 \in T, \A n \in T : n + 1 \in T
  PROVE  T = Nat
<1> DEFINE R == OpToRel(<, Nat)
<1>1. IsWellFoundedOn(R, Nat)
  BY NatLessThanWellFounded
<1>2. SUFFICES ASSUME Nat \ T # {} PROVE FALSE
  OBVIOUS
<1>3. PICK x \in Nat \ T : \A y \in Nat \ T : ~ (<<y, x>> \in R)
  <2> HIDE DEF R
  <2> QED BY <1>1, <1>2, WFMin
<1>4. \A y \in Nat \ T : ~ (y < x)
  BY <1>3 DEF OpToRel
<1> HIDE DEF R
<1>5. x - 1 \in Nat /\ x - 1 < x /\ (x - 1) + 1 = x
  OBVIOUS
<1>6. x - 1 \in T
  BY <1>4, <1>5
<1> QED BY <1>5, <1>6

\* The bytes of the file behind the a-th and up to the b-th.
Segment(a, b) == [j \in 1 .. b - a |-> a + j]

\* A segment is a sequence.
LEMMA SegmentSeq ==
  ASSUME NEW a \in Nat, NEW b \in Nat, a <= b
  PROVE  Segment(a, b) \in Seq(Nat) /\ Len(Segment(a, b)) = b - a
         /\ \A j \in 1 .. b - a : Segment(a, b)[j] = a + j
<1>1. b - a \in Nat
  OBVIOUS
<1>2. \A j \in 1 .. b - a : a + j \in Nat
  OBVIOUS
<1> QED BY <1>1, <1>2 DEF Segment

\* None of it is none.
LEMMA SegmentNone ==
  ASSUME NEW a \in Nat
  PROVE  Segment(a, a) = <<>>
<1>1. a - a = 0 /\ 1 .. 0 = {}
  OBVIOUS
<1>2. Segment(a, a) \in Seq(Nat) /\ Len(Segment(a, a)) = 0
  <2>1. a <= a
    OBVIOUS
  <2> QED BY <1>1, <2>1, SegmentSeq
<1> QED BY <1>2, EmptySeq

\* Two segments that meet make one.
LEMMA SegmentConcat ==
  ASSUME NEW a \in Nat, NEW b \in Nat, NEW c \in Nat, a <= b, b <= c
  PROVE  Segment(a, b) \o Segment(b, c) = Segment(a, c)
<1>1. /\ Segment(a, b) \in Seq(Nat) /\ Len(Segment(a, b)) = b - a
      /\ Segment(b, c) \in Seq(Nat) /\ Len(Segment(b, c)) = c - b
      /\ Segment(a, c) \in Seq(Nat) /\ Len(Segment(a, c)) = c - a
  <2>1. a <= c
    OBVIOUS
  <2> QED BY <2>1, SegmentSeq
<1>2. \A j \in 1 .. b - a : Segment(a, b)[j] = a + j
  BY DEF Segment
<1>3. \A j \in 1 .. c - b : Segment(b, c)[j] = b + j
  BY DEF Segment
<1>4. \A j \in 1 .. c - a : Segment(a, c)[j] = a + j
  BY DEF Segment
<1> DEFINE both == Segment(a, b) \o Segment(b, c)
<1>5. both \in Seq(Nat) /\ Len(both) = c - a
  <2>1. both \in Seq(Nat) /\ Len(both) = Len(Segment(a, b)) + Len(Segment(b, c))
    BY <1>1, ConcatProperties
  <2> HIDE DEF both
  <2> QED BY <1>1, <2>1
<1>6. ASSUME NEW j \in 1 .. c - a PROVE both[j] = a + j
  <2>0. both[j] = IF j <= b - a THEN Segment(a, b)[j] ELSE Segment(b, c)[j - (b - a)]
    <3>1. j \in 1 .. Len(Segment(a, b)) + Len(Segment(b, c))
      BY <1>1
    <3>2. both[j] = IF j <= Len(Segment(a, b)) THEN Segment(a, b)[j]
                    ELSE Segment(b, c)[j - Len(Segment(a, b))]
      BY <1>1, <3>1, ConcatProperties
    <3> QED BY <1>1, <3>2
  <2> HIDE DEF both
  <2>1. CASE j <= b - a
    <3>1. j \in 1 .. b - a
      BY <2>1
    <3> QED BY <1>2, <2>0, <2>1, <3>1
  <2>2. CASE j > b - a
    <3>1. j - (b - a) \in 1 .. c - b /\ b + (j - (b - a)) = a + j /\ ~ (j <= b - a)
      BY <2>2
    <3> QED BY <1>3, <2>0, <3>1
  <2> QED BY <2>1, <2>2
<1> HIDE DEF both
<1>7. both = Segment(a, c)
  BY <1>1, <1>4, <1>5, <1>6, SeqEqual
<1> QED BY <1>7 DEF both

\* Taking a part of a segment.
LEMMA SegmentPart ==
  ASSUME NEW n \in Nat, NEW a \in Nat, NEW b \in Nat, a <= b, b <= n
  PROVE  SubSeq(Segment(0, n), a + 1, b) = Segment(a, b)
<1>1. \A j \in 1 .. n : Segment(0, n)[j] = j
  BY DEF Segment
<1> DEFINE part == SubSeq(Segment(0, n), a + 1, b)
<1>3. part = [j \in 1 .. b - a |-> Segment(0, n)[a + j]]
  OBVIOUS
<1>4. part = [j \in 1 .. b - a |-> a + j]
  BY <1>1, <1>3
<1> QED BY <1>4 DEF Segment

\* The archive's blocks are segments that follow each other; cut says where
\* each ends.
Laid(blocks, cut) ==
  /\ cut[0] = 0
  /\ \A i \in 1 .. Len(blocks) :
       cut[i - 1] < cut[i] /\ blocks[i] = Segment(cut[i - 1], cut[i])

\* The ends of the blocks grow.
LEMMA CutsGrow ==
  ASSUME NEW blocks \in Seq(Seq(Nat)), NEW cut \in [Nat -> Nat], Laid(blocks, cut)
  PROVE  \A i \in 0 .. Len(blocks) : cut[i] <= cut[Len(blocks)]
<1> DEFINE n == Len(blocks)
           T == {m \in Nat : m <= n => cut[n - m] <= cut[n]}
<1>1. n \in Nat
  OBVIOUS
<1> HIDE DEF n
<1>2. 0 \in T
  BY <1>1
<1>3. ASSUME NEW m \in T PROVE m + 1 \in T
  <2>1. CASE m + 1 <= n
    <3>1. n - m \in 1 .. n /\ n - (m + 1) = (n - m) - 1 /\ n - (m + 1) \in Nat
      BY <1>1, <2>1
    <3>2. cut[(n - m) - 1] < cut[n - m]
      BY <3>1 DEF Laid, n
    <3>3. cut[n - m] <= cut[n]
      BY <1>1, <2>1
    <3>4. cut[n] \in Nat /\ cut[n - m] \in Nat /\ cut[n - (m + 1)] \in Nat
      BY <1>1, <3>1
    <3>5. cut[n - (m + 1)] < cut[n - m]
      BY <3>1, <3>2
    <3>6. cut[n - (m + 1)] <= cut[n]
      <4>1. \A x, y, z \in Nat : x < y /\ y <= z => x <= z
        OBVIOUS
      <4> QED BY <3>3, <3>4, <3>5, <4>1
    <3>7. m + 1 \in Nat
      OBVIOUS
    <3> QED BY <3>6, <3>7
  <2> QED BY <1>1, <2>1
<1>4. T = Nat
  <2> HIDE DEF T
  <2>1. T \in SUBSET Nat
    BY DEF T
  <2> QED BY <1>2, <1>3, <2>1, NatSetInduction
<1>5. ASSUME NEW i \in 0 .. n PROVE cut[i] <= cut[n]
  <2>1. n - i \in Nat /\ n - i <= n /\ n - (n - i) = i
    BY <1>1
  <2>2. n - i \in T
    BY <1>4, <2>1
  <2> QED BY <2>1, <2>2
<1> QED BY <1>5 DEF n

\* Put together they are the file up to the end of the last one.
LEMMA FlattenLaid ==
  ASSUME NEW blocks \in Seq(Seq(Nat)), NEW cut \in [Nat -> Nat], Laid(blocks, cut)
  PROVE  FlattenSeq(blocks) = Segment(0, cut[Len(blocks)])
<1> DEFINE n == Len(blocks)
           flatten == CHOOSE f : f = [i \in 1 .. n |-> IF i = 1 THEN blocks[i] ELSE f[i - 1] \o blocks[i]]
           joined == [i \in 1 .. n |-> Segment(0, cut[i])]
<1>1. n \in Nat
  OBVIOUS
<1>2. CASE n = 0
  <2>1. blocks = <<>>
    BY <1>2
  <2>2. Segment(0, 0) = <<>>
    BY DEF Segment
  <2> QED BY <1>2, <2>1, <2>2 DEF FlattenSeq, Laid
<1>3. CASE n # 0
  <2>1. ASSUME NEW i \in 1 .. n
        PROVE  joined[i] = IF i = 1 THEN blocks[i] ELSE joined[i - 1] \o blocks[i]
    <3>1. blocks[i] = Segment(cut[i - 1], cut[i]) /\ cut[i - 1] < cut[i]
      BY DEF Laid
    <3>2. cut[i - 1] \in Nat /\ cut[i] \in Nat
      OBVIOUS
    <3>3. CASE i = 1
      BY <3>1, <3>3 DEF Laid
    <3>4. CASE i # 1
      <4>1. Segment(0, cut[i - 1]) \o Segment(cut[i - 1], cut[i]) = Segment(0, cut[i])
        <5>1. 0 <= cut[i - 1] /\ cut[i - 1] <= cut[i] /\ 0 \in Nat
          BY <3>1, <3>2
        <5> HIDE DEF joined, flatten, n
        <5> QED BY <3>2, <5>1, SegmentConcat
      <4>2. i - 1 \in 1 .. n
        BY <3>4
      <4> QED BY <3>1, <3>4, <4>1, <4>2
    <3> QED BY <3>3, <3>4
  <2>2. joined = [i \in 1 .. n |-> IF i = 1 THEN blocks[i] ELSE joined[i - 1] \o blocks[i]]
    BY <2>1
  <2>3. flatten = [i \in 1 .. n |-> IF i = 1 THEN blocks[i] ELSE flatten[i - 1] \o blocks[i]]
    <3> HIDE DEF joined
    <3> QED BY <2>2
  <2> DEFINE T == {m \in Nat : m + 1 \in 1 .. n => flatten[m + 1] = joined[m + 1]}
  <2>4. FlattenSeq(blocks) = flatten[n]
    BY <1>3 DEF FlattenSeq
  <2> HIDE DEF flatten, n, joined
  <2>5. \A i \in 1 .. n : flatten[i] = IF i = 1 THEN blocks[i] ELSE flatten[i - 1] \o blocks[i]
    BY <2>3
  <2>6. 0 \in T
    BY <2>1, <2>5
  <2>7. ASSUME NEW m \in T PROVE m + 1 \in T
    <3>0. m \in Nat /\ (m + 1) + 1 = m + 2 /\ m + 1 \in Nat
      <4>1. m \in Nat
        OBVIOUS
      <4> HIDE DEF T
      <4> QED BY <4>1
    <3>1. CASE m + 2 \in 1 .. n
      <4>1. m + 1 \in 1 .. n /\ (m + 2) - 1 = m + 1 /\ m + 2 # 1
        <5> HIDE DEF T
        <5> QED BY <1>1, <3>0, <3>1
      <4>2. flatten[m + 1] = joined[m + 1]
        BY <4>1
      <4>3. flatten[m + 2] = joined[m + 2]
        <5> HIDE DEF T
        <5>1. joined[m + 2] = joined[m + 1] \o blocks[m + 2]
          BY <2>1, <3>1, <4>1
        <5>2. flatten[m + 2] = flatten[m + 1] \o blocks[m + 2]
          BY <2>5, <3>1, <4>1
        <5> QED BY <4>2, <5>1, <5>2
      <4> QED BY <3>0, <4>3
    <3>2. CASE m + 2 \notin 1 .. n
      BY <3>0, <3>2
    <3> QED BY <3>1, <3>2
  <2>8. T = Nat
    <3> HIDE DEF T
    <3>1. T \in SUBSET Nat
      BY DEF T
    <3> QED BY <2>6, <2>7, <3>1, NatSetInduction
  <2>9. n - 1 \in Nat /\ (n - 1) + 1 = n /\ n \in 1 .. n
    BY <1>1, <1>3
  <2>10. flatten[n] = joined[n]
    <3>1. n - 1 \in T
      BY <2>8, <2>9
    <3> QED BY <2>9, <3>1
  <2> QED BY <2>4, <2>9, <2>10 DEF joined, n
<1> QED BY <1>2, <1>3

-------------------------------------------------------------------------------
(* The order of the blocks.                                                   *)

\* What a worker owes: the segment from one byte to another, which is in its
\* input while its task runs and in its output behind it, or nothing.
Due(worker, from, to) ==
  \/ worker.future = "idle" /\ to = from
  \/ /\ worker.future \in {"running", "ready"} /\ from < to /\ worker.size = to - from
     /\ SubSeq(worker.in_block, 1, to - from) = Segment(from, to)
     /\ worker.future = "ready" => worker.out_block = Segment(from, to)

\* How much of the file was read and how much was written, in bytes.
Taken(cut) == IF direction = "compress" THEN position ELSE cut[position]
Given(cut) == IF direction = "compress" THEN cut[Len(archive)] ELSE Len(out)

\* The workers of the round that owe something, out of k.
FirstDue == IF pc = "collect" THEN w ELSE 1
LastDue(k) == IF pc = "test" THEN 0 ELSE IF pc = "fill" THEN w - 1 ELSE k

\* A round: the workers' segments follow each other, in the order of the
\* workers, from what was written to what was read.
Round(cut, at, k) ==
  /\ DOMAIN workers = 1 .. k /\ w <= k + 1
  /\ Laid(archive, cut) /\ (direction # "compress" => cut[Len(archive)] = file)
  /\ direction # "compress" => position <= Len(archive)
  /\ Taken(cut) <= file /\ (~ good => Taken(cut) = file)
  /\ at[FirstDue] = Given(cut) /\ at[LastDue(k) + 1] = Taken(cut)
  /\ \A v \in FirstDue .. LastDue(k) + 1 : at[v] <= file
  /\ \A v \in FirstDue .. LastDue(k) : Due(workers[v], at[v], at[v + 1])

Kinds ==
  /\ file \in Nat /\ position \in Nat
  /\ archive \in Seq(Seq(Nat)) /\ out \in Seq(Nat)
  /\ direction \in {"compress", "decompress", "end"} /\ pc \in {"test", "fill", "collect"}
  /\ direction = "end" => pc = "test" /\ ~ good
  /\ direction = "compress" => out = <<>>
  /\ out = Segment(0, Len(out))
  /\ \A v \in DOMAIN workers : workers[v].in_block \in Seq(Nat)

OrderInv ==
  /\ PoolInv /\ Kinds
  /\ \E cut, at \in [Nat -> Nat], k \in Nat : Round(cut, at, k)

\* What is read into a buffer is what its front then holds.
LEMMA OverwriteFront ==
  ASSUME NEW block \in Seq(Nat), NEW data \in Seq(Nat)
  PROVE  /\ Overwrite(block, data) \in Seq(Nat)
         /\ SubSeq(Overwrite(block, data), 1, Len(data)) = data
<1>1. Len(data) \in Nat /\ Len(block) \in Nat
  OBVIOUS
<1>2. SubSeq(data, 1, Len(data)) = data
  OBVIOUS
<1>3. CASE ~ (Len(data) < Len(block))
  BY <1>2, <1>3 DEF Overwrite
<1>4. CASE Len(data) < Len(block)
  <2> DEFINE rest == SubSeq(block, Len(data) + 1, Len(block))
             both == data \o rest
  <2>1. rest \in Seq(Nat)
    BY <1>1
  <2> HIDE DEF rest
  <2>2. both \in Seq(Nat) /\ Len(both) = Len(data) + Len(rest) /\ Len(rest) \in Nat
    BY <2>1
  <2>3. \A j \in 1 .. Len(data) : both[j] = data[j]
    BY <2>1
  <2> HIDE DEF both
  <2> DEFINE front == SubSeq(both, 1, Len(data))
  <2>4. front \in Seq(Nat) /\ Len(front) = Len(data) /\ \A j \in 1 .. Len(data) : front[j] = both[j]
    BY <1>1, <2>2
  <2> HIDE DEF front
  <2>5. \A j \in 1 .. Len(front) : front[j] = data[j]
    BY <2>3, <2>4
  <2>6. front = data
    BY <2>4, <2>5, SeqEqual
  <2> QED BY <1>4, <2>2, <2>6 DEF Overwrite, front, both, rest
<1> QED BY <1>3, <1>4

\* Both properties follow.
LEMMA OrderInvImplies == OrderInv => ArchiveInOrder /\ OutputInOrder
<1> SUFFICES ASSUME OrderInv PROVE ArchiveInOrder /\ OutputInOrder
  OBVIOUS
<1>1. PICK cut \in [Nat -> Nat], at \in [Nat -> Nat], k \in Nat : Round(cut, at, k)
  BY DEF OrderInv
<1>2. Kinds /\ w \in Nat \ {0}
  BY DEF OrderInv, PoolInv, Pool
<1>3. Len(archive) \in Nat /\ Len(out) \in Nat /\ Laid(archive, cut) /\ file \in Nat
  <2>1. Laid(archive, cut)
    BY <1>1 DEF Round
  <2>2. archive \in Seq(Seq(Nat)) /\ out \in Seq(Nat) /\ file \in Nat
    BY <1>2 DEF Kinds
  <2>3. Len(archive) \in Nat
    BY <2>2, LenProperties
  <2>4. Len(out) \in Nat
    BY <2>2, LenProperties
  <2> QED BY <2>1, <2>2, <2>3, <2>4
<1>4. FlattenSeq(archive) = Segment(0, cut[Len(archive)])
  BY <1>2, <1>3, FlattenLaid DEF Kinds
<1>5. Input = Segment(0, file)
  BY <1>2 DEF Input, Segment, Kinds
<1>6. Given(cut) <= file
  <2>1. FirstDue \in FirstDue .. LastDue(k) + 1
    <3>1. w \in Nat \ {0} /\ w <= k + 1 /\ k \in Nat
      BY <1>1, <1>2 DEF Round
    <3>2. pc \in {"test", "fill", "collect"}
      BY <1>2 DEF Kinds
    <3> QED BY <3>1, <3>2 DEF FirstDue, LastDue
  <2> QED BY <1>1, <2>1 DEF Round
<1>7. ASSUME NEW n \in Nat, n <= file PROVE IsPrefix(Segment(0, n), Segment(0, file))
  <2>1. Len(Segment(0, n)) = n /\ Len(Segment(0, file)) = file
    <3>1. 0 \in Nat /\ 0 <= n /\ 0 <= file /\ n - 0 = n /\ file - 0 = file
      BY <1>3
    <3>2. Len(Segment(0, n)) = n - 0 /\ Len(Segment(0, file)) = file - 0
      BY <1>3, <3>1, SegmentSeq
    <3> QED BY <3>1, <3>2
  <2>2. SubSeq(Segment(0, n), 0 + 1, n) = Segment(0, n)
    BY <1>7, SegmentPart
  <2>3. SubSeq(Segment(0, file), 0 + 1, n) = Segment(0, n)
    <3>1. 0 \in Nat /\ 0 <= n
      OBVIOUS
    <3> QED BY <1>3, <1>7, <3>1, SegmentPart
  <2> QED BY <1>7, <2>1, <2>2, <2>3 DEF IsPrefix
<1>8. ArchiveInOrder
  <2>1. cut[Len(archive)] <= file /\ cut[Len(archive)] \in Nat
    BY <1>1, <1>3, <1>6 DEF Given, Round
  <2>2. direction # "compress" => cut[Len(archive)] = file
    BY <1>1 DEF Round
  <2> QED BY <1>4, <1>5, <1>7, <2>1, <2>2 DEF ArchiveInOrder
<1>9. OutputInOrder
  <2>1. out = Segment(0, Len(out)) /\ Len(out) <= file
    BY <1>2, <1>3, <1>6 DEF Given, Kinds
  <2>2. direction = "end" => Len(out) = file
    <3> SUFFICES ASSUME direction = "end" PROVE Len(out) = file
      OBVIOUS
    <3>1. pc = "test" /\ ~ good
      BY <1>2 DEF Kinds
    <3>2. at[1] = Len(out)
      BY <1>1, <3>1 DEF Round, FirstDue, Given
    <3>3. at[0 + 1] = Taken(cut)
      BY <1>1, <3>1 DEF Round, LastDue
    <3>4. Taken(cut) = file
      BY <1>1, <3>1 DEF Round
    <3> QED BY <3>2, <3>3, <3>4
  <2> QED BY <1>3, <1>5, <1>7, <2>1, <2>2 DEF OutputInOrder
<1> QED BY <1>8, <1>9

-------------------------------------------------------------------------------
(* The steps keep the order.                                                  *)

\* Nothing is read or written in the beginning.
LEMMA OrderInvInit == Init => OrderInv
<1> SUFFICES ASSUME Init PROVE OrderInv
  OBVIOUS
<1>1. PoolInv
  BY PoolInvInit
<1>2. hardware \in Nat /\ file \in Nat
  BY PoolAssumption DEF Init
<1> DEFINE k == core_number("compress")
<1>3. k \in Nat
  BY <1>2 DEF core_number, CompressWorkers, get_cores
<1>4. workers = [v \in 1 .. k |-> NewWorker]
  BY DEF Init
<1> HIDE DEF k
<1>5. <<>> \in Seq(Nat) /\ <<>> \in Seq(Seq(Nat)) /\ Len(<<>>) = 0 /\ Segment(0, 0) = <<>>
  BY DEF Segment
<1>6. DOMAIN workers = 1 .. k /\ \A v \in 1 .. k : workers[v].in_block = <<>>
  BY <1>4 DEF NewWorker
<1>7. Kinds
  BY <1>2, <1>5, <1>6 DEF Kinds, Init
<1> DEFINE zero == [i \in Nat |-> 0]
<1>8. zero \in [Nat -> Nat] /\ zero[0] = 0 /\ zero[1] = 0
  OBVIOUS
<1>9. archive = <<>> /\ out = <<>> /\ position = 0 /\ good = TRUE /\ direction = "compress"
      /\ pc = "test" /\ w = 1
  BY DEF Init
<1> HIDE DEF zero
<1>10. Laid(archive, zero)
  BY <1>5, <1>8, <1>9 DEF Laid
<1>11. FirstDue = 1 /\ LastDue(k) = 0
  BY <1>9 DEF FirstDue, LastDue
<1>12. Taken(zero) = 0 /\ Given(zero) = 0
  BY <1>5, <1>8, <1>9 DEF Taken, Given
<1>13. Round(zero, zero, k)
  BY <1>2, <1>3, <1>6, <1>8, <1>9, <1>10, <1>11, <1>12 DEF Round
<1> QED BY <1>1, <1>3, <1>7, <1>8, <1>13 DEF OrderInv

\* A number before the last of w, which are not more than k.
LEMMA BeforeLast ==
  /\ \A w1 \in Nat \ {0} : w1 + 1 \in Nat
  /\ \A k \in Nat, w1 \in Nat \ {0} : \A v \in 1 .. w1 :
       w1 <= k /\ v # w1 => v \in 1 .. w1 - 1 /\ v + 1 \in 1 .. w1 /\ v \in 1 .. k
OBVIOUS

\* The main thread has read a block for the worker it has come to.
LEMMA ReadKeepsOrder ==
  ASSUME OrderInv, PoolInv', pc = "fill", w \in DOMAIN workers, direction # "end",
         NEW cut \in [Nat -> Nat], NEW at \in [Nat -> Nat], NEW k \in Nat, Round(cut, at, k),
         NEW t \in Nat, Taken(cut) <= t, t <= file, NEW data, data = Segment(Taken(cut), t),
         workers' = [workers EXCEPT ![w] = Start(Loaded(@, data), Len(data))],
         w' = w + 1, UNCHANGED <<file, archive, out, direction, pc>>,
         position' \in Nat, direction # "compress" => position' <= Len(archive),
         Taken(cut)' = t, ~ good' => t = file, good' \in BOOLEAN
  PROVE  OrderInv'
<1> DEFINE old == workers[w]
           worker == Start(Loaded(old, data), Len(data))
           from == Taken(cut)
<1>1. Kinds /\ PoolInv
  BY DEF OrderInv
<1>2. w \in Nat \ {0} /\ DOMAIN workers = 1 .. k /\ w <= k
  <2>1. w \in Nat \ {0} /\ DOMAIN workers = 1 .. k
    BY <1>1 DEF PoolInv, Pool, Round
  <2> QED BY <2>1
<1>3. old.future = "idle" /\ IsWorker(old) /\ old.in_block \in Seq(Nat)
  <2>1. \A v \in DOMAIN workers : IsWorker(workers[v])
    BY <1>1 DEF PoolInv, Pool
  <2>2. \A v \in DOMAIN workers : workers[v].in_block \in Seq(Nat)
    BY <1>1 DEF Kinds
  <2>3. w >= w
    BY <1>2
  <2>4. old.future = "idle"
    BY <1>1, <2>3 DEF PoolInv, Rounds
  <2> QED BY <2>1, <2>2, <2>4
<1>4. from \in Nat
  BY <1>1 DEF Taken, Kinds
<1>5. data \in Seq(Nat) /\ Len(data) = t - from
  BY <1>4, SegmentSeq
<1> DEFINE full == Overwrite(old.in_block, data)
<1>6. full \in Seq(Nat) /\ SubSeq(full, 1, t - from) = data
  <2>1. full \in Seq(Nat) /\ SubSeq(full, 1, Len(data)) = data
    BY <1>3, <1>5, OverwriteFront
  <2> QED BY <1>5, <2>1
<1> HIDE DEF full
<1>7. worker = Start([old EXCEPT !.in_block = full], t - from)
  BY <1>5 DEF full, Loaded
<1>8. \/ t - from > 0 /\ worker = [[[old EXCEPT !.in_block = full] EXCEPT !.future = "running"] EXCEPT !.size = t - from]
      \/ ~ (t - from > 0) /\ worker = [old EXCEPT !.in_block = full]
  BY <1>3, <1>7 DEF Start, IsWorker
<1>9. worker.in_block = full /\ Due(worker, from, t)
  <2>1. CASE t - from > 0
    <3>1. /\ worker.in_block = full /\ worker.future = "running" /\ worker.size = t - from
      BY <1>3, <1>8, <2>1 DEF IsWorker
    <3>2. from < t
      BY <1>4, <2>1
    <3> QED BY <1>6, <3>1, <3>2 DEF Due
  <2>2. CASE ~ (t - from > 0)
    <3>1. worker.in_block = full /\ worker.future = "idle"
      BY <1>3, <1>8, <2>2 DEF IsWorker
    <3>2. from = t
      BY <1>4, <2>2
    <3> QED BY <3>1, <3>2 DEF Due
  <2> QED BY <2>1, <2>2
<1>10. workers' = [workers EXCEPT ![w] = worker]
  OBVIOUS
<1> HIDE DEF worker, old
<1>11. DOMAIN workers' = 1 .. k /\ \A v \in 1 .. k : workers'[v] = IF v = w THEN worker ELSE workers[v]
  <2>1. PICK n \in Int : workers = [v \in 1 .. n |-> workers[v]]
    BY <1>1 DEF PoolInv, Pool
  <2> QED BY <1>2, <1>10, <2>1
<1>12. Kinds'
  <2>1. \A v \in DOMAIN workers' : workers'[v].in_block \in Seq(Nat)
    BY <1>1, <1>2, <1>6, <1>9, <1>11 DEF Kinds
  <2> QED BY <1>1, <2>1 DEF Kinds
<1>13. PICK at1 \in [Nat -> Nat] : at1[w + 1] = t /\ \A v \in Nat : v # w + 1 => at1[v] = at[v]
  <2>0. w + 1 \in Nat
    BY <1>2, BeforeLast
  <2> DEFINE a == [v \in Nat |-> IF v = w + 1 THEN t ELSE at[v]]
  <2>1. a \in [Nat -> Nat] /\ a[w + 1] = t /\ \A v \in Nat : v # w + 1 => a[v] = at[v]
    BY <2>0
  <2> HIDE DEF a
  <2> QED BY <2>1
<1>14. at[w] = from
  <2>1. LastDue(k) + 1 = w
    BY <1>2 DEF LastDue
  <2> QED BY <2>1 DEF Round
<1>15. FirstDue = 1 /\ FirstDue' = 1 /\ LastDue(k) = w - 1 /\ LastDue(k)' = w
  BY <1>2 DEF FirstDue, LastDue
<1>16. \A v \in 1 .. w : at1[v] = at[v]
  BY <1>2, <1>13
<1>17. \A v \in 1 .. w : Due(workers'[v], at1[v], at1[v + 1])
  <2> TAKE v \in 1 .. w
  <2>1. CASE v = w
    BY <1>2, <1>9, <1>11, <1>13, <1>14, <1>16, <2>1
  <2>2. CASE v # w
    <3>1. v \in 1 .. w - 1 /\ v + 1 \in 1 .. w /\ v \in 1 .. k
      BY <1>2, <2>2, BeforeLast
    <3>2. Due(workers[v], at[v], at[v + 1])
      BY <1>15, <3>1 DEF Round
    <3> QED BY <1>11, <1>16, <2>2, <3>1, <3>2
  <2> QED BY <2>1, <2>2
<1>18. \A v \in 1 .. w + 1 : at1[v] <= file
  <2>1. \A v \in 1 .. w : at[v] <= file
    BY <1>2, <1>15 DEF Round
  <2> TAKE v \in 1 .. w + 1
  <2>2. CASE v \in 1 .. w
    <3>1. at1[v] = at[v]
      BY <1>16, <2>2
    <3> QED BY <2>1, <2>2, <3>1
  <2>3. CASE v = w + 1
    BY <1>13, <2>3
  <2>4. v \in 1 .. w \/ v = w + 1
    BY <1>2
  <2> QED BY <2>2, <2>3, <2>4
<1>19. at1[1] = Given(cut)'
  <2>1. at[1] = Given(cut)
    BY <1>15 DEF Round
  <2>2. at1[1] = at[1]
    <3>1. 1 \in 1 .. w
      BY <1>2
    <3> QED BY <1>16, <3>1
  <2>3. Given(cut)' = Given(cut)
    BY DEF Given
  <2> QED BY <2>1, <2>2, <2>3
<1>20. w' <= k + 1 /\ Laid(archive', cut) /\ (direction' # "compress" => cut[Len(archive')] = file')
  BY <1>2 DEF Round
<1>21. Round(cut, at1, k)'
  <2>1. /\ DOMAIN workers' = 1 .. k
        /\ direction' # "compress" => position' <= Len(archive')
        /\ Taken(cut)' <= file' /\ (~ good' => Taken(cut)' = file')
    BY <1>11
  <2>2. at1[FirstDue'] = Given(cut)' /\ at1[LastDue(k)' + 1] = Taken(cut)'
    BY <1>13, <1>15, <1>19
  <2>3. /\ \A v \in FirstDue' .. LastDue(k)' + 1 : at1[v] <= file'
        /\ \A v \in FirstDue' .. LastDue(k)' : Due(workers'[v], at1[v], at1[v + 1])
    BY <1>15, <1>17, <1>18
  <2> QED BY <1>20, <2>1, <2>2, <2>3 DEF Round
<1> QED BY <1>12, <1>13, <1>21 DEF OrderInv

\* The smaller of two numbers.
LEMMA MinOfTwo ==
  ASSUME NEW a \in Nat, NEW b \in Nat
  PROVE  Min({a, b}) = IF a <= b THEN a ELSE b
<1> DEFINE least == IF a <= b THEN a ELSE b
<1>1. least \in {a, b} /\ \A y \in {a, b} : least <= y
  OBVIOUS
<1>2. \A x \in {a, b} : (\A y \in {a, b} : x <= y) => x = least
  OBVIOUS
<1> HIDE DEF least
<1>3. Min({a, b}) = least
  BY <1>1, <1>2 DEF Min
<1> QED BY <1>3 DEF least

\* A block of the file is read for the worker whose turn it is.
LEMMA ReadBlockOrder == OrderInv /\ PoolInv' /\ ReadBlock => OrderInv'
<1> SUFFICES ASSUME OrderInv, PoolInv', ReadBlock PROVE OrderInv'
  OBVIOUS
<1>1. PICK cut \in [Nat -> Nat], at \in [Nat -> Nat], k \in Nat : Round(cut, at, k)
  BY DEF OrderInv
<1>2. file \in Nat /\ position \in Nat
  BY DEF OrderInv, Kinds
<1>3. /\ direction = "compress" /\ pc = "fill" /\ w \in DOMAIN workers
      /\ workers' = [workers EXCEPT ![w] = Start(Loaded(@, NextBytes), Len(NextBytes))]
      /\ good' = (Len(NextBytes) = BlockSize) /\ position' = position + Len(NextBytes)
      /\ w' = w + 1 /\ UNCHANGED <<file, archive, out, direction, pc>>
  BY DEF ReadBlock, fixed
<1>4. Taken(cut) = position /\ position <= file /\ (~ good => position = file)
  BY <1>1, <1>3 DEF Round, Taken
<1>5. \E t \in Nat : /\ position <= t /\ t <= file /\ NextBytes = Segment(position, t)
                     /\ t - position # BlockSize => t = file
  <2>1. CASE ~ good
    <3>1. NextBytes = Segment(position, position)
      <4>1. NextBytes = <<>>
        BY <2>1 DEF NextBytes
      <4> QED BY <1>2, <4>1, SegmentNone
    <3> QED BY <1>2, <1>4, <2>1, <3>1
  <2>2. CASE good
    <3> DEFINE t == Min({position + BlockSize, file})
    <3>1. BlockSize \in Nat /\ position + BlockSize \in Nat
      BY <1>2, PoolAssumption
    <3>2. t = IF position + BlockSize <= file THEN position + BlockSize ELSE file
      BY <1>2, <3>1, MinOfTwo
    <3>3. NextBytes = SubSeq(Input, position + 1, t)
      BY <2>2 DEF NextBytes
    <3> HIDE DEF t
    <3>4. t \in Nat /\ position <= t /\ t <= file /\ (t - position # BlockSize => t = file)
      BY <1>2, <1>4, <3>1, <3>2
    <3>5. Input = Segment(0, file)
      BY <1>2 DEF Input, Segment
    <3>6. NextBytes = Segment(position, t)
      BY <1>2, <3>3, <3>4, <3>5, SegmentPart
    <3> QED BY <3>4, <3>6
  <2> QED BY <2>1, <2>2
<1>6. PICK t \in Nat : /\ position <= t /\ t <= file /\ NextBytes = Segment(position, t)
                       /\ t - position # BlockSize => t = file
  BY <1>5
<1>7. Len(NextBytes) = t - position
  BY <1>2, <1>6, SegmentSeq
<1>8. position' = t /\ (~ good' => t = file) /\ good' \in BOOLEAN
  <2>1. position + (t - position) = t
    BY <1>2
  <2>2. good' = (t - position = BlockSize)
    BY <1>3, <1>7
  <2>3. ~ good' => t = file
    BY <1>6, <2>2
  <2> QED BY <1>3, <1>7, <2>1, <2>2, <2>3
<1>9. Taken(cut)' = t
  BY <1>3, <1>8 DEF Taken
<1>10. PICK data : data = NextBytes
  OBVIOUS
<1> QED BY <1>1, <1>3, <1>4, <1>6, <1>8, <1>9, <1>10, ReadKeepsOrder

\* In the other direction it is a block of the archive that is read.
LEMMA ReadArchiveOrder == OrderInv /\ PoolInv' /\ ReadArchive => OrderInv'
<1> SUFFICES ASSUME OrderInv, PoolInv', ReadArchive PROVE OrderInv'
  OBVIOUS
<1>1. PICK cut \in [Nat -> Nat], at \in [Nat -> Nat], k \in Nat : Round(cut, at, k)
  BY DEF OrderInv
<1>2. file \in Nat /\ position \in Nat /\ archive \in Seq(Seq(Nat))
  BY DEF OrderInv, Kinds
<1>3. /\ direction = "decompress" /\ pc = "fill" /\ w \in DOMAIN workers
      /\ workers' = [workers EXCEPT ![w] = Start(Loaded(@, NextBlock), Len(NextBlock))]
      /\ good' = (NextBlock # <<>>)
      /\ position' = IF NextBlock # <<>> THEN position + 1 ELSE position
      /\ w' = w + 1 /\ UNCHANGED <<file, archive, out, direction, pc>>
  BY DEF ReadArchive, fixed
<1>4. Laid(archive, cut) /\ cut[Len(archive)] = file /\ position <= Len(archive)
      /\ Taken(cut) = cut[position] /\ cut[position] <= file /\ (~ good => cut[position] = file)
  BY <1>1, <1>3 DEF Round, Taken
<1>5. Len(archive) \in Nat
  BY <1>2, LenProperties
<1>6. \E t \in Nat : /\ cut[position] <= t /\ t <= file /\ NextBlock = Segment(cut[position], t)
                     /\ position' \in Nat /\ position' <= Len(archive) /\ cut[position'] = t
                     /\ ~ good' => t = file
  <2>1. CASE good /\ position < Len(archive)
    <3>1. position + 1 \in 1 .. Len(archive) /\ (position + 1) - 1 = position /\ position + 1 \in Nat
      BY <1>2, <1>5, <2>1
    <3>2. cut[position] < cut[position + 1]
          /\ archive[position + 1] = Segment(cut[position], cut[position + 1])
      BY <1>4, <3>1 DEF Laid
    <3>3. cut[position] \in Nat /\ cut[position + 1] \in Nat
      BY <1>2, <3>1
    <3>4. cut[position + 1] <= file
      <4>1. \A i \in 0 .. Len(archive) : cut[i] <= cut[Len(archive)]
        BY <1>2, <1>4, CutsGrow
      <4>2. position + 1 \in 0 .. Len(archive)
        BY <3>1
      <4> QED BY <1>4, <4>1, <4>2
    <3>5. NextBlock = Segment(cut[position], cut[position + 1])
      BY <2>1, <3>2 DEF NextBlock
    <3>6. Len(NextBlock) = cut[position + 1] - cut[position] /\ Len(NextBlock) # 0
      <4>1. cut[position] <= cut[position + 1]
        BY <3>2, <3>3
      <4>2. Len(NextBlock) = cut[position + 1] - cut[position]
        BY <3>3, <3>5, <4>1, SegmentSeq
      <4>3. \A x, y \in Nat : x < y => y - x # 0
        OBVIOUS
      <4> QED BY <3>2, <3>3, <4>2, <4>3
    <3>7. NextBlock # <<>>
      BY <3>6
    <3>8. position' = position + 1 /\ good'
      BY <1>3, <3>7
    <3>9. cut[position] <= cut[position + 1] /\ position + 1 <= Len(archive)
      <4>1. \A x, y \in Nat : x < y => x <= y
        OBVIOUS
      <4>2. position + 1 <= Len(archive)
        BY <3>1
      <4> QED BY <3>2, <3>3, <4>1, <4>2
    <3> QED BY <3>1, <3>3, <3>4, <3>5, <3>8, <3>9
  <2>2. CASE ~ (good /\ position < Len(archive))
    <3>1. NextBlock = <<>>
      BY <2>2 DEF NextBlock
    <3>2. cut[position] \in Nat /\ Segment(cut[position], cut[position]) = <<>>
      <4>1. cut[position] \in Nat
        BY <1>2
      <4> QED BY <4>1, SegmentNone
    <3>3. position' = position
      BY <1>3, <3>1
    <3>4. cut[position] = file
      BY <1>2, <1>4, <1>5, <2>2
    <3>5. cut[position] <= cut[position]
      BY <3>2
    <3> QED BY <1>2, <1>4, <3>1, <3>2, <3>3, <3>4, <3>5
  <2> QED BY <2>1, <2>2
<1>7. PICK t \in Nat : /\ cut[position] <= t /\ t <= file /\ NextBlock = Segment(cut[position], t)
                       /\ position' \in Nat /\ position' <= Len(archive) /\ cut[position'] = t
                       /\ ~ good' => t = file
  BY <1>6
<1>8. Taken(cut)' = t /\ good' \in BOOLEAN
  BY <1>3, <1>7 DEF Taken
<1>9. PICK data : data = NextBlock
  OBVIOUS
<1> QED BY <1>1, <1>3, <1>4, <1>7, <1>8, <1>9, ReadKeepsOrder

\* A round begins; or the archive is whole and is opened for reading; or the
\* output is whole.
LEMMA TestOrder == OrderInv /\ PoolInv' /\ Test => OrderInv'
<1> SUFFICES ASSUME OrderInv, PoolInv', Test PROVE OrderInv'
  OBVIOUS
<1>1. PICK cut \in [Nat -> Nat], at \in [Nat -> Nat], k \in Nat : Round(cut, at, k)
  BY DEF OrderInv
<1>2. Kinds /\ hardware \in Nat
  BY DEF OrderInv, PoolInv, Pool
<1>3. pc = "test" /\ UNCHANGED <<hardware, file, archive, out>> /\ direction # "end"
  BY DEF Test, fixed
<1>4. FirstDue = 1 /\ LastDue(k) = 0
  BY <1>3 DEF FirstDue, LastDue
<1>5. at[1] = Given(cut) /\ at[1] = Taken(cut)
  <2>1. 0 + 1 = 1
    OBVIOUS
  <2> QED BY <1>1, <1>4, <2>1 DEF Round
<1>6. CASE /\ good /\ pc' = "fill" /\ w' = 1
           /\ UNCHANGED <<direction, good, position, workers>>
  <2>1. FirstDue' = 1 /\ LastDue(k)' = 0
    BY <1>6 DEF FirstDue, LastDue
  <2>2. Taken(cut)' = Taken(cut) /\ Given(cut)' = Given(cut)
    BY <1>3, <1>6 DEF Taken, Given
  <2>3. Round(cut, at, k)'
    BY <1>1, <1>3, <1>4, <1>6, <2>1, <2>2 DEF Round
  <2>4. Kinds'
    BY <1>2, <1>3, <1>6 DEF Kinds
  <2> QED BY <2>3, <2>4 DEF OrderInv
<1>7. CASE ~ good /\ direction = "compress" /\ Open("decompress")
  <2>1. /\ direction' = "decompress" /\ pc' = "test" /\ w' = 1 /\ good' = TRUE /\ position' = 0
        /\ workers' = [v \in 1 .. core_number("decompress") |-> NewWorker]
    BY <1>7 DEF Open
  <2>2. core_number("decompress") \in Nat
    BY <1>2 DEF core_number, DecompressWorkers, get_cores
  <2>3. PICK m \in Nat : workers' = [v \in 1 .. m |-> NewWorker]
    BY <2>1, <2>2
  <2>4. DOMAIN workers' = 1 .. m /\ \A v \in 1 .. m : workers'[v].in_block = <<>>
    BY <2>3 DEF NewWorker
  <2>5. out = <<>> /\ Len(out) = 0
    BY <1>2, <1>7 DEF Kinds
  <2>6. cut[Len(archive)] = file /\ Laid(archive, cut) /\ cut[0] = 0
    BY <1>1, <1>5, <1>7 DEF Round, Given, Taken, Laid
  <2>7. Kinds'
    <3>1. <<>> \in Seq(Nat) /\ 0 \in Nat
      OBVIOUS
    <3> QED BY <1>2, <1>3, <2>1, <2>4, <3>1 DEF Kinds
  <2> DEFINE zero == [v \in Nat |-> 0]
  <2>8. zero \in [Nat -> Nat] /\ zero[1] = 0
    OBVIOUS
  <2> HIDE DEF zero
  <2>9. Taken(cut)' = 0 /\ Given(cut)' = 0
    BY <1>3, <2>1, <2>5, <2>6 DEF Taken, Given
  <2>10. FirstDue' = 1 /\ LastDue(m)' = 0
    BY <2>1 DEF FirstDue, LastDue
  <2>11. 0 <= Len(archive) /\ 1 <= m + 1 /\ 0 <= file /\ 0 + 1 = 1
    <3>1. Len(archive) \in Nat
      BY <1>2, LenProperties DEF Kinds
    <3> QED BY <1>2, <3>1 DEF Kinds
  <2>12. \A v \in 1 .. 1 : zero[v] <= file
    BY <2>8, <2>11
  <2>13. Round(cut, zero, m)'
    BY <1>3, <2>1, <2>4, <2>6, <2>8, <2>9, <2>10, <2>11, <2>12 DEF Round
  <2> QED BY <2>7, <2>8, <2>13 DEF OrderInv
<1>8. CASE /\ ~ good /\ direction = "decompress" /\ direction' = "end"
           /\ UNCHANGED <<pc, w, good, position, workers>>
  <2>1. FirstDue' = FirstDue /\ LastDue(k)' = LastDue(k)
    BY <1>8 DEF FirstDue, LastDue
  <2>2. Taken(cut)' = Taken(cut) /\ Given(cut)' = Given(cut)
    BY <1>3, <1>8 DEF Taken, Given
  <2>3. Round(cut, at, k)'
    BY <1>1, <1>3, <1>8, <2>1, <2>2 DEF Round
  <2>4. Kinds'
    BY <1>2, <1>3, <1>8 DEF Kinds
  <2> QED BY <2>3, <2>4 DEF OrderInv
<1> QED BY <1>6, <1>7, <1>8 DEF Test

\* One of the inner loops is over.
LEMMA NextLoopOrder == OrderInv /\ PoolInv' /\ NextLoop => OrderInv'
<1> SUFFICES ASSUME OrderInv, PoolInv', NextLoop PROVE OrderInv'
  OBVIOUS
<1>1. PICK cut \in [Nat -> Nat], at \in [Nat -> Nat], k \in Nat : Round(cut, at, k)
  BY DEF OrderInv
<1>2. Kinds /\ w \in Nat \ {0}
  BY DEF OrderInv, PoolInv, Pool
<1>3. /\ pc \in {"fill", "collect"} /\ w \notin DOMAIN workers
      /\ pc' = (IF pc = "fill" THEN "collect" ELSE "test") /\ w' = 1
      /\ UNCHANGED <<direction, good, position, workers, hardware, file, archive, out>>
  BY DEF NextLoop, fixed
<1>4. w = k + 1
  <2>1. w \notin 1 .. k /\ w <= k + 1
    BY <1>1, <1>3 DEF Round
  <2> QED BY <1>2, <2>1
<1>5. Taken(cut)' = Taken(cut) /\ Given(cut)' = Given(cut)
  BY <1>3 DEF Taken, Given
<1>6. Kinds'
  BY <1>2, <1>3 DEF Kinds
<1>7. CASE pc = "fill"
  <2>1. FirstDue = 1 /\ FirstDue' = 1 /\ LastDue(k) = k /\ LastDue(k)' = k
    <3>1. w - 1 = k
      BY <1>4
    <3> QED BY <1>3, <1>7, <3>1 DEF FirstDue, LastDue
  <2>2. Round(cut, at, k)'
    <3>1. 1 <= k + 1
      OBVIOUS
    <3> QED BY <1>1, <1>3, <1>5, <2>1, <3>1 DEF Round
  <2> QED BY <1>6, <2>2 DEF OrderInv
<1>8. CASE pc = "collect"
  <2>1. FirstDue = k + 1 /\ LastDue(k) = k /\ FirstDue' = 1 /\ LastDue(k)' = 0
    BY <1>3, <1>4, <1>8 DEF FirstDue, LastDue
  <2>2. at[k + 1] = Given(cut) /\ at[k + 1] = Taken(cut) /\ Taken(cut) <= file
    BY <1>1, <2>1 DEF Round
  <2>3. PICK a \in [Nat -> Nat] : a[1] = at[k + 1]
    <3> DEFINE a == [v \in Nat |-> at[k + 1]]
    <3>1. a \in [Nat -> Nat] /\ a[1] = at[k + 1]
      OBVIOUS
    <3> HIDE DEF a
    <3> QED BY <3>1
  <2>4. Round(cut, a, k)'
    <3>1. 1 <= k + 1 /\ 0 + 1 = 1 /\ 1 .. 0 = {} /\ 1 .. 1 = {1}
      OBVIOUS
    <3>2. a[FirstDue'] = Given(cut)' /\ a[LastDue(k)' + 1] = Taken(cut)'
      BY <1>5, <2>1, <2>2, <2>3, <3>1
    <3>3. \A v \in FirstDue' .. LastDue(k)' + 1 : a[v] <= file'
      BY <1>3, <2>1, <2>2, <2>3, <3>1
    <3> QED BY <1>1, <1>3, <1>5, <2>1, <3>1, <3>2, <3>3 DEF Round
  <2> QED BY <1>6, <2>4 DEF OrderInv
<1> QED BY <1>3, <1>7, <1>8

\* A result is collected and written: it is the next segment.
LEMMA GetOrder == OrderInv /\ PoolInv' /\ Get => OrderInv'
<1> SUFFICES ASSUME OrderInv, PoolInv', Get PROVE OrderInv'
  OBVIOUS
<1>1. PICK cut \in [Nat -> Nat], at \in [Nat -> Nat], k \in Nat : Round(cut, at, k)
  BY DEF OrderInv
<1>2. Kinds /\ w \in Nat \ {0} /\ PoolInv
  BY DEF OrderInv, PoolInv, Pool
<1>3. /\ pc = "collect" /\ w \in DOMAIN workers /\ w' = w + 1
      /\ UNCHANGED <<hardware, file, direction, pc, good, position>>
      /\ \/ /\ workers[w].future = "ready" /\ workers' = [workers EXCEPT ![w].future = "idle"]
            /\ Writing(workers[w].out_block)
         \/ /\ workers[w].future = "idle" /\ workers' = workers /\ Writing(<<>>)
  BY DEF Get, GetPast
<1>4. DOMAIN workers = 1 .. k /\ w \in 1 .. k /\ w + 1 \in Nat /\ w + 1 \in 1 .. k + 1
  <2>1. DOMAIN workers = 1 .. k
    BY <1>1 DEF Round
  <2>2. \A x \in 1 .. k : x + 1 \in Nat /\ x + 1 \in 1 .. k + 1
    OBVIOUS
  <2> QED BY <1>3, <2>1, <2>2
<1>5. FirstDue = w /\ LastDue(k) = k /\ FirstDue' = w + 1 /\ LastDue(k)' = k
  BY <1>3 DEF FirstDue, LastDue
<1>6. /\ at[w] = Given(cut) /\ Due(workers[w], at[w], at[w + 1])
      /\ at[w] \in Nat /\ at[w + 1] \in Nat /\ at[w + 1] <= file
  <2>1. w \in w .. k /\ w + 1 \in w .. k + 1
    BY <1>2, <1>4
  <2> QED BY <1>1, <1>2, <1>4, <1>5, <2>1 DEF Round
<1>7. Len(archive) \in Nat /\ Len(out) \in Nat /\ archive \in Seq(Seq(Nat)) /\ out \in Seq(Nat)
  <2>1. archive \in Seq(Seq(Nat)) /\ out \in Seq(Nat)
    BY <1>2 DEF Kinds
  <2>2. Len(archive) \in Nat
    BY <2>1, LenProperties
  <2>3. Len(out) \in Nat
    BY <2>1, LenProperties
  <2> QED BY <2>1, <2>2, <2>3
<1>8. /\ DOMAIN workers' = 1 .. k /\ \A v \in 1 .. k : v # w => workers'[v] = workers[v]
      /\ workers'[w].in_block \in Seq(Nat)
  <2>1. workers[w].in_block \in Seq(Nat) /\ IsWorker(workers[w])
    BY <1>2, <1>3 DEF Kinds, PoolInv, Pool
  <2>2. PICK n \in Int : workers = [v \in 1 .. n |-> workers[v]]
    BY <1>2 DEF PoolInv, Pool
  <2>3. CASE workers' = workers
    BY <1>4, <2>1, <2>3
  <2>4. CASE workers' = [workers EXCEPT ![w].future = "idle"]
    <3> DEFINE ended == [workers[w] EXCEPT !.future = "idle"]
    <3>1. ended.in_block = workers[w].in_block
      BY <2>1 DEF IsWorker
    <3>2. workers' = [workers EXCEPT ![w] = ended]
      BY <2>4
    <3> HIDE DEF ended
    <3>3. workers'[w] = ended /\ DOMAIN workers' = 1 .. k
          /\ \A v \in 1 .. k : v # w => workers'[v] = workers[v]
      BY <1>4, <2>2, <3>2
    <3> QED BY <2>1, <3>1, <3>3
  <2> QED BY <1>3, <2>3, <2>4
<1>9. \E cut1 \in [Nat -> Nat] :
        /\ Laid(archive', cut1) /\ archive' \in Seq(Seq(Nat))
        /\ direction = "compress" => out' = out /\ cut1[Len(archive')] = at[w + 1]
        /\ direction # "compress" =>
             /\ archive' = archive /\ cut1 = cut
             /\ out' = Segment(0, at[w + 1]) /\ Len(out') = at[w + 1] /\ out' \in Seq(Nat)
  <2>1. Laid(archive, cut) /\ direction \in {"compress", "decompress"}
    BY <1>1, <1>2, <1>3 DEF Round, Kinds
  <2>2. CASE workers[w].future = "ready" /\ Writing(workers[w].out_block)
    <3> DEFINE block == Segment(at[w], at[w + 1])
    <3>1. workers[w].out_block = block /\ at[w] < at[w + 1]
      BY <1>6, <2>2 DEF Due
    <3>2. block \in Seq(Nat) /\ Len(block) = at[w + 1] - at[w] /\ block # <<>>
      <4>1. \A x, y \in Nat : x < y => x <= y /\ y - x # 0
        OBVIOUS
      <4>2. at[w] <= at[w + 1] /\ at[w + 1] - at[w] # 0
        BY <1>6, <3>1, <4>1
      <4>3. block \in Seq(Nat) /\ Len(block) = at[w + 1] - at[w]
        BY <1>6, <4>2, SegmentSeq
      <4> HIDE DEF block
      <4> QED BY <4>2, <4>3
    <3>3. /\ archive' = IF direction = "compress" THEN Append(archive, block) ELSE archive
          /\ out' = IF direction = "decompress" THEN out \o block ELSE out
      BY <2>2, <3>1, <3>2 DEF Writing
    <3>4. CASE direction = "compress"
      <4> DEFINE n == Len(archive)
                 cut1 == [v \in Nat |-> IF v = n + 1 THEN at[w + 1] ELSE cut[v]]
      <4>1. cut1 \in [Nat -> Nat] /\ cut1[n + 1] = at[w + 1] /\ \A v \in 0 .. n : cut1[v] = cut[v]
        <5>1. n \in Nat
          BY <1>7
        <5> HIDE DEF n
        <5>2. n + 1 \in Nat /\ \A v \in 0 .. n : v \in Nat /\ v # n + 1
          BY <5>1
        <5>3. \A v \in Nat : (IF v = n + 1 THEN at[w + 1] ELSE cut[v]) \in Nat
          BY <1>6
        <5> QED BY <5>2, <5>3
      <4>2. cut[n] = at[w]
        BY <1>6, <3>4 DEF Given
      <4>3. archive' = Append(archive, block)
        BY <3>3, <3>4
      <4> HIDE DEF cut1, block
      <4>4. archive' \in Seq(Seq(Nat)) /\ Len(archive') = n + 1 /\ archive'[n + 1] = block
            /\ \A i \in 1 .. n : archive'[i] = archive[i]
        BY <1>7, <3>2, <4>3, AppendProperties
      <4>5. ASSUME NEW i \in 1 .. n + 1
            PROVE  cut1[i - 1] < cut1[i] /\ archive'[i] = Segment(cut1[i - 1], cut1[i])
        <5>1. CASE i = n + 1
          <6>1. i - 1 = n /\ n \in 0 .. n
            BY <1>7, <5>1
          <6> QED BY <3>1, <4>1, <4>2, <4>4, <5>1, <6>1 DEF block
        <5>2. CASE i # n + 1
          <6>1. i \in 1 .. n /\ i \in 0 .. n /\ i - 1 \in 0 .. n
            <7>1. n \in Nat
              BY <1>7
            <7> HIDE DEF n
            <7> QED BY <5>2, <7>1
          <6> QED BY <2>1, <4>1, <4>4, <6>1 DEF Laid
        <5> QED BY <5>1, <5>2
      <4>6. cut1[0] = 0
        <5>1. 0 \in 0 .. n
          BY <1>7
        <5> QED BY <2>1, <4>1, <5>1 DEF Laid
      <4>7. Laid(archive', cut1)
        BY <4>4, <4>5, <4>6 DEF Laid
      <4> HIDE DEF n
      <4> QED BY <3>3, <3>4, <4>1, <4>4, <4>7
    <3>5. CASE direction = "decompress"
      <4>1. out = Segment(0, Len(out)) /\ Len(out) = at[w]
        BY <1>2, <1>6, <3>5 DEF Kinds, Given
      <4>2. 0 \in Nat /\ 0 <= at[w] /\ at[w] <= at[w + 1] /\ 0 <= at[w + 1] /\ at[w + 1] - 0 = at[w + 1]
        BY <1>6, <3>1
      <4>3. Segment(0, at[w]) \o block = Segment(0, at[w + 1])
        BY <1>6, <4>2, SegmentConcat
      <4>4. Segment(0, at[w + 1]) \in Seq(Nat) /\ Len(Segment(0, at[w + 1])) = at[w + 1]
        <5>1. Len(Segment(0, at[w + 1])) = at[w + 1] - 0 /\ Segment(0, at[w + 1]) \in Seq(Nat)
          BY <1>6, <4>2, SegmentSeq
        <5> QED BY <4>2, <5>1
      <4>5. out' = Segment(0, at[w + 1]) /\ archive' = archive
        <5> HIDE DEF block
        <5> QED BY <3>3, <3>5, <4>1, <4>3
      <4> QED BY <1>7, <2>1, <3>5, <4>4, <4>5
    <3> QED BY <2>1, <3>4, <3>5
  <2>3. CASE workers[w].future = "idle" /\ Writing(<<>>)
    <3>1. at[w + 1] = at[w]
      BY <1>6, <2>3 DEF Due
    <3>2. archive' = archive /\ out' = out
      <4>1. out \o <<>> = out
        BY <1>7, ConcatEmptySeq
      <4> QED BY <2>3, <4>1 DEF Writing
    <3>3. direction = "compress" => cut[Len(archive)] = at[w + 1]
      BY <1>6, <3>1 DEF Given
    <3>4. direction # "compress" => out = Segment(0, at[w + 1]) /\ Len(out) = at[w + 1]
      BY <1>2, <1>6, <3>1 DEF Given, Kinds
    <3> QED BY <1>7, <2>1, <3>2, <3>3, <3>4
  <2> QED BY <1>3, <2>2, <2>3
<1>10. PICK cut1 \in [Nat -> Nat] :
        /\ Laid(archive', cut1) /\ archive' \in Seq(Seq(Nat))
        /\ direction = "compress" => out' = out /\ cut1[Len(archive')] = at[w + 1]
        /\ direction # "compress" =>
             /\ archive' = archive /\ cut1 = cut
             /\ out' = Segment(0, at[w + 1]) /\ Len(out') = at[w + 1] /\ out' \in Seq(Nat)
  BY <1>9
<1>11. Kinds'
  <2>1. \A v \in DOMAIN workers' : workers'[v].in_block \in Seq(Nat)
    BY <1>2, <1>4, <1>8 DEF Kinds
  <2>2. out' \in Seq(Nat) /\ out' = Segment(0, Len(out'))
    BY <1>2, <1>7, <1>10 DEF Kinds
  <2>3. direction' = "compress" => out' = <<>>
    BY <1>2, <1>3, <1>10 DEF Kinds
  <2> QED BY <1>2, <1>3, <1>10, <2>1, <2>2, <2>3 DEF Kinds
<1>12. Taken(cut1)' = Taken(cut)
  BY <1>3, <1>10 DEF Taken
<1>13. Given(cut1)' = at[w + 1]
  BY <1>3, <1>10 DEF Given
<1>14. \A v \in w + 1 .. k : v \in 1 .. k /\ v # w /\ v \in w .. k
  BY <1>2
<1>15. \A v \in w + 1 .. k : Due(workers'[v], at[v], at[v + 1])
  BY <1>1, <1>5, <1>8, <1>14 DEF Round
<1>16. \A v \in w + 1 .. k + 1 : at[v] <= file
  <2>1. \A v \in w + 1 .. k + 1 : v \in w .. k + 1
    BY <1>2
  <2> QED BY <1>1, <1>5, <2>1 DEF Round
<1>17. PICK next \in Nat : next = w + 1 /\ next <= k + 1
  BY <1>4
<1>18. Round(cut1, at, k)'
  <2>1. /\ DOMAIN workers' = 1 .. k /\ w' <= k + 1 /\ Laid(archive', cut1)
        /\ direction' # "compress" => cut1[Len(archive')] = file' /\ position' <= Len(archive')
    BY <1>1, <1>3, <1>8, <1>10, <1>17 DEF Round
  <2>2. Taken(cut1)' <= file' /\ (~ good' => Taken(cut1)' = file')
    BY <1>1, <1>3, <1>12 DEF Round
  <2>3. at[FirstDue'] = Given(cut1)' /\ at[LastDue(k)' + 1] = Taken(cut1)'
    BY <1>1, <1>5, <1>12, <1>13 DEF Round
  <2>4. /\ \A v \in FirstDue' .. LastDue(k)' + 1 : at[v] <= file'
        /\ \A v \in FirstDue' .. LastDue(k)' : Due(workers'[v], at[v], at[v + 1])
    BY <1>3, <1>5, <1>15, <1>16
  <2> QED BY <2>1, <2>2, <2>3, <2>4 DEF Round
<1> QED BY <1>11, <1>18 DEF OrderInv

\* A task ends: what its worker owes is in its output now.
LEMMA FinishOrder == ASSUME OrderInv, PoolInv', NEW u, Finish(u) PROVE OrderInv'
<1>1. PICK cut \in [Nat -> Nat], at \in [Nat -> Nat], k \in Nat : Round(cut, at, k)
  BY DEF OrderInv
<1>2. Kinds /\ PoolInv
  BY DEF OrderInv
<1>3. /\ u \in DOMAIN workers /\ workers[u].future = "running"
      /\ UNCHANGED <<hardware, file, direction, pc, w, good, position, archive, out>>
  BY DEF Finish
<1>4. IsWorker(workers[u]) /\ DOMAIN workers = 1 .. k /\ w \in Nat \ {0}
  BY <1>1, <1>2, <1>3 DEF PoolInv, Pool, Round
<1> DEFINE block == SubSeq(workers[u].in_block, 1, workers[u].size)
           worker == [workers[u] EXCEPT !.future = "ready", !.out_block = block]
<1>5. workers' = [workers EXCEPT ![u] = worker]
  BY <1>3 DEF Finish
<1> HIDE DEF block
<1>6. worker.future = "ready" /\ worker.out_block = block /\ worker.in_block = workers[u].in_block
      /\ worker.size = workers[u].size
  <2>1. PICK f, n, in, o : workers[u] = [future |-> f, size |-> n, in_block |-> in, out_block |-> o]
    BY <1>4 DEF IsWorker
  <2>2. worker = [future |-> "ready", size |-> n, in_block |-> in, out_block |-> block]
    <3>1. PICK ended : ended = [workers[u] EXCEPT !.future = "ready"]
      OBVIOUS
    <3>2. ended = [future |-> "ready", size |-> n, in_block |-> in, out_block |-> o]
      BY <2>1, <3>1
    <3>3. worker = [ended EXCEPT !.out_block = block]
      BY <3>1
    <3> HIDE DEF worker
    <3> QED BY <3>2, <3>3
  <2> QED BY <2>1, <2>2
<1> HIDE DEF worker
<1>7. DOMAIN workers' = 1 .. k /\ \A v \in 1 .. k : workers'[v] = IF v = u THEN worker ELSE workers[v]
  <2>1. PICK n \in Int : workers = [v \in 1 .. n |-> workers[v]]
    BY <1>2 DEF PoolInv, Pool
  <2> QED BY <1>3, <1>4, <1>5, <2>1
<1>8. Kinds'
  <2>1. \A v \in DOMAIN workers' : workers'[v].in_block \in Seq(Nat)
    BY <1>2, <1>3, <1>4, <1>6, <1>7 DEF Kinds
  <2> QED BY <1>2, <1>3, <2>1 DEF Kinds
<1>9. ASSUME NEW from, NEW to, Due(workers[u], from, to) PROVE Due(worker, from, to)
  BY <1>3, <1>6, <1>9 DEF Due, block
<1>10. \A v \in FirstDue .. LastDue(k) : v \in 1 .. k
  <2>1. w <= k + 1 /\ pc \in {"test", "fill", "collect"}
    BY <1>1, <1>2 DEF Round, Kinds
  <2>2. \A x \in Nat \ {0} : x <= k + 1 =>
          (\A v \in x .. k : v \in 1 .. k) /\ (\A v \in 1 .. x - 1 : v \in 1 .. k)
    OBVIOUS
  <2>3. (\A v \in w .. k : v \in 1 .. k) /\ (\A v \in 1 .. w - 1 : v \in 1 .. k) /\ 1 .. 0 = {}
    <3>1. 1 .. 0 = {}
      OBVIOUS
    <3>2. w \in Nat \ {0} /\ w <= k + 1
      BY <1>4, <2>1
    <3>3. (\A v \in w .. k : v \in 1 .. k) /\ (\A v \in 1 .. w - 1 : v \in 1 .. k)
      BY <2>2, <3>2
    <3> QED BY <3>1, <3>3
  <2> QED BY <2>1, <2>3 DEF FirstDue, LastDue
<1>11. \A v \in FirstDue .. LastDue(k) : Due(workers'[v], at[v], at[v + 1])
  BY <1>1, <1>7, <1>9, <1>10 DEF Round
<1>12. FirstDue' = FirstDue /\ LastDue(k)' = LastDue(k) /\ Taken(cut)' = Taken(cut)
       /\ Given(cut)' = Given(cut)
  BY <1>3 DEF FirstDue, LastDue, Taken, Given
<1>13. Round(cut, at, k)'
  BY <1>1, <1>3, <1>7, <1>11, <1>12 DEF Round
<1> QED BY <1>8, <1>13 DEF OrderInv

\* Every step keeps the order.
LEMMA OrderInvStep == OrderInv /\ [Next]_vars => OrderInv'
<1> SUFFICES ASSUME OrderInv, [Next]_vars PROVE OrderInv'
  OBVIOUS
<1>1. PoolInv'
  BY PoolInvStep DEF OrderInv
<1>2. CASE Main
  BY <1>1, <1>2, TestOrder, ReadBlockOrder, ReadArchiveOrder, NextLoopOrder, GetOrder DEF Main
<1>3. CASE \E v \in WorkerIds : Finish(v)
  BY <1>1, <1>3, FinishOrder
<1>4. CASE UNCHANGED vars
  <2>1. PICK cut \in [Nat -> Nat], at \in [Nat -> Nat], k \in Nat : Round(cut, at, k)
    BY DEF OrderInv
  <2>2. FirstDue' = FirstDue /\ LastDue(k)' = LastDue(k) /\ Taken(cut)' = Taken(cut)
        /\ Given(cut)' = Given(cut)
    BY <1>4 DEF FirstDue, LastDue, Taken, Given, vars
  <2>3. Round(cut, at, k)'
    BY <1>4, <2>1, <2>2 DEF Round, vars
  <2>4. Kinds'
    BY <1>4 DEF OrderInv, Kinds, vars
  <2> QED BY <1>1, <2>3, <2>4 DEF OrderInv
<1> QED BY <1>2, <1>3, <1>4 DEF Next

\* The archive holds the blocks in the order of the file, whatever the order in
\* which the tasks end, and is whole when compress_block returns.
THEOREM ArchiveInOrderCorrect == Spec => []ArchiveInOrder
<1>1. OrderInv => ArchiveInOrder
  BY OrderInvImplies
<1> QED BY <1>1, OrderInvInit, OrderInvStep, PTL DEF Spec

\* What the decompressor writes is the file as far as it goes, with another
\* number of workers than compressed it, and all of it in the end.
THEOREM OutputInOrderCorrect == Spec => []OutputInOrder
<1>1. OrderInv => OutputInOrder
  BY OrderInvImplies
<1> QED BY <1>1, OrderInvInit, OrderInvStep, PTL DEF Spec
================================================================================
