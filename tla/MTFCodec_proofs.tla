---------------------------- MODULE MTFCodec_proofs ----------------------------
(***************************************************************************)
(* Theorems about MTFCodec, for every alphabet, list length, hash function *)
(* and table size.  First the lemmas about the operators of MTFBuffer and  *)
(* MTFHashTable.  Most of them are stated for a set P of cells that the    *)
(* operation must not leave, so that the same lemma serves the type of a   *)
(* cell and stronger properties.  At the end, the classic transform.       *)
(***************************************************************************)
EXTENDS MTFCodec, TLAPS, WellFoundedInduction, FiniteSetTheorems, SequenceTheorems

-------------------------------------------------------------------------------
(* Naturals. *)

\* A set of naturals with 0 and closed under successor is all of Nat.
LEMMA NatSetInduction ==
  ASSUME NEW T \in SUBSET Nat, 0 \in T, \A n \in T : n + 1 \in T
  PROVE  T = Nat
<1> DEFINE R == OpToRel(<, Nat)
<1>0. IsWellFoundedOn(R, Nat)
  BY NatLessThanWellFounded
<1>1. SUFFICES ASSUME Nat \ T # {} PROVE FALSE
  OBVIOUS
<1>2. PICK x \in Nat \ T : \A y \in Nat \ T : ~ (<<y, x>> \in R)
  <2> HIDE DEF R
  <2> QED BY <1>0, <1>1, WFMin
<1>3. \A y \in Nat \ T : ~ (y < x)
  BY <1>2 DEF OpToRel
<1> HIDE DEF R
<1>4. x # 0
  OBVIOUS
<1>5. x - 1 \in Nat /\ x - 1 < x
  BY <1>4
<1>6. x - 1 \in T
  BY <1>3, <1>5
<1>7. (x - 1) + 1 \in T
  BY <1>6
<1> QED BY <1>7

\* The least element of a set of naturals exists, and Min finds it.
LEMMA MinOfNats ==
  ASSUME NEW S \in SUBSET Nat, S # {}
  PROVE  Min(S) \in S /\ \A x \in S : Min(S) <= x
<1> DEFINE R == OpToRel(<, Nat)
<1>1. IsWellFoundedOn(R, Nat)
  BY NatLessThanWellFounded
<1>2. PICK x \in S : \A y \in S : ~ (<<y, x>> \in R)
  <2> HIDE DEF R
  <2> QED BY <1>1, WFMin
<1>3. ASSUME NEW y \in S PROVE x <= y
  <2>1. x \in Nat /\ y \in Nat
    OBVIOUS
  <2>2. (y < x) => <<y, x>> \in R
    BY <2>1 DEF OpToRel
  <2>3. ~ (y < x)
    BY <1>2, <2>2
  <2> QED BY <2>1, <2>3
<1> QED BY <1>3 DEF Min

RecursiveOn(S, base, G, n) ==
  \E f \in [0 .. n -> S] : f[0] = base /\ \A i \in 1 .. n : f[i] = G[i][f[i - 1]]

\* A function defined by recursion on an interval exists.
LEMMA IntervalRecursion ==
  ASSUME NEW S, NEW base \in S, NEW G \in [Nat -> [S -> S]], NEW n \in Nat
  PROVE  RecursiveOn(S, base, G, n)
<1> DEFINE Good(m, f) == f[0] = base /\ \A i \in 1 .. m : f[i] = G[i][f[i - 1]]
           T == {m \in Nat : \E f \in [0 .. m -> S] : Good(m, f)}
<1>1. 0 \in T
  <2>1. [i \in 0 .. 0 |-> base] \in [0 .. 0 -> S] /\ Good(0, [i \in 0 .. 0 |-> base])
    OBVIOUS
  <2> QED BY <2>1
<1>2. ASSUME NEW m \in T PROVE m + 1 \in T
  <2>1. PICK f \in [0 .. m -> S] : Good(m, f)
    OBVIOUS
  <2> DEFINE g == [i \in 0 .. m + 1 |-> IF i <= m THEN f[i] ELSE G[m + 1][f[m]]]
  <2>2. f[m] \in S /\ G[m + 1][f[m]] \in S
    OBVIOUS
  <2>3. g \in [0 .. m + 1 -> S]
    BY <2>2
  <2>4. Good(m + 1, g)
    <3>1. g[0] = base
      BY <2>1
    <3>2. ASSUME NEW i \in 1 .. m + 1 PROVE g[i] = G[i][g[i - 1]]
      <4>1. CASE i <= m
        BY <2>1, <4>1
      <4>2. CASE i = m + 1
        BY <4>2
      <4> QED BY <4>1, <4>2
    <3> QED BY <3>1, <3>2
  <2>5. m + 1 \in Nat
    OBVIOUS
  <2> HIDE DEF Good, g
  <2> QED BY <2>3, <2>4, <2>5
<1>3. T = Nat
  <2> HIDE DEF T
  <2>1. T \in SUBSET Nat
    BY DEF T
  <2> QED BY <1>1, <1>2, <2>1, NatSetInduction
<1> QED BY <1>3 DEF RecursiveOn

-------------------------------------------------------------------------------
(* One cell. *)

\* A cell of a new table is well typed.
LEMMA EmptyCellType == EmptyCell \in Cell
BY BufferAssumption DEF EmptyCell, Cell, Slot, Symbol

\* Moving a symbol of the list to its front keeps the cell well typed.
LEMMA ShiftType ==
  ASSUME NEW cell \in Cell, NEW i \in Slot
  PROVE  shift(cell, i) \in Cell
<1> DEFINE b == [j \in Slot |-> IF j = 0 THEN cell.buffer[i]
                               ELSE IF j <= i THEN cell.buffer[j - 1]
                               ELSE cell.buffer[j]]
<1>1. b \in [Slot -> Symbol]
  <2>1. cell.buffer \in [Slot -> Symbol]
    BY DEF Cell
  <2>2. \A j \in Slot : j # 0 => j - 1 \in Slot
    BY BufferAssumption DEF Slot
  <2> QED BY <2>1, <2>2
<1>2. shift(cell, i) = [cell EXCEPT !.buffer = b]
  BY DEF shift
<1> HIDE DEF b
<1> QED BY <1>1, <1>2 DEF Cell

\* So does putting a new symbol there, also when the list is full.
LEMMA AppendType ==
  ASSUME NEW cell \in Cell, NEW c \in Symbol
  PROVE  append(cell, c) \in Cell
<1> DEFINE kept == IF cell.symbols >= SIZE THEN cell.symbols - 1 ELSE cell.symbols
           b == [j \in Slot |-> IF j = 0 THEN c
                               ELSE IF j <= kept THEN cell.buffer[j - 1]
                               ELSE cell.buffer[j]]
<1>1. cell.symbols \in 0 .. SIZE
  BY DEF Cell
<1>2. kept + 1 \in 0 .. SIZE
  BY <1>1, BufferAssumption
<1>3. b \in [Slot -> Symbol]
  <2>1. cell.buffer \in [Slot -> Symbol]
    BY DEF Cell
  <2>2. \A j \in Slot : j # 0 => j - 1 \in Slot
    BY BufferAssumption DEF Slot
  <2> HIDE DEF kept
  <2> QED BY <2>1, <2>2
<1>4. append(cell, c) = [cell EXCEPT !.buffer = b, !.symbols = kept + 1]
  BY DEF append
<1> HIDE DEF b, kept
<1> QED BY <1>2, <1>3, <1>4 DEF Cell

\* And so does a new owner.
LEMMA SetKeyType ==
  ASSUME NEW cell \in Cell, NEW key \in 0 .. UNVISITED
  PROVE  [cell EXCEPT !.key = key] \in Cell
BY BufferAssumption DEF Cell

\* The slot buffer_encode finds a symbol in.
LEMMA HoldingSlot ==
  ASSUME NEW cell \in Cell, NEW c \in Symbol, Holding(cell, c) # {}
  PROVE  /\ Min(Holding(cell, c)) \in Slot
         /\ cell.buffer[Min(Holding(cell, c))] = c
<1>1. Holding(cell, c) \in SUBSET Nat
  BY BufferAssumption DEF Holding, Cell
<1>2. Min(Holding(cell, c)) \in Holding(cell, c)
  BY <1>1, MinOfNats
<1> QED BY <1>2, BufferAssumption DEF Holding, Cell, Slot

\* Encoding in a cell gives a cell and a code of the alphabet.
LEMMA BufferEncodeType ==
  ASSUME NEW cell \in Cell, NEW c \in Symbol
  PROVE  buffer_encode(cell, c).cell \in Cell /\ buffer_encode(cell, c).code \in Codes
<1>1. CASE Holding(cell, c) # {}
  BY <1>1, HoldingSlot, ShiftType, BufferAssumption DEF buffer_encode, Codes, Slot
<1>2. CASE Holding(cell, c) = {}
  BY <1>2, AppendType, BufferAssumption DEF buffer_encode, Codes, Symbol
<1> QED BY <1>1, <1>2

\* Decoding any code in a cell gives a cell and a symbol.
LEMMA BufferDecodeType ==
  ASSUME NEW cell \in Cell, NEW code \in Codes
  PROVE  buffer_decode(cell, code).cell \in Cell /\ buffer_decode(cell, code).symbol \in Symbol
<1>1. CASE code >= SIZE
  <2>1. code - SIZE \in Symbol
    BY <1>1, BufferAssumption DEF Codes, Symbol
  <2> QED BY <1>1, <2>1, AppendType DEF buffer_decode
<1>2. CASE ~ (code >= SIZE)
  <2>1. code \in Slot
    BY <1>2, BufferAssumption DEF Codes, Slot
  <2> QED BY <1>2, <2>1, ShiftType DEF buffer_decode, Cell
<1> QED BY <1>1, <1>2

\* Decoding a code of the same cell gives the symbol back and leaves the cell
\* as encoding left it.
LEMMA BufferInverse ==
  ASSUME NEW cell \in Cell, NEW c \in Symbol
  PROVE  buffer_decode(cell, buffer_encode(cell, c).code) =
           [cell |-> buffer_encode(cell, c).cell, symbol |-> c]
<1>1. CASE Holding(cell, c) # {}
  <2> DEFINE i == Min(Holding(cell, c))
  <2>1. i \in Slot /\ cell.buffer[i] = c
    BY <1>1, HoldingSlot
  <2>2. ~ (i >= SIZE)
    BY <2>1, BufferAssumption DEF Slot
  <2>3. buffer_encode(cell, c) = [cell |-> shift(cell, i), code |-> i]
    BY <1>1 DEF buffer_encode
  <2> HIDE DEF i
  <2> QED BY <2>1, <2>2, <2>3 DEF buffer_decode
<1>2. CASE Holding(cell, c) = {}
  <2>1. c + SIZE >= SIZE /\ (c + SIZE) - SIZE = c
    BY BufferAssumption DEF Symbol
  <2>2. buffer_encode(cell, c) = [cell |-> append(cell, c), code |-> c + SIZE]
    BY <1>2 DEF buffer_encode
  <2> QED BY <2>1, <2>2 DEF buffer_decode
<1> QED BY <1>1, <1>2

-------------------------------------------------------------------------------
(* Probing.  A set P of cells is kept by a step when the step finds only     *)
(* cells of P and leaves only cells of P.                                    *)

KeptByKey(P) ==
  \A cell \in P, key \in 0 .. UNVISITED - 1 :
    is_visited(cell) => [cell EXCEPT !.key = key] \in P

\* A cell after keep_track: a free one has got the key.
Owned(cell, key) == IF is_visited(cell) THEN cell ELSE [cell EXCEPT !.key = key]

\* A probe stays in the table: it wraps around.
LEMMA ProbedInTable ==
  ASSUME NEW n \in Nat \ {0}, NEW key \in Nat, NEW i \in Nat
  PROVE  Probed(i, key, n) \in 0 .. n - 1
BY DEF Probed

\* There is at least one probe, so there is a last one.
LEMMA ProbeLimitPositive ==
  ASSUME NEW n \in Nat \ {0}, NEW used, NEW size
  PROVE  ProbeLimit(n, used, size) \in Nat \ {0}
BY TableAssumption DEF ProbeLimit

\* linear_probe settles on a cell of the table.
LEMMA ProbeInTable ==
  ASSUME NEW n \in Nat \ {0}, NEW key \in Nat, NEW table, NEW used, NEW size
  PROVE  linear_probe(table, n, used, size, key).index \in 0 .. n - 1
<1> DEFINE limit == ProbeLimit(n, used, size)
           hits == Hits(table, n, limit, key)
<1>1. limit \in Nat \ {0}
  BY ProbeLimitPositive
<1>2. CASE hits # {}
  <2>1. hits \in SUBSET Nat
    BY <1>1 DEF Hits
  <2>2. Min(hits) \in Nat
    <3> HIDE DEF hits
    <3> QED BY <1>2, <2>1, MinOfNats
  <2>3. linear_probe(table, n, used, size, key).index = Probed(Min(hits), key, n)
    BY <1>2 DEF linear_probe
  <2> QED BY <2>2, <2>3, ProbedInTable
<1>3. CASE hits = {}
  <2>1. linear_probe(table, n, used, size, key).index = Probed(limit - 1, key, n)
    BY <1>3 DEF linear_probe
  <2>2. limit - 1 \in Nat
    BY <1>1
  <2> QED BY <2>1, <2>2, ProbedInTable
<1> QED BY <1>2, <1>3

\* Whether or not it takes a cell over, linear_probe keeps every set of cells
\* that a change of key keeps.
LEMMA ProbeKeeps ==
  ASSUME NEW P, KeptByKey(P), NEW n \in Nat \ {0}, NEW table \in [0 .. n - 1 -> P],
         NEW key \in 0 .. UNVISITED - 1, NEW used, NEW size
  PROVE  linear_probe(table, n, used, size, key).table \in [0 .. n - 1 -> P]
<1> DEFINE limit == ProbeLimit(n, used, size)
           hits == Hits(table, n, limit, key)
           last == Probed(limit - 1, key, n)
<1>1. CASE hits # {}
  BY <1>1 DEF linear_probe
<1>2. CASE hits = {}
  <2>1. limit - 1 \in Nat
    BY ProbeLimitPositive
  <2>2. last \in 0 .. n - 1
    <3>1. key \in Nat
      BY BufferAssumption
    <3> HIDE DEF limit
    <3> QED BY <2>1, <3>1, ProbedInTable
  <2>3. is_visited(table[last])
    <3>1. limit - 1 \in 0 .. limit - 1
      BY <2>1
    <3> HIDE DEF limit
    <3> QED BY <1>2, <3>1 DEF Hits, is_visited
  <2>4. [table[last] EXCEPT !.key = key] \in P
    BY <2>2, <2>3 DEF KeptByKey
  <2>5. linear_probe(table, n, used, size, key).table = [table EXCEPT ![last].key = key]
    BY <1>2 DEF linear_probe
  <2> HIDE DEF last
  <2> QED BY <2>2, <2>4, <2>5
<1> QED BY <1>1, <1>2

-------------------------------------------------------------------------------
(* Rehashing. *)

\* Copying one cell keeps the new table over P.
LEMMA RehashCellKeeps ==
  ASSUME NEW P, KeptByKey(P), P \subseteq Cell, NEW n \in Nat \ {0},
         NEW done \in [table : [0 .. 2 * n - 1 -> P], used : Nat], NEW cell \in P
  PROVE  RehashCell(done, cell, n) \in [table : [0 .. 2 * n - 1 -> P], used : Nat]
<1> DEFINE at == linear_probe(done.table, 2 * n, done.used, n, cell.key)
<1>1. CASE is_visited(cell)
  <2>1. cell.key \in 0 .. UNVISITED - 1 /\ cell.key \in Nat
    BY <1>1, BufferAssumption DEF is_visited, Cell
  <2>2. 2 * n \in Nat \ {0}
    OBVIOUS
  <2>3. at.table \in [0 .. 2 * n - 1 -> P]
    BY <2>1, <2>2, ProbeKeeps
  <2>4. at.index \in 0 .. 2 * n - 1
    BY <2>1, <2>2, ProbeInTable
  <2>5. RehashCell(done, cell, n) = [table |-> [at.table EXCEPT ![at.index] = cell],
                                     used |-> done.used + 1]
    BY <1>1 DEF RehashCell
  <2> HIDE DEF at
  <2> QED BY <2>3, <2>4, <2>5
<1>2. CASE ~ is_visited(cell)
  BY <1>2 DEF RehashCell
<1> QED BY <1>1, <1>2

\* The recursive function of RehashSteps is what its definition says.
LEMMA RehashUnfold ==
  ASSUME NEW P, KeptByKey(P), P \subseteq Cell, EmptyCell \in P,
         NEW n \in Nat \ {0}, NEW table \in [0 .. n - 1 -> P]
  PROVE  LET step == RehashSteps(table, n)
             Partial == [table : [0 .. 2 * n - 1 -> P], used : Nat]
         IN  /\ step \in [0 .. n -> Partial]
             /\ step[0] = [table |-> EmptyTable(2 * n), used |-> 0]
             /\ \A i \in 1 .. n : step[i] = RehashCell(step[i - 1], table[i - 1], n)
<1> DEFINE Partial == [table : [0 .. 2 * n - 1 -> P], used : Nat]
           base == [table |-> EmptyTable(2 * n), used |-> 0]
           step == RehashSteps(table, n)
           G == [i \in Nat |-> [d \in Partial |->
                   IF i \in 1 .. n THEN RehashCell(d, table[i - 1], n) ELSE d]]
<1>1. base \in Partial
  BY DEF EmptyTable
<1>2. \A i \in 1 .. n, d \in Partial : RehashCell(d, table[i - 1], n) \in Partial
  <2> TAKE i \in 1 .. n, d \in Partial
  <2>1. table[i - 1] \in P
    OBVIOUS
  <2> QED BY <2>1, RehashCellKeeps
<1>3. G \in [Nat -> [Partial -> Partial]]
  <2> HIDE DEF Partial
  <2> QED BY <1>2
<1>4. PICK f \in [0 .. n -> Partial] : f[0] = base /\ \A i \in 1 .. n : f[i] = G[i][f[i - 1]]
  <2>1. n \in Nat
    OBVIOUS
  <2> HIDE DEF Partial, base, G
  <2>2. RecursiveOn(Partial, base, G, n)
    BY <1>1, <1>3, <2>1, IntervalRecursion
  <2> QED BY <2>2 DEF RecursiveOn
<1>5. f = [i \in 0 .. n |-> IF i = 0 THEN base ELSE RehashCell(f[i - 1], table[i - 1], n)]
  <2> HIDE DEF Partial, base
  <2>1. ASSUME NEW i \in 1 .. n PROVE f[i] = RehashCell(f[i - 1], table[i - 1], n)
    <3>1. i \in Nat /\ f[i - 1] \in Partial
      OBVIOUS
    <3> QED BY <1>4, <3>1
  <2>2. f[0] = base
    BY <1>4
  <2> HIDE DEF G
  <2> QED BY <2>1, <2>2
<1>6. step = [i \in 0 .. n |-> IF i = 0 THEN base ELSE RehashCell(step[i - 1], table[i - 1], n)]
  BY <1>5 DEF RehashSteps
<1>7. step[0] = base /\ \A i \in 1 .. n : step[i] = RehashCell(step[i - 1], table[i - 1], n)
  <2> HIDE DEF step, base
  <2> QED BY <1>6
<1>8. \A m \in 0 .. n : step[m] \in Partial
  <2> DEFINE T == {m \in Nat : m <= n => step[m] \in Partial}
  <2> HIDE DEF step, base, Partial
  <2>1. 0 \in T
    BY <1>1, <1>7
  <2>2. ASSUME NEW m \in T PROVE m + 1 \in T
    <3>1. CASE m + 1 <= n
      <4>1. m + 1 \in 1 .. n /\ (m + 1) - 1 = m /\ step[m] \in Partial
        BY <3>1
      <4>2. RehashCell(step[m], table[m], n) \in Partial
        BY <1>2, <4>1
      <4>3. step[m + 1] = RehashCell(step[m], table[m], n)
        BY <1>7, <4>1
      <4> QED BY <4>1, <4>2, <4>3
    <3> QED BY <3>1
  <2>3. T = Nat
    <3> HIDE DEF T
    <3>1. T \in SUBSET Nat
      BY DEF T
    <3> QED BY <2>1, <2>2, <3>1, NatSetInduction
  <2> QED BY <2>3
<1>9. step \in [0 .. n -> Partial]
  <2> HIDE DEF step, base, Partial
  <2> QED BY <1>6, <1>8
<1> QED BY <1>7, <1>9

\* And so does copying all of them.
LEMMA RehashKeeps ==
  ASSUME NEW P, KeptByKey(P), P \subseteq Cell, EmptyCell \in P,
         NEW n \in Nat \ {0}, NEW table \in [0 .. n - 1 -> P]
  PROVE  RehashSteps(table, n)[n] \in [table : [0 .. 2 * n - 1 -> P], used : Nat]
<1>1. n \in 0 .. n
  OBVIOUS
<1>2. RehashSteps(table, n) \in [0 .. n -> [table : [0 .. 2 * n - 1 -> P], used : Nat]]
  BY RehashUnfold
<1> QED BY <1>1, <1>2

\* What a rehash of cells of P gives is a table of cells of P.
LEMMA DoubleKeeps ==
  ASSUME NEW P, KeptByKey(P), P \subseteq Cell, EmptyCell \in P, NEW h, TableOver(P, h)
  PROVE  TableOver(P, double_table(h))
<1> DEFINE done == RehashSteps(h.table, h.size)[h.size]
<1>1. CASE OverLoad(h.used_cells, h.size) /\ 2 * h.size <= h.max_table_size
  <2>1. h.size \in Nat \ {0} /\ h.table \in [0 .. h.size - 1 -> P]
    BY DEF TableOver
  <2>2. done \in [table : [0 .. 2 * h.size - 1 -> P], used : Nat]
    BY <2>1, RehashKeeps
  <2>3. double_table(h) = [h EXCEPT !.table = done.table, !.used_cells = done.used,
                                    !.size = 2 * h.size]
    BY <1>1 DEF double_table
  <2>4. 2 * h.size \in Nat \ {0}
    BY <2>1
  <2> HIDE DEF done
  <2> QED BY <2>2, <2>3, <2>4 DEF TableOver
<1>2. CASE ~ (OverLoad(h.used_cells, h.size) /\ 2 * h.size <= h.max_table_size)
  BY <1>2 DEF double_table
<1> QED BY <1>1, <1>2

\* A hash is never the key of a cell that was not visited.
LEMMA HashType ==
  ASSUME NEW P, NEW h, TableOver(P, h)
  PROVE  get_hash(h) \in 0 .. UNVISITED - 1 /\ get_hash(h) \in Nat
<1>1. RawHash[h.seed][h.context] \in Nat
  BY TableAssumption DEF TableOver
<1> QED BY <1>1, BufferAssumption DEF get_hash

\* The context keeps its length.
LEMMA PushType ==
  ASSUME NEW context \in Context, NEW c \in Symbol
  PROVE  push(context, c) \in Context
BY TableAssumption DEF push, Context

\* The cell a symbol is coded with is a cell of the table.
LEMMA LookupKeeps ==
  ASSUME NEW P, KeptByKey(P), NEW h, TableOver(P, h)
  PROVE  /\ Lookup(h).index \in 0 .. h.size - 1
         /\ Lookup(h).table \in [0 .. h.size - 1 -> P]
         /\ Lookup(h).table[Lookup(h).index] \in P
<1>1. h.size \in Nat \ {0} /\ h.table \in [0 .. h.size - 1 -> P]
  BY DEF TableOver
<1>2. Lookup(h).index \in 0 .. h.size - 1
  BY <1>1, HashType, ProbeInTable DEF Lookup
<1>3. Lookup(h).table \in [0 .. h.size - 1 -> P]
  BY <1>1, HashType, ProbeKeeps DEF Lookup
<1> QED BY <1>2, <1>3

\* Putting a cell back: only what it is once it has an owner counts.
LEMMA StoreKeeps ==
  ASSUME NEW P, KeptByKey(P), P \subseteq Cell, EmptyCell \in P, NEW h, TableOver(P, h),
         NEW cell \in Cell, Owned(cell, get_hash(h)) \in P, NEW c \in Symbol
  PROVE  TableOver(P, Store(h, cell, c))
<1> DEFINE at == Lookup(h)
           key == get_hash(h)
           g == [h EXCEPT !.table = [at.table EXCEPT ![at.index] = cell]]
           stored == keep_track(g, at.index, key)
<1>1. at.index \in 0 .. h.size - 1 /\ at.table \in [0 .. h.size - 1 -> P]
  BY LookupKeeps
<1>2. h.size \in Nat \ {0} /\ h.used_cells + 1 \in Nat
  BY DEF TableOver
<1>3. g.table[at.index] = cell
  <2> HIDE DEF at
  <2> QED BY <1>1 DEF TableOver
<1>4. TableOver(P, stored)
  <2>1. CASE is_visited(cell)
    <3>1. stored = g
      BY <1>3, <2>1 DEF keep_track
    <3>2. cell \in P
      BY <2>1 DEF Owned
    <3>3. TableOver(P, g)
      <4> HIDE DEF at
      <4> QED BY <1>1, <3>2 DEF TableOver
    <3> QED BY <3>1, <3>3
  <2>2. CASE ~ is_visited(cell)
    <3> DEFINE owned == [cell EXCEPT !.key = key]
               t == [at.table EXCEPT ![at.index] = owned]
               f == [h EXCEPT !.used_cells = h.used_cells + 1, !.table = t]
    <3>1. owned \in P
      BY <2>2 DEF Owned
    <3>2. t \in [0 .. h.size - 1 -> P]
      <4> HIDE DEF at, owned
      <4> QED BY <1>1, <3>1
    <3>3. TableOver(P, f)
      <4> HIDE DEF t
      <4>1. f.size = h.size
        BY DEF TableOver
      <4> QED BY <1>2, <3>2, <4>1 DEF TableOver
    <3>4. f = [g EXCEPT !.used_cells = @ + 1, !.table[at.index].key = key]
      <4>1. [g.table EXCEPT ![at.index].key = key] = t
        <5> HIDE DEF at, key
        <5> QED BY <1>1, <1>3 DEF TableOver
      <4>2. g.used_cells = h.used_cells
        BY DEF TableOver
      <4> HIDE DEF at, key, t
      <4> QED BY <4>1, <4>2 DEF TableOver
    <3>5. stored = double_table(f)
      BY <1>3, <2>2, <3>4 DEF keep_track
    <3> HIDE DEF f
    <3> QED BY <3>3, <3>5, DoubleKeeps
  <2> QED BY <2>1, <2>2
<1>5. Store(h, cell, c) = [stored EXCEPT !.context = push(@, c)]
  BY DEF Store
<1>6. push(stored.context, c) \in Context
  <2> HIDE DEF stored
  <2> QED BY <1>4, PushType DEF TableOver
<1> HIDE DEF stored
<1> QED BY <1>4, <1>5, <1>6 DEF TableOver

\* Filling the context leaves the table as it is.
LEMMA FillKeeps ==
  ASSUME NEW P, NEW h, TableOver(P, h), Filling(h), NEW c \in Symbol
  PROVE  TableOver(P, Fill(h, c))
<1>1. push(h.context, c) \in Context
  BY PushType DEF TableOver
<1>2. h.kmer_chars + 1 \in 0 .. K
  BY TableAssumption DEF Filling, TableOver
<1> QED BY <1>1, <1>2 DEF Fill, TableOver

-------------------------------------------------------------------------------
(* One symbol. *)

\* Encoding a symbol keeps every set of cells that coding in a list keeps.
LEMMA EncodeKeeps ==
  ASSUME NEW P, KeptByKey(P), P \subseteq Cell, EmptyCell \in P,
         \A cell \in P, c \in Symbol, key \in 0 .. UNVISITED - 1 :
            Owned(buffer_encode(cell, c).cell, key) \in P,
         NEW h, TableOver(P, h), NEW c \in Symbol
  PROVE  TableOver(P, mtf_encode(h, c).next) /\ mtf_encode(h, c).code \in Codes
<1>1. CASE Filling(h)
  <2>1. c + SIZE \in Codes
    BY BufferAssumption DEF Symbol, Codes
  <2> QED BY <1>1, <2>1, FillKeeps DEF mtf_encode
<1>2. CASE ~ Filling(h)
  <2> DEFINE cell == Lookup(h).table[Lookup(h).index]
  <2>1. cell \in P
    BY LookupKeeps
  <2>2. /\ buffer_encode(cell, c).cell \in Cell
        /\ buffer_encode(cell, c).code \in Codes
        /\ Owned(buffer_encode(cell, c).cell, get_hash(h)) \in P
    BY <2>1, BufferEncodeType, HashType
  <2>3. mtf_encode(h, c) = [next |-> Store(h, buffer_encode(cell, c).cell, c),
                            code |-> buffer_encode(cell, c).code]
    BY <1>2 DEF mtf_encode
  <2> HIDE DEF cell
  <2> QED BY <2>2, <2>3, StoreKeeps
<1> QED BY <1>1, <1>2

\* The cells of the type are kept whatever key they get.
LEMMA CellsKept ==
  /\ KeptByKey(Cell) /\ EmptyCell \in Cell
  /\ \A cell \in Cell, key \in 0 .. UNVISITED - 1 : Owned(cell, key) \in Cell
BY SetKeyType, EmptyCellType, BufferAssumption DEF KeptByKey, Owned

\* Counting a cell, and the doubling it may set off, keep the type.
LEMMA KeepTrackType ==
  ASSUME NEW h, TableType(h),
         NEW index \in 0 .. h.size - 1, NEW key \in 0 .. UNVISITED - 1
  PROVE  TableType(keep_track(h, index, key))
<1> DEFINE t == [h.table EXCEPT ![index] = [h.table[index] EXCEPT !.key = key]]
           g == [h EXCEPT !.used_cells = @ + 1, !.table[index].key = key]
<1>1. t \in [0 .. h.size - 1 -> Cell]
  BY SetKeyType, BufferAssumption DEF TableType, TableOver
<1>2. g = [h EXCEPT !.used_cells = h.used_cells + 1, !.table = t]
  BY DEF TableType, TableOver
<1>3. TableOver(Cell, g)
  <2>1. h.used_cells + 1 \in Nat
    BY DEF TableType, TableOver
  <2> HIDE DEF t, g
  <2>2. g.size = h.size
    BY <1>2 DEF TableType, TableOver
  <2> QED BY <1>1, <1>2, <2>1, <2>2 DEF TableType, TableOver
<1>4. TableOver(Cell, double_table(g))
  <2> HIDE DEF g
  <2> QED BY <1>3, DoubleKeeps, CellsKept
<1> QED BY <1>4 DEF keep_track, TableType

\* mtf_encode keeps the type of the object, and its code is in the alphabet.
LEMMA EncodeType ==
  ASSUME NEW h, TableType(h), NEW c \in Symbol
  PROVE  TableType(mtf_encode(h, c).next) /\ mtf_encode(h, c).code \in Codes
BY EncodeKeeps, CellsKept, BufferEncodeType DEF TableType

\* A code decodes to a symbol whatever the table holds; while the context is
\* being filled it has to be an escape.
LEMMA DecodeType ==
  ASSUME NEW h, TableType(h), NEW code \in Codes, Filling(h) => code >= SIZE
  PROVE  TableType(mtf_decode(h, code).next) /\ mtf_decode(h, code).symbol \in Symbol
<1>1. CASE Filling(h)
  <2>1. code - SIZE \in Symbol
    BY <1>1, BufferAssumption DEF Symbol, Codes
  <2> QED BY <1>1, <2>1, FillKeeps DEF mtf_decode, TableType
<1>2. CASE ~ Filling(h)
  <2> DEFINE cell == Lookup(h).table[Lookup(h).index]
             out == buffer_decode(cell, code)
  <2>1. cell \in Cell
    BY LookupKeeps, CellsKept DEF TableType
  <2>2. out.cell \in Cell /\ out.symbol \in Symbol
    BY <2>1, BufferDecodeType
  <2>3. mtf_decode(h, code) = [next |-> Store(h, out.cell, out.symbol), symbol |-> out.symbol]
    BY <1>2 DEF mtf_decode
  <2>4. Owned(out.cell, get_hash(h)) \in Cell
    BY <2>2, CellsKept, HashType DEF TableType
  <2> HIDE DEF out
  <2> QED BY <2>2, <2>3, <2>4, StoreKeeps, CellsKept DEF TableType
<1> QED BY <1>1, <1>2

\* mtf_decode undoes mtf_encode: started from the same object it gives back
\* the symbol and ends with the same object.
LEMMA CodecInverse ==
  ASSUME NEW h, TableType(h), NEW c \in Symbol
  PROVE  mtf_decode(h, mtf_encode(h, c).code) = [next |-> mtf_encode(h, c).next, symbol |-> c]
<1>1. CASE Filling(h)
  <2>1. (c + SIZE) - SIZE = c
    BY BufferAssumption DEF Symbol
  <2> QED BY <1>1, <2>1 DEF mtf_encode, mtf_decode
<1>2. CASE ~ Filling(h)
  <2> DEFINE cell == Lookup(h).table[Lookup(h).index]
             e == buffer_encode(cell, c)
             d == buffer_decode(cell, e.code)
  <2>1. cell \in Cell
    BY LookupKeeps, CellsKept DEF TableType
  <2>2. d = [cell |-> e.cell, symbol |-> c]
    BY <2>1, BufferInverse
  <2>3. mtf_encode(h, c) = [next |-> Store(h, e.cell, c), code |-> e.code]
    BY <1>2 DEF mtf_encode
  <2>4. mtf_decode(h, e.code) = [next |-> Store(h, d.cell, d.symbol), symbol |-> d.symbol]
    BY <1>2 DEF mtf_decode
  <2> HIDE DEF e, d
  <2> QED BY <2>2, <2>3, <2>4
<1> QED BY <1>1, <1>2

\* The constructor makes a well typed object.
LEMMA NewTableType ==
  ASSUME NEW m \in Nat, NEW seed \in Seeds
  PROVE  TableType(NewTable(m, seed))
<1>1. m \div CellBytes \in Nat
  BY TableAssumption
<1>2. EmptyTable(INITIAL_SIZE) \in [0 .. INITIAL_SIZE - 1 -> Cell]
  BY EmptyCellType DEF EmptyTable
<1>3. [j \in 1 .. K |-> 0] \in Context
  BY BufferAssumption DEF Context, Symbol
<1> QED BY <1>1, <1>2, <1>3, TableAssumption DEF NewTable, TableType, TableOver

-------------------------------------------------------------------------------
(* Lists without repetitions. *)

Distinct == {cell \in Cell : NoRepeat(cell) /\ (is_visited(cell) <=> cell.symbols > 0)}

\* Moving a symbol to the front brings no symbol in twice.
LEMMA ShiftNoRepeat ==
  ASSUME NEW cell \in Cell, NoRepeat(cell), NEW i \in 0 .. cell.symbols - 1
  PROVE  NoRepeat(shift(cell, i)) /\ shift(cell, i).symbols = cell.symbols
                                  /\ shift(cell, i).key = cell.key
<1> DEFINE new == shift(cell, i)
<1>1. new.symbols = cell.symbols /\ new.key = cell.key
  BY DEF shift, Cell
<1>2. \A j \in Slot : new.buffer[j] = IF j = 0 THEN cell.buffer[i]
                                      ELSE IF j <= i THEN cell.buffer[j - 1]
                                      ELSE cell.buffer[j]
  BY DEF shift, Cell
<1>3. cell.symbols \in 0 .. SIZE /\ 0 .. cell.symbols - 1 \subseteq Slot
  BY BufferAssumption DEF Cell, Slot
<1> DEFINE old(j) == IF j = 0 THEN i ELSE IF j <= i THEN j - 1 ELSE j
<1>4. \A j \in 0 .. cell.symbols - 1 :
        old(j) \in 0 .. cell.symbols - 1 /\ new.buffer[j] = cell.buffer[old(j)]
  <2> HIDE DEF new
  <2> QED BY <1>2, <1>3
<1>5. \A j, k \in 0 .. cell.symbols - 1 : old(j) = old(k) => j = k
  BY <1>3
<1>6. NoRepeat(new)
  <2> HIDE DEF new, old
  <2> QED BY <1>1, <1>4, <1>5 DEF NoRepeat
<1> QED BY <1>1, <1>6

\* Nor does a symbol that the list did not hold.
LEMMA AppendNoRepeat ==
  ASSUME NEW cell \in Cell, NoRepeat(cell), NEW c \in Symbol, Holding(cell, c) = {}
  PROVE  NoRepeat(append(cell, c)) /\ append(cell, c).symbols > 0
                                   /\ append(cell, c).key = cell.key
<1> DEFINE kept == IF cell.symbols >= SIZE THEN cell.symbols - 1 ELSE cell.symbols
           new == append(cell, c)
<1>1. cell.symbols \in 0 .. SIZE
  BY DEF Cell
<1>2. kept \in 0 .. cell.symbols /\ kept + 1 \in 1 .. SIZE /\ 0 .. kept \subseteq Slot
  BY <1>1, BufferAssumption DEF Slot
<1>3. new.symbols = kept + 1 /\ new.key = cell.key
  BY DEF append, Cell
<1>4. \A j \in Slot : new.buffer[j] = IF j = 0 THEN c
                                      ELSE IF j <= kept THEN cell.buffer[j - 1]
                                      ELSE cell.buffer[j]
  BY DEF append, Cell
<1>5. \A j \in 0 .. cell.symbols - 1 : cell.buffer[j] # c
  BY DEF Holding
<1>6. ASSUME NEW j \in 0 .. new.symbols - 1, NEW k \in 0 .. new.symbols - 1,
             new.buffer[j] = new.buffer[k]
      PROVE  j = k
  <2> HIDE DEF new, kept
  <2>1. j \in 0 .. kept /\ k \in 0 .. kept
    BY <1>2, <1>3
  <2>2. CASE j = 0 \/ k = 0
    BY <1>1, <1>2, <1>4, <1>5, <1>6, <2>1, <2>2
  <2>3. CASE j # 0 /\ k # 0
    <3>1. j - 1 \in 0 .. cell.symbols - 1 /\ k - 1 \in 0 .. cell.symbols - 1
      BY <1>1, <1>2, <2>1, <2>3
    <3>2. cell.buffer[j - 1] = cell.buffer[k - 1]
      BY <1>2, <1>4, <1>6, <2>1, <2>3
    <3>3. j - 1 = k - 1
      BY <3>1, <3>2 DEF NoRepeat
    <3> QED BY <2>1, <3>3, <1>2
  <2> QED BY <2>2, <2>3
<1>7. NoRepeat(new)
  <2> HIDE DEF new
  <2> QED BY <1>6 DEF NoRepeat
<1>8. new.symbols > 0
  BY <1>2, <1>3
<1> QED BY <1>3, <1>7, <1>8

\* So encoding in a cell keeps its symbols distinct.
LEMMA EncodeDistinct ==
  ASSUME NEW cell \in Distinct, NEW c \in Symbol, NEW key \in 0 .. UNVISITED - 1
  PROVE  Owned(buffer_encode(cell, c).cell, key) \in Distinct
<1> DEFINE new == buffer_encode(cell, c).cell
<1>1. cell \in Cell /\ NoRepeat(cell)
  BY DEF Distinct
<1>2. new \in Cell
  BY <1>1, BufferEncodeType
<1>3. NoRepeat(new) /\ new.symbols > 0
  <2>1. CASE Holding(cell, c) # {}
    <3> DEFINE i == Min(Holding(cell, c))
    <3>1. i \in 0 .. cell.symbols - 1
      <4>1. Holding(cell, c) \in SUBSET Nat
        BY <1>1, BufferAssumption DEF Holding, Cell
      <4>2. i \in Holding(cell, c)
        BY <2>1, <4>1, MinOfNats
      <4> QED BY <4>2 DEF Holding
    <3>2. new = shift(cell, i)
      BY <2>1 DEF buffer_encode
    <3>3. cell.symbols > 0
      BY <1>1, <3>1 DEF Cell
    <3> HIDE DEF i, new
    <3> QED BY <1>1, <3>1, <3>2, <3>3, ShiftNoRepeat
  <2>2. CASE Holding(cell, c) = {}
    <3>1. new = append(cell, c)
      BY <2>2 DEF buffer_encode
    <3> HIDE DEF new
    <3> QED BY <1>1, <2>2, <3>1, AppendNoRepeat
  <2> QED BY <2>1, <2>2
<1>4. ASSUME is_visited(new) PROVE Owned(new, key) \in Distinct
  <2> HIDE DEF new
  <2> QED BY <1>2, <1>3, <1>4 DEF Owned, Distinct
<1>5. ASSUME ~ is_visited(new) PROVE Owned(new, key) \in Distinct
  <2> DEFINE own == [new EXCEPT !.key = key]
  <2>1. own \in Cell
    BY <1>2, SetKeyType, BufferAssumption
  <2>2. Owned(new, key) = own
    BY <1>5 DEF Owned
  <2> HIDE DEF new
  <2>3. own.buffer = new.buffer /\ own.symbols = new.symbols /\ own.key = key
    BY <1>2 DEF Cell
  <2> HIDE DEF own
  <2>4. is_visited(own)
    BY <2>3, BufferAssumption DEF is_visited
  <2>5. NoRepeat(own)
    BY <1>3, <2>3 DEF NoRepeat
  <2> QED BY <1>3, <2>1, <2>2, <2>3, <2>4, <2>5 DEF Distinct
<1> QED BY <1>4, <1>5

\* Distinctness does not depend on the key, so thefts and copies keep it.
LEMMA DistinctKept == KeptByKey(Distinct) /\ Distinct \subseteq Cell /\ EmptyCell \in Distinct
<1>1. KeptByKey(Distinct)
  <2> SUFFICES ASSUME NEW cell \in Distinct, NEW key \in 0 .. UNVISITED - 1, is_visited(cell)
               PROVE  [cell EXCEPT !.key = key] \in Distinct
    BY DEF KeptByKey
  <2> DEFINE new == [cell EXCEPT !.key = key]
  <2>1. cell \in Cell /\ NoRepeat(cell) /\ cell.symbols > 0
    BY DEF Distinct
  <2>2. new \in Cell
    BY <2>1, SetKeyType, BufferAssumption
  <2>3. new.buffer = cell.buffer /\ new.symbols = cell.symbols /\ new.key = key
    BY <2>1 DEF Cell
  <2> HIDE DEF new
  <2>4. NoRepeat(new) /\ is_visited(new)
    BY <2>1, <2>3, BufferAssumption DEF NoRepeat, is_visited
  <2>5. new \in Distinct
    BY <2>1, <2>2, <2>3, <2>4 DEF Distinct
  <2> QED BY <2>5 DEF new
<1>2. EmptyCell \in Distinct
  <2>1. EmptyCell.symbols = 0 /\ EmptyCell.key = UNVISITED
    BY DEF EmptyCell
  <2>2. NoRepeat(EmptyCell)
    BY <2>1 DEF NoRepeat
  <2> QED BY <2>1, <2>2, EmptyCellType DEF Distinct, is_visited
<1> QED BY <1>1, <1>2 DEF Distinct

\* A table all of whose cells have an owner exactly if they have a symbol, and
\* none holds a symbol twice.
Listed(h) == TableOver(Distinct, h)

\* An object with distinct lists is well typed.
LEMMA ListedType ==
  ASSUME NEW h, Listed(h)
  PROVE  TableType(h)
BY DistinctKept DEF Listed, TableType, TableOver

\* mtf_encode keeps the lists distinct.
LEMMA EncodeListed ==
  ASSUME NEW h, Listed(h), NEW c \in Symbol
  PROVE  Listed(mtf_encode(h, c).next)
BY DistinctKept, EncodeDistinct, EncodeKeeps DEF Listed

\* They are distinct, being empty, in a new table.
LEMMA NewTableListed ==
  ASSUME NEW m \in Nat, NEW seed \in Seeds
  PROVE  Listed(NewTable(m, seed))
<1>1. TableType(NewTable(m, seed))
  BY NewTableType
<1>2. NewTable(m, seed).table = EmptyTable(INITIAL_SIZE) /\ NewTable(m, seed).size = INITIAL_SIZE
  BY DEF NewTable
<1>3. EmptyTable(INITIAL_SIZE) \in [0 .. INITIAL_SIZE - 1 -> Distinct]
  BY DistinctKept DEF EmptyTable
<1> QED BY <1>1, <1>2, <1>3 DEF Listed, TableType, TableOver

-------------------------------------------------------------------------------
(* Type correctness.  The type of the decoder needs to know that the codes   *)
(* it reads while it fills its context are escapes, hence how far each end   *)
(* has filled its own.                                                       *)

Filled(n) == IF n < K THEN n ELSE K

Priming ==
  /\ Len(codes) = Len(sent)
  /\ Len(decoded) <= Len(codes)
  /\ enc.kmer_chars = Filled(Len(sent))
  /\ dec.kmer_chars = Filled(Len(decoded))
  /\ \A i \in 1 .. Len(codes) : i <= K => codes[i] >= SIZE

\* Encoding and decoding count the symbols that fill the context, and no more.
LEMMA StoreFilled ==
  ASSUME NEW h, TableType(h), NEW cell \in Cell, NEW c \in Symbol
  PROVE  /\ Store(h, cell, c).kmer_chars = h.kmer_chars /\ Store(h, cell, c).seed = h.seed
         /\ Store(h, cell, c).context = push(h.context, c)
         /\ Store(h, cell, c).max_table_size = h.max_table_size
<1> DEFINE at == Lookup(h)
           g == [h EXCEPT !.table = [at.table EXCEPT ![at.index] = cell]]
<1>1. /\ h.kmer_chars = g.kmer_chars /\ h.seed = g.seed /\ h.context = g.context
      /\ TableType(g) /\ g.size = h.size /\ g.max_table_size = h.max_table_size
  <2>1. at.index \in 0 .. h.size - 1 /\ at.table \in [0 .. h.size - 1 -> Cell]
    BY LookupKeeps, CellsKept DEF TableType
  <2> HIDE DEF at
  <2> QED BY <2>1 DEF TableType, TableOver
<1>3. /\ keep_track(g, at.index, get_hash(h)).kmer_chars = g.kmer_chars
      /\ keep_track(g, at.index, get_hash(h)).seed = g.seed
      /\ keep_track(g, at.index, get_hash(h)).context = g.context
      /\ keep_track(g, at.index, get_hash(h)).max_table_size = g.max_table_size
  <2> DEFINE f == [g EXCEPT !.used_cells = @ + 1, !.table[at.index].key = get_hash(h)]
  <2>1. /\ double_table(f).kmer_chars = f.kmer_chars /\ double_table(f).seed = f.seed
        /\ double_table(f).context = f.context
        /\ double_table(f).max_table_size = f.max_table_size
    BY <1>1 DEF double_table, TableType, TableOver
  <2> HIDE DEF at
  <2>2. /\ f.kmer_chars = g.kmer_chars /\ f.seed = g.seed /\ f.context = g.context
        /\ f.max_table_size = g.max_table_size
    BY <1>1 DEF TableType, TableOver
  <2> QED BY <2>1, <2>2 DEF keep_track
<1>4. TableType(keep_track(g, at.index, get_hash(h)))
  <2>1. at.index \in 0 .. g.size - 1
    BY <1>1, LookupKeeps, CellsKept DEF TableType
  <2>2. get_hash(h) \in 0 .. UNVISITED - 1
    BY HashType DEF TableType
  <2> HIDE DEF at, g
  <2> QED BY <1>1, <2>1, <2>2, KeepTrackType
<1>5. Store(h, cell, c) = [keep_track(g, at.index, get_hash(h)) EXCEPT !.context = push(@, c)]
  BY DEF Store
<1> HIDE DEF at, g
<1> QED BY <1>1, <1>3, <1>4, <1>5 DEF TableType, TableOver

\* mtf_encode counts up to K symbols and gives escapes for them.
LEMMA EncodeFills ==
  ASSUME NEW h, TableType(h), NEW c \in Symbol
  PROVE  /\ mtf_encode(h, c).next.kmer_chars =
              IF h.kmer_chars < K THEN h.kmer_chars + 1 ELSE h.kmer_chars
         /\ h.kmer_chars < K => mtf_encode(h, c).code >= SIZE
         /\ mtf_encode(h, c).next.seed = h.seed
         /\ mtf_encode(h, c).next.context = push(h.context, c)
         /\ mtf_encode(h, c).next.max_table_size = h.max_table_size
<1>1. CASE Filling(h)
  <2>1. c + SIZE >= SIZE
    BY BufferAssumption DEF Symbol
  <2>2. /\ Fill(h, c).kmer_chars = h.kmer_chars + 1 /\ Fill(h, c).seed = h.seed
        /\ Fill(h, c).context = push(h.context, c)
        /\ Fill(h, c).max_table_size = h.max_table_size
    BY DEF Fill, TableType, TableOver
  <2>3. mtf_encode(h, c) = [next |-> Fill(h, c), code |-> c + SIZE]
    BY <1>1 DEF mtf_encode
  <2> QED BY <1>1, <2>1, <2>2, <2>3 DEF Filling
<1>2. CASE ~ Filling(h)
  <2>1. ~ (h.kmer_chars < K)
    BY <1>2 DEF Filling
  <2> DEFINE e == buffer_encode(Lookup(h).table[Lookup(h).index], c)
  <2>2. e.cell \in Cell
    BY LookupKeeps, CellsKept, BufferEncodeType DEF TableType
  <2>3. mtf_encode(h, c).next = Store(h, e.cell, c)
    BY <1>2 DEF mtf_encode
  <2> HIDE DEF e
  <2> QED BY <2>1, <2>2, <2>3, StoreFilled
<1> QED BY <1>1, <1>2

\* mtf_decode counts the same.
LEMMA DecodeFills ==
  ASSUME NEW h, TableType(h), NEW code \in Codes, Filling(h) => code >= SIZE
  PROVE  mtf_decode(h, code).next.kmer_chars =
           IF h.kmer_chars < K THEN h.kmer_chars + 1 ELSE h.kmer_chars
<1>1. CASE Filling(h)
  BY <1>1, BufferAssumption DEF mtf_decode, Filling, Fill, TableType, TableOver, Codes
<1>2. CASE ~ Filling(h)
  <2>1. ~ (h.kmer_chars < K)
    BY <1>2 DEF Filling
  <2> DEFINE d == buffer_decode(Lookup(h).table[Lookup(h).index], code)
  <2>2. d.cell \in Cell /\ d.symbol \in Symbol
    BY LookupKeeps, CellsKept, BufferDecodeType DEF TableType
  <2>3. mtf_decode(h, code).next = Store(h, d.cell, d.symbol)
    BY <1>2 DEF mtf_decode
  <2> HIDE DEF d
  <2> QED BY <2>1, <2>2, <2>3, StoreFilled
<1> QED BY <1>1, <1>2

TypeInv == TypeOK /\ Priming

\* TypeInv holds of two new tables.
LEMMA TypeInvInit == Init => TypeInv
<1> SUFFICES ASSUME Init PROVE TypeInv
  OBVIOUS
<1>1. PICK seed \in Seeds, memory \in Memories :
        enc = NewTable(memory[1], seed) /\ dec = NewTable(memory[2], seed)
  BY DEF Init
<1>0. memory[1] \in Nat /\ memory[2] \in Nat
  BY CodecAssumption
<1>2. TableType(enc) /\ TableType(dec)
  BY <1>0, <1>1, NewTableType
<1>3. enc.kmer_chars = 0 /\ dec.kmer_chars = 0
  BY <1>1 DEF NewTable
<1>4. Filled(0) = 0
  BY TableAssumption DEF Filled
<1>5. TypeOK
  BY <1>2 DEF Init, TypeOK
<1>6. Priming
  BY <1>3, <1>4, TableAssumption DEF Init, Priming
<1> QED BY <1>5, <1>6 DEF TypeInv

\* Encoding a symbol keeps it.
LEMMA TypeInvEncode ==
  ASSUME TypeInv, NEW c \in Symbol, Encode(c)
  PROVE  TypeInv'
<1> DEFINE out == mtf_encode(enc, c)
<1> USE DEF TypeInv
<1>1. TableType(enc) /\ TableType(dec) /\ sent \in Seq(Symbol) /\ codes \in Seq(Codes)
      /\ decoded \in Seq(Symbol)
  BY DEF TypeOK
<1>2. TableType(out.next) /\ out.code \in Codes
  BY <1>1, EncodeType
<1>3. enc' = out.next /\ codes' = Append(codes, out.code) /\ sent' = Append(sent, c)
      /\ dec' = dec /\ decoded' = decoded
  BY DEF Encode
<1>4. out.next.kmer_chars = (IF enc.kmer_chars < K THEN enc.kmer_chars + 1 ELSE enc.kmer_chars)
      /\ (enc.kmer_chars < K => out.code >= SIZE)
  BY <1>1, EncodeFills
<1> HIDE DEF out
<1>5. TypeOK'
  <2>1. TableType(enc') /\ TableType(dec')
    BY <1>1, <1>2, <1>3
  <2> QED BY <2>1, <1>1, <1>2, <1>3 DEF TypeOK
<1>6. Priming'
  <2>1. Len(codes') = Len(sent') /\ Len(decoded') <= Len(codes') /\ Len(sent') = Len(sent) + 1
        /\ Len(sent) \in Nat
    BY <1>1, <1>2, <1>3 DEF Priming
  <2>2. enc'.kmer_chars = Filled(Len(sent'))
    BY <2>1, <1>3, <1>4, TableAssumption DEF Priming, Filled
  <2>3. dec'.kmer_chars = Filled(Len(decoded'))
    BY <1>3 DEF Priming
  <2>4. ASSUME NEW i \in 1 .. Len(codes'), i <= K PROVE codes'[i] >= SIZE
    <3>1. CASE i <= Len(codes)
      BY <1>1, <1>2, <1>3, <2>4, <3>1 DEF Priming
    <3>2. CASE i = Len(codes) + 1
      <4>1. codes'[i] = out.code
        BY <1>1, <1>2, <1>3, <3>2
      <4>2. enc.kmer_chars < K
        BY <2>1, <2>4, <3>2, TableAssumption DEF Priming, Filled
      <4> QED BY <4>1, <4>2, <1>4
    <3> QED BY <2>1, <3>1, <3>2 DEF Priming
  <2> QED BY <2>1, <2>2, <2>3, <2>4 DEF Priming
<1> QED BY <1>5, <1>6

\* Decoding one keeps it: the code is an escape while the decoder fills.
LEMMA TypeInvDecode ==
  ASSUME TypeInv, Decode
  PROVE  TypeInv'
<1> DEFINE n == Len(decoded) + 1
           out == mtf_decode(dec, codes[n])
<1> USE DEF TypeInv
<1>1. TableType(enc) /\ TableType(dec) /\ sent \in Seq(Symbol) /\ codes \in Seq(Codes)
      /\ decoded \in Seq(Symbol)
  BY DEF TypeOK
<1>2. n \in 1 .. Len(codes) /\ codes[n] \in Codes /\ Len(decoded) \in Nat /\ Len(codes) \in Nat
  BY <1>1 DEF Decode
<1>3. Filling(dec) => codes[n] >= SIZE
  BY <1>2, TableAssumption DEF Filling, Priming, Filled
<1>4. dec' = out.next /\ decoded' = Append(decoded, out.symbol)
      /\ enc' = enc /\ sent' = sent /\ codes' = codes
  BY DEF Decode
<1>5. TableType(out.next) /\ out.symbol \in Symbol
  BY <1>1, <1>2, <1>3, DecodeType
<1>6. out.next.kmer_chars = IF dec.kmer_chars < K THEN dec.kmer_chars + 1 ELSE dec.kmer_chars
  BY <1>1, <1>2, <1>3, DecodeFills
<1> HIDE DEF out
<1>7. TypeOK'
  <2>1. TableType(enc') /\ TableType(dec')
    BY <1>1, <1>4, <1>5
  <2> QED BY <2>1, <1>1, <1>4, <1>5 DEF TypeOK
<1>8. Priming'
  <2>1. Len(decoded') = n
    BY <1>1, <1>4, <1>5
  <2>2. dec'.kmer_chars = Filled(n)
    BY <1>2, <1>4, <1>6, TableAssumption DEF Priming, Filled
  <2> QED BY <1>2, <1>4, <2>1, <2>2 DEF Priming
<1> QED BY <1>7, <1>8

\* So every step does.
LEMMA TypeInvStep == TypeInv /\ [Next]_vars => TypeInv'
<1> SUFFICES ASSUME TypeInv, [Next]_vars PROVE TypeInv'
  OBVIOUS
<1>1. CASE \E c \in Symbol : Encode(c)
  BY <1>1, TypeInvEncode
<1>2. CASE Decode
  BY <1>2, TypeInvDecode
<1>3. CASE UNCHANGED vars
  BY <1>3 DEF vars, TypeInv, TypeOK, Priming
<1> QED BY <1>1, <1>2, <1>3 DEF Next

\* Both table objects stay well formed however large the two tables may grow,
\* and every code and every decoded symbol is in range.
THEOREM TypeCorrect == Spec => []TypeOK
<1>1. TypeInv => TypeOK
  BY DEF TypeInv
<1> QED BY <1>1, TypeInvInit, TypeInvStep, PTL DEF Spec

-------------------------------------------------------------------------------
(* The round trip.  Both ends walk the same sequence of table objects: t[1]  *)
(* is a new table, t[i + 1] what encoding sent[i] makes of t[i].  The        *)
(* encoder stands at its end, the decoder somewhere before.                  *)

\* Both ends get the same memory limit.
SameMemory == \A memory \in Memories : memory[1] = memory[2]

Trail(t, in, out, first, last, at) ==
  /\ \A i \in 1 .. Len(in) + 1 : Listed(t[i])
  /\ \A i \in 1 .. Len(in) : /\ t[i + 1] = mtf_encode(t[i], in[i]).next
                            /\ out[i] = mtf_encode(t[i], in[i]).code
  /\ t[1] = Fresh(first)
  /\ first = t[Len(in) + 1]
  /\ last = t[at + 1]

TrailInv ==
  /\ sent \in Seq(Symbol) /\ codes \in Seq(Codes) /\ decoded \in Seq(Symbol)
  /\ Len(codes) = Len(sent)
  /\ Len(decoded) <= Len(sent)
  /\ \A i \in 1 .. Len(decoded) : decoded[i] = sent[i]
  /\ \E t : Trail(t, sent, codes, enc, dec, Len(decoded))

\* The trail begins with the new table.
LEMMA TrailInit ==
  ASSUME SameMemory, Init
  PROVE  TrailInv
<1>1. PICK seed \in Seeds, memory \in Memories :
        enc = NewTable(memory[1], seed) /\ dec = NewTable(memory[2], seed)
  BY DEF Init
<1>0. memory[1] \in Nat /\ memory[2] \in Nat
  BY CodecAssumption
<1>2. Listed(enc) /\ dec = enc /\ enc = Fresh(enc)
  <2>1. Listed(enc) /\ dec = enc
    BY <1>0, <1>1, NewTableListed DEF SameMemory
  <2>2. enc = Fresh(enc)
    <3> DEFINE limit == memory[1] \div CellBytes
               none == 0 \div CellBytes
               T == EmptyTable(INITIAL_SIZE)
               start == [j \in 1 .. K |-> 0]
               New(m) == [table |-> T, size |-> INITIAL_SIZE, used_cells |-> 0, max_table_size |-> m,
                          seed |-> seed, kmer_chars |-> 0, context |-> start]
    <3>1. enc = New(limit) /\ NewTable(0, seed) = New(none)
      BY <1>1 DEF NewTable
    <3> HIDE DEF limit, none, T, start
    <3>2. enc.seed = seed /\ enc.max_table_size = limit
      BY <3>1
    <3>3. [New(none) EXCEPT !.max_table_size = limit] = New(limit)
      OBVIOUS
    <3> QED BY <3>1, <3>2, <3>3 DEF Fresh
  <2> QED BY <2>1, <2>2
<1>3. sent = <<>> /\ codes = <<>> /\ decoded = <<>>
  BY DEF Init
<1> DEFINE t == [i \in 1 .. 1 |-> enc]
<1>4. Trail(t, sent, codes, enc, dec, Len(decoded))
  BY <1>2, <1>3 DEF Trail
<1>5. \E u : Trail(u, sent, codes, enc, dec, Len(decoded))
  BY <1>4
<1> QED BY <1>3, <1>5 DEF TrailInv

\* Encoding a symbol adds the next object to it.
LEMMA TrailEncode ==
  ASSUME TrailInv, NEW c \in Symbol, Encode(c)
  PROVE  TrailInv'
<1> DEFINE out == mtf_encode(enc, c)
           n == Len(sent)
<1>1. sent \in Seq(Symbol) /\ codes \in Seq(Codes) /\ decoded \in Seq(Symbol) /\ n \in Nat
      /\ Len(decoded) \in Nat /\ Len(decoded) <= n /\ Len(codes) = n
  BY DEF TrailInv
<1>2. PICK t : Trail(t, sent, codes, enc, dec, Len(decoded))
  BY DEF TrailInv
<1>3. Listed(enc)
  BY <1>1, <1>2 DEF Trail
<1>4. Listed(out.next) /\ out.code \in Codes
  BY <1>3, EncodeListed, ListedType, EncodeType
<1>5. enc' = out.next /\ codes' = Append(codes, out.code) /\ sent' = Append(sent, c)
      /\ dec' = dec /\ decoded' = decoded
  BY DEF Encode
<1> DEFINE u == [i \in 1 .. n + 2 |-> IF i <= n + 1 THEN t[i] ELSE enc']
<1>6. sent' \in Seq(Symbol) /\ codes' \in Seq(Codes) /\ Len(sent') = n + 1 /\ Len(codes') = n + 1
      /\ (\A i \in 1 .. n : sent'[i] = sent[i] /\ codes'[i] = codes[i])
      /\ sent'[n + 1] = c /\ codes'[n + 1] = out.code
  BY <1>1, <1>4, <1>5
<1>7. \A i \in 1 .. n + 1 : u[i] = t[i]
  BY <1>1
<1>8. u[n + 2] = enc'
  BY <1>1
<1>9. t[n + 1] = enc
  BY <1>2 DEF Trail
<1> HIDE DEF out, u
<1>10. Trail(u, sent', codes', enc', dec', Len(decoded'))
  <2>1. ASSUME NEW i \in 1 .. (n + 1) + 1 PROVE Listed(u[i])
    <3>1. CASE i \in 1 .. n + 1
      BY <1>2, <1>7, <3>1 DEF Trail
    <3>2. CASE i = n + 2
      BY <1>4, <1>5, <1>8, <3>2
    <3> QED BY <1>1, <3>1, <3>2
  <2>2. ASSUME NEW i \in 1 .. n + 1
        PROVE  /\ u[i + 1] = mtf_encode(u[i], sent'[i]).next
               /\ codes'[i] = mtf_encode(u[i], sent'[i]).code
    <3>1. CASE i \in 1 .. n
      <4>1. u[i] = t[i] /\ u[i + 1] = t[i + 1]
        BY <1>1, <1>7, <3>1
      <4> QED BY <1>2, <1>6, <3>1, <4>1 DEF Trail
    <3>2. CASE i = n + 1
      <4>1. u[i] = enc /\ u[i + 1] = enc'
        BY <1>1, <1>7, <1>8, <1>9, <3>2
      <4> QED BY <1>5, <1>6, <3>2, <4>1 DEF out
    <3> QED BY <1>1, <3>1, <3>2
  <2>3. enc' = u[(n + 1) + 1] /\ u[1] = Fresh(enc')
    <3>1. out.next.seed = enc.seed /\ out.next.max_table_size = enc.max_table_size
      BY <1>3, EncodeFills, ListedType DEF out
    <3>2. u[1] = t[1]
      BY <1>1, <1>7
    <3>3. Fresh(enc') = Fresh(enc)
      BY <1>5, <3>1 DEF Fresh
    <3> QED BY <1>1, <1>2, <1>5, <1>8, <3>2, <3>3 DEF Trail
  <2>4. dec' = u[Len(decoded') + 1]
    BY <1>1, <1>2, <1>5, <1>7 DEF Trail
  <2> QED BY <1>6, <2>1, <2>2, <2>3, <2>4 DEF Trail
<1>11. \E v : Trail(v, sent', codes', enc', dec', Len(decoded'))
  BY <1>10
<1> QED BY <1>1, <1>5, <1>6, <1>11 DEF TrailInv

\* Decoding moves the decoder one object along it and gives the symbol there.
LEMMA TrailDecode ==
  ASSUME TrailInv, Decode
  PROVE  TrailInv' /\ decoded' = Append(decoded, sent[Len(decoded) + 1])
<1> DEFINE n == Len(decoded) + 1
           out == mtf_decode(dec, codes[n])
<1>1. sent \in Seq(Symbol) /\ codes \in Seq(Codes) /\ decoded \in Seq(Symbol)
      /\ Len(decoded) \in Nat /\ Len(codes) = Len(sent) /\ Len(sent) \in Nat
  BY DEF TrailInv
<1>2. PICK t : Trail(t, sent, codes, enc, dec, Len(decoded))
  BY DEF TrailInv
<1>3. n \in 1 .. Len(sent) /\ n \in 1 .. Len(sent) + 1
  BY <1>1 DEF Decode
<1>4. dec = t[n] /\ TableType(t[n]) /\ sent[n] \in Symbol
  BY <1>1, <1>2, <1>3, ListedType DEF Trail
<1>5. out = [next |-> t[n + 1], symbol |-> sent[n]]
  <2>1. mtf_decode(t[n], mtf_encode(t[n], sent[n]).code) =
          [next |-> mtf_encode(t[n], sent[n]).next, symbol |-> sent[n]]
    BY <1>4, CodecInverse
  <2> QED BY <1>2, <1>3, <1>4, <2>1 DEF Trail
<1>6. dec' = out.next /\ decoded' = Append(decoded, out.symbol)
      /\ enc' = enc /\ sent' = sent /\ codes' = codes
  BY DEF Decode
<1> HIDE DEF out
<1>7. dec' = t[n + 1] /\ decoded' = Append(decoded, sent[n])
  BY <1>5, <1>6
<1>8. decoded' \in Seq(Symbol) /\ Len(decoded') = n
      /\ (\A i \in 1 .. n - 1 : decoded'[i] = decoded[i]) /\ decoded'[n] = sent[n]
  BY <1>1, <1>4, <1>7
<1>9. \A i \in 1 .. n : decoded'[i] = sent[i]
  BY <1>1, <1>8 DEF TrailInv
<1>10. Trail(t, sent', codes', enc', dec', Len(decoded'))
  BY <1>2, <1>6, <1>7, <1>8 DEF Trail
<1>11. \E v : Trail(v, sent', codes', enc', dec', Len(decoded'))
  BY <1>10
<1>12. TrailInv'
  BY <1>1, <1>3, <1>6, <1>8, <1>9, <1>11 DEF TrailInv
<1> QED BY <1>7, <1>12

\* So every step keeps the trail, and is a step of the byte channel.
LEMMA TrailStep ==
  TrailInv /\ [Next]_vars => TrailInv' /\ [Channel!Next]_(Channel!vars)
<1> SUFFICES ASSUME TrailInv, [Next]_vars
             PROVE  TrailInv' /\ [Channel!Next]_(Channel!vars)
  OBVIOUS
<1>1. ASSUME NEW c \in Symbol, Encode(c) PROVE TrailInv' /\ Channel!Next
  <2>1. Channel!Send(c)
    BY <1>1 DEF Encode, Channel!Send
  <2> QED BY <1>1, <2>1, TrailEncode DEF Channel!Next
<1>2. CASE Decode
  <2>1. Len(decoded) < Len(sent)
    BY <1>2 DEF Decode, TrailInv
  <2>2. Channel!Deliver
    BY <1>2, <2>1, TrailDecode DEF Decode, Channel!Deliver
  <2> QED BY <1>2, <2>2, TrailDecode DEF Channel!Next
<1>3. CASE UNCHANGED vars
  BY <1>3 DEF vars, TrailInv, Channel!vars
<1> QED BY <1>1, <1>2, <1>3 DEF Next

\* With the same memory limit at both ends the codec is a reliable channel:
\* whatever the hash function does, however often the tables double, and also
\* once they are full and cells change owner, what is decoded is what was
\* encoded, in order.
THEOREM RoundTripCorrect ==
  ASSUME SameMemory
  PROVE  Spec => RoundTrip
<1>1. Init => TrailInv /\ Channel!Init
  BY TrailInit DEF Init, Channel!Init
<1>2. TrailInv /\ [Next]_vars => TrailInv' /\ [Channel!Next]_(Channel!vars)
  BY TrailStep
<1> QED BY <1>1, <1>2, PTL DEF Spec, RoundTrip, Channel!Spec

\* A sequence that begins with a new table and encodes what was sent is the one
\* Synchronised speaks of.
LEMMA EncodedIs ==
  ASSUME sent \in Seq(Symbol), NEW t, t[1] = Fresh(enc),
         \A i \in 1 .. Len(sent) : t[i + 1] = mtf_encode(t[i], sent[i]).next
  PROVE  \A i \in 0 .. Len(sent) : Encoded[i] = t[i + 1]
<1> DEFINE n == Len(sent)
           new == Fresh(enc)
           f == [i \in 0 .. n |-> t[i + 1]]
           after == CHOOSE g : g = [i \in 0 .. n |-> IF i = 0 THEN new
                                                   ELSE mtf_encode(g[i - 1], sent[i]).next]
           T == {m \in Nat : m <= n => after[m] = t[m + 1]}
<1>1. n \in Nat
  OBVIOUS
<1>2. Encoded = after
  BY DEF Encoded
<1>3. f = [i \in 0 .. n |-> IF i = 0 THEN new ELSE mtf_encode(f[i - 1], sent[i]).next]
  <2> SUFFICES ASSUME NEW i \in 0 .. n
               PROVE  f[i] = IF i = 0 THEN new ELSE mtf_encode(f[i - 1], sent[i]).next
    OBVIOUS
  <2>1. CASE i = 0
    BY <2>1
  <2>2. CASE i # 0
    <3>1. i \in 1 .. n /\ i - 1 \in 0 .. n /\ (i - 1) + 1 = i
      BY <1>1, <2>2
    <3>2. f[i - 1] = t[i] /\ f[i] = t[i + 1]
      BY <3>1
    <3> HIDE DEF f, new
    <3> QED BY <2>2, <3>1, <3>2
  <2> QED BY <2>1, <2>2
<1> HIDE DEF f, new
<1>4. after = [i \in 0 .. n |-> IF i = 0 THEN new ELSE mtf_encode(after[i - 1], sent[i]).next]
  BY <1>3
<1> HIDE DEF after, n
<1>5. 0 \in T
  BY <1>1, <1>4 DEF new
<1>6. ASSUME NEW m \in T PROVE m + 1 \in T
  <2>1. m \in Nat /\ m + 1 \in Nat
    OBVIOUS
  <2>2. ASSUME m + 1 <= n PROVE after[m + 1] = t[(m + 1) + 1]
    <3>1. m \in 0 .. n /\ m + 1 \in 0 .. n /\ m + 1 \in 1 .. n /\ m + 1 # 0 /\ (m + 1) - 1 = m
          /\ m <= n
      <4> HIDE DEF T
      <4> QED BY <1>1, <2>1, <2>2
    <3>2. after[m] = t[m + 1]
      BY <3>1
    <3>3. after[m + 1] = mtf_encode(after[m], sent[m + 1]).next
      <4> HIDE DEF T
      <4> QED BY <1>4, <3>1
    <3>4. t[(m + 1) + 1] = mtf_encode(t[m + 1], sent[m + 1]).next
      <4> HIDE DEF T
      <4> QED BY <3>1 DEF n
    <3> HIDE DEF T
    <3> QED BY <3>2, <3>3, <3>4
  <2> QED BY <2>1, <2>2
<1>7. T = Nat
  <2>1. T \in SUBSET Nat
    OBVIOUS
  <2> HIDE DEF T
  <2> QED BY <1>5, <1>6, <2>1, NatSetInduction
<1>8. ASSUME NEW i \in 0 .. n PROVE after[i] = t[i + 1]
  <2>1. i \in Nat /\ i <= n
    BY <1>1
  <2>2. i \in T
    <3> HIDE DEF T
    <3> QED BY <1>7, <2>1
  <2> QED BY <2>1, <2>2
<1> QED BY <1>2, <1>8 DEF n

\* With the same memory limit the decoder's table is always the one the encoder
\* had after as many symbols: cell by cell, owner by owner, with the same size
\* and count.
THEOREM SynchronisedCorrect ==
  ASSUME SameMemory
  PROVE  Spec => []Synchronised
<1>1. Init => TrailInv
  BY TrailInit
<1>2. TrailInv /\ [Next]_vars => TrailInv'
  BY TrailStep
<1>3. TrailInv => Synchronised
  <2> SUFFICES ASSUME TrailInv PROVE Synchronised
    OBVIOUS
  <2>1. PICK t : Trail(t, sent, codes, enc, dec, Len(decoded))
    BY DEF TrailInv
  <2>2. sent \in Seq(Symbol) /\ Len(decoded) \in 0 .. Len(sent)
    BY DEF TrailInv
  <2>3. Encoded[Len(decoded)] = t[Len(decoded) + 1]
    BY <2>1, <2>2, EncodedIs DEF Trail
  <2> QED BY <2>1, <2>3 DEF Synchronised, Trail
<1> QED BY <1>1, <1>2, <1>3, PTL DEF Spec

\* With the same memory limit no list of either table ever holds a symbol
\* twice, and exactly the cells that have an owner have a symbol.
THEOREM DistinctCorrect ==
  ASSUME SameMemory
  PROVE  Spec => []DistinctSymbols
<1>1. Init => TrailInv
  BY TrailInit
<1>2. TrailInv /\ [Next]_vars => TrailInv'
  BY TrailStep
<1>3. TrailInv => DistinctSymbols
  <2> SUFFICES ASSUME TrailInv, NEW h \in {enc, dec}, NEW i \in 0 .. h.size - 1
               PROVE  NoRepeat(h.table[i]) /\ (is_visited(h.table[i]) <=> h.table[i].symbols > 0)
    BY DEF DistinctSymbols
  <2>1. PICK t : Trail(t, sent, codes, enc, dec, Len(decoded))
    BY DEF TrailInv
  <2>2. Len(sent) + 1 \in 1 .. Len(sent) + 1 /\ Len(decoded) + 1 \in 1 .. Len(sent) + 1
    BY DEF TrailInv
  <2>3. Listed(h)
    BY <2>1, <2>2 DEF Trail
  <2>4. h.table[i] \in Distinct
    BY <2>3 DEF Listed, TableOver
  <2> QED BY <2>4 DEF Distinct
<1> QED BY <1>1, <1>2, <1>3, PTL DEF Spec

-------------------------------------------------------------------------------
(* The load.  What a rehash counts is at most what it copies, so a table that *)
(* has just doubled is at most half full; one doubling is then enough.        *)

HalfIsLight == 2 * LoadNum >= LoadDen

\* Products of naturals are naturals and grow with a factor.
LEMMA ProductGrows ==
  ASSUME NEW a \in Nat, NEW b \in Nat, NEW c \in Nat, a <= b
  PROVE  a * c \in Nat /\ b * c \in Nat /\ a * c <= b * c
<1>1. PICK d \in Nat : b = a + d
  BY b - a \in Nat, b = a + (b - a)
<1>2. (a + d) * c = a * c + d * c
  OBVIOUS
<1>3. d * c \in Nat /\ a * c \in Nat
  OBVIOUS
<1> QED BY <1>1, <1>2, <1>3

\* Rehashing counts no more cells than the old table had.
LEMMA RehashUsed ==
  ASSUME NEW n \in Nat \ {0}, NEW table \in [0 .. n - 1 -> Cell]
  PROVE  RehashSteps(table, n)[n].used \in 0 .. n
<1> DEFINE step == RehashSteps(table, n)
           Partial == [table : [0 .. 2 * n - 1 -> Cell], used : Nat]
           T == {m \in Nat : m <= n => step[m].used <= m}
<1>1. /\ step \in [0 .. n -> Partial]
      /\ step[0] = [table |-> EmptyTable(2 * n), used |-> 0]
      /\ \A i \in 1 .. n : step[i] = RehashCell(step[i - 1], table[i - 1], n)
  BY CellsKept, RehashUnfold
<1> HIDE DEF step
<1>2. 0 \in T
  BY <1>1
<1>3. ASSUME NEW m \in T PROVE m + 1 \in T
  <2> SUFFICES ASSUME m + 1 <= n PROVE step[m + 1].used <= m + 1
    OBVIOUS
  <2>1. m \in 0 .. n /\ m + 1 \in 1 .. n /\ (m + 1) - 1 = m /\ step[m].used <= m
    OBVIOUS
  <2>2. step[m + 1] = RehashCell(step[m], table[m], n)
    BY <1>1, <2>1
  <2>3. step[m].used \in Nat
    BY <1>1, <2>1
  <2>4. RehashCell(step[m], table[m], n).used \in {step[m].used, step[m].used + 1}
    BY DEF RehashCell
  <2> QED BY <2>1, <2>2, <2>3, <2>4
<1>4. n \in T
  <2>1. T \in SUBSET Nat
    OBVIOUS
  <2> HIDE DEF T
  <2> QED BY <1>2, <1>3, <2>1, NatSetInduction
<1>5. step[n].used \in Nat
  BY <1>1
<1> QED BY <1>4, <1>5 DEF step

\* A doubling brings the load down, or the table was left alone for a reason.
LEMMA DoubleWithin ==
  ASSUME HalfIsLight, NEW h, TableType(h), h.size <= h.max_table_size \/ h.size = INITIAL_SIZE
  PROVE  WithinLimits(double_table(h))
<1>1. CASE OverLoad(h.used_cells, h.size) /\ 2 * h.size <= h.max_table_size
  <2> DEFINE done == RehashSteps(h.table, h.size)[h.size]
             g == double_table(h)
  <2>1. h.size \in Nat \ {0} /\ h.table \in [0 .. h.size - 1 -> Cell]
    BY DEF TableType, TableOver
  <2>2. done.used \in 0 .. h.size
    BY <2>1, RehashUsed
  <2>3. g = [h EXCEPT !.table = done.table, !.used_cells = done.used, !.size = 2 * h.size]
    BY <1>1 DEF double_table
  <2> HIDE DEF done
  <2>4. g.used_cells = done.used /\ g.size = 2 * h.size /\ g.max_table_size = h.max_table_size
    BY <2>3 DEF TableType, TableOver
  <2>5. done.used \in Nat /\ h.size \in Nat /\ LoadDen \in Nat /\ LoadNum \in Nat
        /\ done.used <= h.size /\ LoadDen <= 2 * LoadNum /\ 2 * LoadNum \in Nat
    BY <2>1, <2>2, TableAssumption DEF HalfIsLight
  <2>6. done.used * LoadDen \in Nat /\ h.size * LoadDen \in Nat /\ done.used * LoadDen <= h.size * LoadDen
    BY <2>5, ProductGrows
  <2>7. LoadDen * h.size <= (2 * LoadNum) * h.size /\ (2 * LoadNum) * h.size \in Nat
    BY <2>5, ProductGrows
  <2>8. h.size * LoadDen = LoadDen * h.size /\ (2 * h.size) * LoadNum = (2 * LoadNum) * h.size
    BY <2>5
  <2>9. ~ OverLoad(done.used, 2 * h.size)
    BY <2>6, <2>7, <2>8 DEF OverLoad
  <2>10. ~ OverLoad(g.used_cells, g.size)
    BY <2>4, <2>9
  <2>11. g.size <= g.max_table_size
    BY <1>1, <2>4
  <2> HIDE DEF g
  <2>12. WithinLimits(g)
    BY <2>10, <2>11 DEF WithinLimits
  <2> QED BY <2>12 DEF g
<1>2. CASE ~ (OverLoad(h.used_cells, h.size) /\ 2 * h.size <= h.max_table_size)
  <2>1. double_table(h) = h
    BY <1>2 DEF double_table
  <2>2. h.size \in Nat /\ h.max_table_size \in Nat
    BY DEF TableType, TableOver
  <2> QED BY <1>2, <2>1, <2>2 DEF WithinLimits
<1> QED BY <1>1, <1>2

\* Putting a cell back, new or not, keeps the table within its limits.
LEMMA StoreWithin ==
  ASSUME HalfIsLight, NEW h, TableType(h), WithinLimits(h), NEW cell \in Cell, NEW c \in Symbol
  PROVE  WithinLimits(Store(h, cell, c))
<1> DEFINE at == Lookup(h)
           key == get_hash(h)
           g == [h EXCEPT !.table = [at.table EXCEPT ![at.index] = cell]]
           stored == keep_track(g, at.index, key)
<1>1. at.index \in 0 .. h.size - 1 /\ at.table \in [0 .. h.size - 1 -> Cell]
  BY LookupKeeps, CellsKept DEF TableType
<1>2. key \in 0 .. UNVISITED - 1
  BY HashType DEF TableType
<1> HIDE DEF at, key
<1>3. TableType(g) /\ g.size = h.size /\ g.used_cells = h.used_cells
      /\ g.max_table_size = h.max_table_size
  BY <1>1 DEF TableType, TableOver
<1>4. WithinLimits(g)
  BY <1>3 DEF WithinLimits
<1> HIDE DEF g
<1>5. WithinLimits(stored)
  <2>1. CASE is_visited(g.table[at.index])
    BY <1>4, <2>1 DEF keep_track
  <2>2. CASE ~ is_visited(g.table[at.index])
    <3> DEFINE f == [g EXCEPT !.used_cells = @ + 1, !.table[at.index].key = key]
               own == [g.table[at.index] EXCEPT !.key = key]
    <3>1. own \in Cell
      BY <1>1, <1>2, <1>3, SetKeyType, BufferAssumption DEF TableType, TableOver
    <3>2. f = [g EXCEPT !.used_cells = g.used_cells + 1,
                        !.table = [g.table EXCEPT ![at.index] = own]]
      BY <1>3 DEF TableType, TableOver
    <3> HIDE DEF own
    <3>3. TableType(f) /\ f.size = g.size /\ f.max_table_size = g.max_table_size
      <4>1. at.index \in 0 .. g.size - 1 /\ g.used_cells + 1 \in Nat
        BY <1>1, <1>3 DEF TableType, TableOver
      <4>2. [g.table EXCEPT ![at.index] = own] \in [0 .. g.size - 1 -> Cell]
        BY <1>3, <3>1, <4>1 DEF TableType, TableOver
      <4> HIDE DEF f
      <4> QED BY <1>3, <3>2, <4>1, <4>2 DEF TableType, TableOver
    <3>4. stored = double_table(f)
      BY <2>2 DEF keep_track
    <3> HIDE DEF f
    <3> QED BY <1>4, <3>3, <3>4, DoubleWithin DEF WithinLimits
  <2> QED BY <2>1, <2>2
<1>6. TableType(stored)
  BY <1>1, <1>2, <1>3, KeepTrackType
<1>7. Store(h, cell, c) = [stored EXCEPT !.context = push(@, c)]
  BY DEF Store, g, at, key
<1> HIDE DEF stored
<1> QED BY <1>5, <1>6, <1>7 DEF WithinLimits, TableType, TableOver

\* Filling the context touches nothing of it.
LEMMA FillWithin ==
  ASSUME NEW h, TableType(h), WithinLimits(h), NEW c
  PROVE  WithinLimits(Fill(h, c))
BY DEF Fill, WithinLimits, TableType, TableOver

\* Neither does encoding a symbol break the limits,
LEMMA EncodeWithin ==
  ASSUME HalfIsLight, NEW h, TableType(h), WithinLimits(h), NEW c \in Symbol
  PROVE  WithinLimits(mtf_encode(h, c).next)
<1>1. CASE Filling(h)
  BY <1>1, FillWithin DEF mtf_encode
<1>2. CASE ~ Filling(h)
  <2> DEFINE e == buffer_encode(Lookup(h).table[Lookup(h).index], c)
  <2>1. e.cell \in Cell
    BY LookupKeeps, CellsKept, BufferEncodeType DEF TableType
  <2>2. mtf_encode(h, c).next = Store(h, e.cell, c)
    BY <1>2 DEF mtf_encode
  <2> HIDE DEF e
  <2> QED BY <2>1, <2>2, StoreWithin
<1> QED BY <1>1, <1>2

\* nor decoding one.
LEMMA DecodeWithin ==
  ASSUME HalfIsLight, NEW h, TableType(h), WithinLimits(h), NEW code \in Codes
  PROVE  WithinLimits(mtf_decode(h, code).next)
<1>1. CASE Filling(h)
  BY <1>1, FillWithin DEF mtf_decode
<1>2. CASE ~ Filling(h)
  <2> DEFINE d == buffer_decode(Lookup(h).table[Lookup(h).index], code)
  <2>1. d.cell \in Cell /\ d.symbol \in Symbol
    BY LookupKeeps, CellsKept, BufferDecodeType DEF TableType
  <2>2. mtf_decode(h, code).next = Store(h, d.cell, d.symbol)
    BY <1>2 DEF mtf_decode
  <2> HIDE DEF d
  <2> QED BY <2>1, <2>2, StoreWithin
<1> QED BY <1>1, <1>2

\* New tables are within their limits,
LEMMA LoadBoundedInit == Init => LoadBounded
<1> SUFFICES ASSUME Init PROVE LoadBounded
  OBVIOUS
<1>1. PICK seed \in Seeds, memory \in Memories :
        enc = NewTable(memory[1], seed) /\ dec = NewTable(memory[2], seed)
  BY DEF Init
<1>0. memory[1] \in Nat /\ memory[2] \in Nat
  BY CodecAssumption
<1>2. ASSUME NEW m PROVE WithinLimits(NewTable(m, seed))
  <2>1. 0 * LoadDen = 0 /\ INITIAL_SIZE * LoadNum \in Nat
    BY TableAssumption
  <2> QED BY <2>1 DEF WithinLimits, NewTable, OverLoad
<1> QED BY <1>1, <1>2 DEF LoadBounded

\* and every step keeps both there.
LEMMA LoadBoundedStep ==
  ASSUME HalfIsLight, TypeInv, LoadBounded, [Next]_vars
  PROVE  LoadBounded'
<1>1. TableType(enc) /\ TableType(dec) /\ codes \in Seq(Codes) /\ decoded \in Seq(Symbol)
  BY DEF TypeInv, TypeOK
<1>2. WithinLimits(enc) /\ WithinLimits(dec)
  BY DEF LoadBounded
<1>3. ASSUME NEW c \in Symbol, Encode(c) PROVE LoadBounded'
  <2>1. enc' = mtf_encode(enc, c).next /\ dec' = dec
    BY <1>3 DEF Encode
  <2>2. WithinLimits(enc')
    BY <1>1, <1>2, <2>1, EncodeWithin
  <2> QED BY <1>2, <2>1, <2>2 DEF LoadBounded
<1>4. CASE Decode
  <2>1. dec' = mtf_decode(dec, codes[Len(decoded) + 1]).next /\ enc' = enc
        /\ codes[Len(decoded) + 1] \in Codes
    BY <1>1, <1>4 DEF Decode
  <2>2. WithinLimits(dec')
    BY <1>1, <1>2, <2>1, DecodeWithin
  <2> QED BY <1>2, <2>1, <2>2 DEF LoadBounded
<1>5. CASE UNCHANGED vars
  BY <1>2, <1>5 DEF vars, LoadBounded
<1> QED BY <1>3, <1>4, <1>5 DEF Next

\* A table that may double is never loaded above MAX_LOAD_FACTOR between two
\* symbols, and none grows past its memory limit, for every hash function and
\* every pair of limits: all it takes is that half a table is not above the
\* load (0.9 in the code).
THEOREM LoadCorrect ==
  ASSUME HalfIsLight
  PROVE  Spec => []LoadBounded
<1>1. Init => TypeInv /\ LoadBounded
  BY TypeInvInit, LoadBoundedInit
<1>2. TypeInv /\ LoadBounded /\ [Next]_vars => (TypeInv /\ LoadBounded)'
  BY TypeInvStep, LoadBoundedStep
<1> QED BY <1>1, <1>2, PTL DEF Spec

-------------------------------------------------------------------------------
(* The count of used cells.  It is right across a rehash only if no two cells *)
(* have one key and the rehash takes no cell over, so what a table that may   *)
(* still grow must keep is that every owner is found from its home.  Tables   *)
(* of a size that can have exactly the load do not keep it; what all keep is  *)
(* that no cell is free between a key's home and the cells it owns.           *)

\* The first n cells that have an owner.
Occupied(t, n) == {i \in 0 .. n - 1 : is_visited(t[i])}

\* Probing for a key gets to its i-th probe: before it neither a free cell nor
\* the key's own was met.
Passes(t, n, key, i) ==
  \A j \in 0 .. i - 1 : t[Probed(j, key, n)].key \notin {UNVISITED, key}

\* Every cell with an owner is the first that a probe for its key stops at.
Chained(t, n) ==
  \A p \in Occupied(t, n) :
    \E i \in 0 .. n - 1 : p = Probed(i, t[p].key, n) /\ Passes(t, n, t[p].key, i)

\* Cell p is on the way of a probe for a key, behind none that is free.
PathTo(t, n, key, p) ==
  \E i \in 0 .. n - 1 : /\ p = Probed(i, key, n)
                        /\ \A j \in 0 .. i - 1 : is_visited(t[Probed(j, key, n)])

Linked(t, n) == \A p \in Occupied(t, n) : PathTo(t, n, t[p].key, p)

\* Cell p is the first that a probe for a key would stop at.
FoundAt(t, n, key, p) ==
  \E i \in 0 .. n - 1 : /\ p = Probed(i, key, n)
                        /\ t[p].key \in {UNVISITED, key}
                        /\ Passes(t, n, key, i)

\* The cells that have an owner, whatever their places.
CellsOf(t, n) == {t[p] : p \in Occupied(t, n)}

\* A number with a quotient and a remainder has that remainder.
LEMMA RemainderOf ==
  ASSUME NEW n \in Nat \ {0}, NEW q \in Int, NEW x \in Nat, NEW p \in 0 .. n - 1, x = q * n + p
  PROVE  x % n = p
<1> DEFINE d == x \div n
           r == x % n
<1>1. d \in Int /\ r \in 0 .. n - 1 /\ x = d * n + r
  OBVIOUS
<1> HIDE DEF d, r
<1>2. PICK e \in Int : d = q + e
  BY <1>1, d - q \in Int, d = q + (d - q)
<1>3. d * n = q * n + e * n
  BY <1>2
<1>4. q * n \in Int /\ e * n \in Int
  OBVIOUS
<1>5. p = e * n + r
  BY <1>1, <1>3, <1>4
<1>6. e = 0
  <2>1. CASE e >= 1
    <3>1. PICK f \in Nat : e = 1 + f
      BY <2>1, e - 1 \in Nat, e = 1 + (e - 1)
    <3>2. e * n = n + f * n /\ f * n \in Nat
      BY <3>1
    <3> QED BY <1>1, <1>5, <3>2
  <2>2. CASE e <= -1
    <3>1. PICK f \in Nat : e = -1 - f
      BY <2>2, -1 - e \in Nat, e = -1 - (-1 - e)
    <3>2. e * n = -n - f * n /\ f * n \in Nat
      BY <3>1
    <3> QED BY <1>1, <1>5, <3>2
  <2> QED BY <2>1, <2>2
<1>7. p = r
  BY <1>1, <1>5, <1>6
<1> QED BY <1>7 DEF r

\* Probes come to every cell of the table, once around.
LEMMA ProbesReachAll ==
  ASSUME NEW n \in Nat \ {0}, NEW key \in Nat, NEW p \in 0 .. n - 1
  PROVE  \E i \in 0 .. n - 1 : p = Probed(i, key, n)
<1> DEFINE q == key \div n
           r == key % n
<1>1. q \in Int /\ r \in 0 .. n - 1 /\ key = q * n + r
  OBVIOUS
<1> HIDE DEF q, r
<1>2. q * n \in Int /\ (q + 1) * n = q * n + n
  BY <1>1
<1>3. CASE p >= r
  <2>1. p - r \in 0 .. n - 1 /\ key + (p - r) = q * n + p /\ key + (p - r) \in Nat
    BY <1>1, <1>2, <1>3
  <2>2. (key + (p - r)) % n = p
    BY <1>1, <2>1, RemainderOf
  <2> QED BY <2>1, <2>2 DEF Probed
<1>4. CASE p < r
  <2>1. p - r + n \in 0 .. n - 1 /\ key + (p - r + n) = (q + 1) * n + p /\ key + (p - r + n) \in Nat
    BY <1>1, <1>2, <1>4
  <2>2. (key + (p - r + n)) % n = p
    BY <1>1, <2>1, RemainderOf
  <2> QED BY <2>1, <2>2 DEF Probed
<1> QED BY <1>1, <1>3, <1>4

\* No two cells of a chained table have one owner.
LEMMA OwnersDiffer ==
  ASSUME NEW n \in Nat \ {0}, NEW t, Chained(t, n), NEW p \in Occupied(t, n), NEW q \in Occupied(t, n),
         t[p].key = t[q].key
  PROVE  p = q
<1>1. PICK i \in 0 .. n - 1 : p = Probed(i, t[p].key, n) /\ Passes(t, n, t[p].key, i)
  BY DEF Chained
<1>2. PICK j \in 0 .. n - 1 : q = Probed(j, t[p].key, n) /\ Passes(t, n, t[p].key, j)
  BY DEF Chained
<1>3. ~ (i < j) /\ ~ (j < i)
  BY <1>1, <1>2 DEF Passes
<1> QED BY <1>1, <1>2, <1>3

\* A key whose probe stops at a free cell is nowhere in a linked table.
LEMMA OwnerIsNew ==
  ASSUME NEW n \in Nat \ {0}, NEW t, Linked(t, n), NEW key, NEW q,
         FoundAt(t, n, key, q), ~ is_visited(t[q]),
         NEW p \in Occupied(t, n)
  PROVE  t[p].key # key
<1> SUFFICES ASSUME t[p].key = key PROVE FALSE
  OBVIOUS
<1>1. PICK i \in 0 .. n - 1 : q = Probed(i, key, n) /\ Passes(t, n, key, i)
  BY DEF FoundAt
<1>2. PICK j \in 0 .. n - 1 : /\ p = Probed(j, key, n)
                             /\ \A m \in 0 .. j - 1 : is_visited(t[Probed(m, key, n)])
  BY DEF Linked, PathTo
<1>3. is_visited(t[p])
  BY DEF Occupied
<1>4. ~ (i < j) /\ i # j
  BY <1>1, <1>2, <1>3
<1>5. ~ (j < i)
  BY <1>1, <1>2 DEF Passes
<1> QED BY <1>4, <1>5

\* A probe for a key has one place to stop at.
LEMMA FoundOnce ==
  ASSUME NEW n \in Nat \ {0}, NEW t, NEW key, NEW p, NEW q,
         FoundAt(t, n, key, p), FoundAt(t, n, key, q)
  PROVE  p = q
<1>1. PICK i \in 0 .. n - 1 : /\ p = Probed(i, key, n) /\ t[p].key \in {UNVISITED, key}
                             /\ Passes(t, n, key, i)
  BY DEF FoundAt
<1>2. PICK j \in 0 .. n - 1 : /\ q = Probed(j, key, n) /\ t[q].key \in {UNVISITED, key}
                             /\ Passes(t, n, key, j)
  BY DEF FoundAt
<1>3. ~ (i < j) /\ ~ (j < i)
  BY <1>1, <1>2 DEF Passes
<1> QED BY <1>1, <1>2, <1>3

\* Owners are finitely many, at most one for each cell; if they are fewer, a
\* cell is free.
LEMMA OccupiedFinite ==
  ASSUME NEW n \in Nat, NEW t
  PROVE  /\ IsFiniteSet(Occupied(t, n))
         /\ Cardinality(Occupied(t, n)) \in 0 .. n
         /\ Cardinality(Occupied(t, n)) < n => \E q \in 0 .. n - 1 : ~ is_visited(t[q])
<1>1. IsFiniteSet(0 .. n - 1) /\ Cardinality(0 .. n - 1) = n
  BY FS_Interval
<1>2. Occupied(t, n) \in SUBSET (0 .. n - 1)
  BY DEF Occupied
<1>3. IsFiniteSet(Occupied(t, n)) /\ Cardinality(Occupied(t, n)) <= n
  BY <1>1, <1>2, FS_Subset
<1>4. Cardinality(Occupied(t, n)) \in Nat
  BY <1>3, FS_CardinalityType
<1>5. ASSUME \A q \in 0 .. n - 1 : is_visited(t[q]) PROVE Cardinality(Occupied(t, n)) = n
  <2>1. Occupied(t, n) = 0 .. n - 1
    BY <1>5 DEF Occupied
  <2> QED BY <1>1, <2>1
<1> QED BY <1>3, <1>4, <1>5

\* Chains and owners are a matter of the keys alone.
LEMMA SameKeys ==
  ASSUME NEW n \in Nat \ {0}, NEW t, NEW u, \A i \in 0 .. n - 1 : u[i].key = t[i].key
  PROVE  /\ Occupied(u, n) = Occupied(t, n)
         /\ (\A p \in Occupied(t, n) : t[p].key \in Nat) /\ Chained(t, n) => Chained(u, n)
<1>1. Occupied(u, n) = Occupied(t, n)
  BY DEF Occupied, is_visited
<1>2. ASSUME \A p \in Occupied(t, n) : t[p].key \in Nat, Chained(t, n), NEW p \in Occupied(u, n)
      PROVE  \E i \in 0 .. n - 1 : p = Probed(i, u[p].key, n) /\ Passes(u, n, u[p].key, i)
  <2>1. p \in Occupied(t, n) /\ u[p].key = t[p].key /\ t[p].key \in Nat
    BY <1>1, <1>2 DEF Occupied
  <2>2. PICK i \in 0 .. n - 1 : p = Probed(i, t[p].key, n) /\ Passes(t, n, t[p].key, i)
    BY <1>2, <2>1 DEF Chained
  <2>3. ASSUME NEW j \in 0 .. i - 1 PROVE u[Probed(j, t[p].key, n)].key = t[Probed(j, t[p].key, n)].key
    <3>1. j \in Nat
      OBVIOUS
    <3>2. Probed(j, t[p].key, n) \in 0 .. n - 1
      BY <2>1, <3>1, ProbedInTable
    <3> QED BY <3>2
  <2>4. Passes(u, n, u[p].key, i)
    BY <2>1, <2>2, <2>3 DEF Passes
  <2> QED BY <2>1, <2>2, <2>4
<1> QED BY <1>1, <1>2 DEF Chained

\* Giving a free cell that a probe for a key stops at to that key.
LEMMA PlaceOwner ==
  ASSUME NEW n \in Nat \ {0}, NEW t \in [0 .. n - 1 -> Cell], NEW cell \in Cell, is_visited(cell),
         NEW i \in 0 .. n - 1, Passes(t, n, cell.key, i),
         t[Probed(i, cell.key, n)].key = UNVISITED
  PROVE  LET at == Probed(i, cell.key, n)
             u == [t EXCEPT ![at] = cell]
         IN  /\ Occupied(u, n) = Occupied(t, n) \cup {at}
             /\ Cardinality(Occupied(u, n)) = Cardinality(Occupied(t, n)) + 1
             /\ Chained(t, n) => Chained(u, n)
<1> DEFINE at == Probed(i, cell.key, n)
           u == [t EXCEPT ![at] = cell]
<1>1. cell.key \in Nat /\ cell.key # UNVISITED
  BY BufferAssumption DEF Cell, is_visited
<1>2. at \in 0 .. n - 1
  <2>1. i \in Nat
    OBVIOUS
  <2> QED BY <1>1, <2>1, ProbedInTable
<1>3. t[at].key = UNVISITED
  OBVIOUS
<1> HIDE DEF at
<1>4. u[at] = cell /\ \A p \in 0 .. n - 1 : p # at => u[p] = t[p]
  BY <1>2
<1> HIDE DEF u
<1>5. at \notin Occupied(t, n)
  BY <1>3 DEF Occupied, is_visited
<1>6. Occupied(u, n) = Occupied(t, n) \cup {at}
  <2>1. ASSUME NEW p \in 0 .. n - 1 PROVE is_visited(u[p]) <=> is_visited(t[p]) \/ p = at
    <3>1. CASE p = at
      BY <1>4, <3>1
    <3>2. CASE p # at
      BY <1>4, <3>2
    <3> QED BY <3>1, <3>2
  <2> QED BY <1>2, <2>1 DEF Occupied
<1>7. Cardinality(Occupied(u, n)) = Cardinality(Occupied(t, n)) + 1
  <2>1. IsFiniteSet(Occupied(t, n))
    BY OccupiedFinite
  <2> QED BY <1>5, <1>6, <2>1, FS_AddElement
<1>8. ASSUME Chained(t, n), NEW p \in Occupied(u, n)
      PROVE  \E j \in 0 .. n - 1 : p = Probed(j, u[p].key, n) /\ Passes(u, n, u[p].key, j)
  <2>1. ASSUME NEW key \in Nat, NEW j \in 0 .. n - 1, Passes(t, n, key, j),
               \A k \in 0 .. j - 1 : t[Probed(k, key, n)].key # UNVISITED
        PROVE  Passes(u, n, key, j)
    <3> SUFFICES ASSUME NEW k \in 0 .. j - 1 PROVE u[Probed(k, key, n)].key \notin {UNVISITED, key}
      BY DEF Passes
    <3>1. k \in Nat
      OBVIOUS
    <3>2. Probed(k, key, n) \in 0 .. n - 1
      BY <3>1, ProbedInTable
    <3>3. t[Probed(k, key, n)].key \notin {UNVISITED, key}
      BY <2>1 DEF Passes
    <3>4. u[Probed(k, key, n)] = t[Probed(k, key, n)]
      BY <1>3, <1>4, <3>2, <3>3
    <3> QED BY <3>3, <3>4
  <2>2. CASE p = at
    <3>1. Passes(u, n, cell.key, i)
      BY <1>1, <2>1 DEF Passes
    <3>2. p = Probed(i, cell.key, n) /\ u[p].key = cell.key
      BY <1>4, <2>2 DEF at
    <3> QED BY <3>1, <3>2
  <2>3. CASE p # at
    <3>1. p \in Occupied(t, n) /\ u[p] = t[p] /\ t[p] \in Cell
      BY <1>4, <1>6, <2>3 DEF Occupied
    <3>2. t[p].key \in Nat
      BY <3>1, BufferAssumption DEF Cell
    <3>3. PICK j \in 0 .. n - 1 : p = Probed(j, t[p].key, n) /\ Passes(t, n, t[p].key, j)
      BY <1>8, <3>1 DEF Chained
    <3>4. Passes(u, n, t[p].key, j)
      BY <2>1, <3>2, <3>3 DEF Passes
    <3> QED BY <3>1, <3>3, <3>4
  <2> QED BY <2>2, <2>3
<1>9. Chained(t, n) => Chained(u, n)
  BY <1>8 DEF Chained
<1> QED BY <1>6, <1>7, <1>9 DEF u, at

\* It is then one more of the cells with an owner.
LEMMA PlaceCell ==
  ASSUME NEW n \in Nat, NEW t \in [0 .. n - 1 -> Cell], NEW cell \in Cell, is_visited(cell),
         NEW at \in 0 .. n - 1, t[at].key = UNVISITED
  PROVE  CellsOf([t EXCEPT ![at] = cell], n) = CellsOf(t, n) \cup {cell}
<1> DEFINE u == [t EXCEPT ![at] = cell]
<1>1. u[at] = cell /\ \A p \in 0 .. n - 1 : p # at => u[p] = t[p]
  OBVIOUS
<1> HIDE DEF u
<1>2. at \notin Occupied(t, n) /\ at \in Occupied(u, n)
  BY <1>1 DEF Occupied, is_visited
<1>3. ASSUME NEW p, p # at
      PROVE  p \in Occupied(u, n) <=> p \in Occupied(t, n)
  BY <1>1, <1>3 DEF Occupied
<1>4. \A p \in Occupied(t, n) : u[p] = t[p]
  BY <1>1, <1>2 DEF Occupied
<1>5. ASSUME NEW x \in CellsOf(u, n) PROVE x \in CellsOf(t, n) \cup {cell}
  <2>1. PICK p \in Occupied(u, n) : x = u[p]
    BY DEF CellsOf
  <2> QED BY <1>1, <1>3, <1>4, <2>1 DEF CellsOf
<1>6. ASSUME NEW x \in CellsOf(t, n) PROVE x \in CellsOf(u, n)
  <2>1. PICK p \in Occupied(t, n) : x = t[p]
    BY DEF CellsOf
  <2> QED BY <1>2, <1>3, <1>4, <2>1 DEF CellsOf
<1>7. cell \in CellsOf(u, n)
  BY <1>1, <1>2 DEF CellsOf
<1> QED BY <1>5, <1>6, <1>7 DEF u

\* A probe in table t has stopped at the key's own cell or at a free one, and
\* has taken nothing over.
StopsAt(t, n, key, at) == at.table = t /\ FoundAt(t, n, key, at.index)

\* A probe that may look at all cells of a table with a free one stops.
LEMMA ProbeStops ==
  ASSUME NEW n \in Nat \ {0}, NEW t \in [0 .. n - 1 -> Cell], NEW key \in 0 .. UNVISITED - 1,
         NEW used, NEW size, UnderLoad(used, size), NEW q \in 0 .. n - 1, ~ is_visited(t[q])
  PROVE  StopsAt(t, n, key, linear_probe(t, n, used, size, key))
<1> DEFINE hits == Hits(t, n, n, key)
<1>1. key \in Nat /\ ProbeLimit(n, used, size) = n
  BY BufferAssumption DEF ProbeLimit
<1>2. PICK j \in 0 .. n - 1 : q = Probed(j, key, n)
  BY <1>1, ProbesReachAll
<1>3. j \in hits
  BY <1>2 DEF Hits, is_visited
<1>4. hits \in SUBSET Nat
  BY DEF Hits
<1>5. Min(hits) \in hits /\ \A x \in hits : Min(hits) <= x
  <2> HIDE DEF hits
  <2> QED BY <1>3, <1>4, MinOfNats
<1>6. linear_probe(t, n, used, size, key) = [index |-> Probed(Min(hits), key, n), table |-> t]
  BY <1>1, <1>3 DEF linear_probe
<1> DEFINE i == Min(hits)
<1>7. i \in 0 .. n - 1 /\ t[Probed(i, key, n)].key \in {UNVISITED, key}
  <2> HIDE DEF i
  <2>1. i \in hits
    BY <1>5 DEF i
  <2> QED BY <2>1 DEF Hits
<1>8. Passes(t, n, key, i)
  <2> SUFFICES ASSUME NEW k \in 0 .. i - 1 PROVE t[Probed(k, key, n)].key \notin {UNVISITED, key}
    BY DEF Passes
  <2>1. i \in 0 .. n - 1 /\ i \in Nat
    BY <1>7
  <2>2. k \notin hits
    <3> HIDE DEF hits
    <3>1. ~ (i <= k)
      <4> HIDE DEF i
      <4> QED BY <2>1
    <3> QED BY <1>5, <3>1
  <2>3. k \in 0 .. n - 1
    <3> HIDE DEF i
    <3> QED BY <2>1
  <2> QED BY <2>2, <2>3 DEF Hits
<1> HIDE DEF i
<1> QED BY <1>6, <1>7, <1>8 DEF i, StopsAt, FoundAt

\* What a rehash has made of the first m cells: the same cells with an owner,
\* each found from its home, and as many of them.
Copied(t, n, m, done) ==
  /\ done.used = Cardinality(Occupied(t, m))
  /\ Cardinality(Occupied(done.table, 2 * n)) = done.used
  /\ Chained(done.table, 2 * n)
  /\ CellsOf(done.table, 2 * n) = CellsOf(t, m)

\* One cell more.
LEMMA CopyCell ==
  ASSUME NEW n \in Nat \ {0}, NEW t \in [0 .. n - 1 -> Cell], Chained(t, n),
         UnderLoad(Cardinality(Occupied(t, n)) - 1, n),
         NEW m \in 0 .. n - 1,
         NEW done \in [table : [0 .. 2 * n - 1 -> Cell], used : Nat], Copied(t, n, m, done)
  PROVE  Copied(t, n, m + 1, RehashCell(done, t[m], n))
<1> DEFINE new == RehashCell(done, t[m], n)
<1>1. m \in Nat /\ m \in 0 .. n - 1 /\ t[m] \in Cell /\ 2 * n \in Nat \ {0}
  OBVIOUS
<1>2. \A i : i \in Occupied(t, m + 1) <=> i \in Occupied(t, m) \/ (i = m /\ is_visited(t[m]))
  BY <1>1 DEF Occupied
<1>3. CASE ~ is_visited(t[m])
  <2>1. new = done
    BY <1>3 DEF RehashCell
  <2>2. Occupied(t, m + 1) = Occupied(t, m)
    BY <1>2, <1>3
  <2> QED BY <2>1, <2>2 DEF Copied, CellsOf
<1>4. CASE is_visited(t[m])
  <2> DEFINE key == t[m].key
             at == linear_probe(done.table, 2 * n, done.used, n, key)
  <2>1. key \in 0 .. UNVISITED - 1 /\ key # UNVISITED
    BY <1>1, <1>4, BufferAssumption DEF is_visited, Cell
  <2>2. m \notin Occupied(t, m) /\ IsFiniteSet(Occupied(t, m))
    <3>1. m \notin Occupied(t, m)
      BY <1>1 DEF Occupied
    <3> QED BY <1>1, <3>1, OccupiedFinite
  <2>3. Occupied(t, m + 1) = Occupied(t, m) \cup {m}
    BY <1>2, <1>4
  <2>4. Cardinality(Occupied(t, m + 1)) = done.used + 1
    <3>1. Cardinality(Occupied(t, m) \cup {m}) = Cardinality(Occupied(t, m)) + 1
      BY <2>2, FS_AddElement
    <3> QED BY <2>3, <3>1 DEF Copied
  <2>5. done.used <= Cardinality(Occupied(t, n)) - 1 /\ Cardinality(Occupied(t, n)) \in 0 .. n
    <3>1. Occupied(t, m + 1) \in SUBSET Occupied(t, n)
      BY <1>1 DEF Occupied
    <3>2. IsFiniteSet(Occupied(t, n)) /\ Cardinality(Occupied(t, n)) \in 0 .. n
      BY OccupiedFinite
    <3>3. Cardinality(Occupied(t, m + 1)) <= Cardinality(Occupied(t, n))
      BY <3>1, <3>2, FS_Subset
    <3> QED BY <2>4, <3>2, <3>3
  <2>6. UnderLoad(done.used, n)
    <3>1. done.used \in Nat /\ Cardinality(Occupied(t, n)) - 1 \in Nat
      BY <2>5
    <3>2. /\ done.used * LoadDen \in Nat /\ (Cardinality(Occupied(t, n)) - 1) * LoadDen \in Nat
          /\ done.used * LoadDen <= (Cardinality(Occupied(t, n)) - 1) * LoadDen
      BY <2>5, <3>1, ProductGrows, TableAssumption
    <3>3. n * LoadNum \in Nat
      BY TableAssumption
    <3> QED BY <3>2, <3>3 DEF UnderLoad
  <2>7. PICK q \in 0 .. 2 * n - 1 : ~ is_visited(done.table[q])
    <3>1. Cardinality(Occupied(done.table, 2 * n)) < 2 * n
      BY <2>5 DEF Copied
    <3> QED BY <1>1, <3>1, OccupiedFinite
  <2>8. StopsAt(done.table, 2 * n, key, at)
    <3> HIDE DEF key
    <3>1. done.table \in [0 .. 2 * n - 1 -> Cell]
      OBVIOUS
    <3> QED BY <1>1, <2>1, <2>6, <2>7, <3>1, ProbeStops
  <2>9. new = [table |-> [at.table EXCEPT ![at.index] = t[m]], used |-> done.used + 1]
    BY <1>4 DEF RehashCell
  <2>10. at.index \in 0 .. 2 * n - 1
    <3>1. key \in Nat
      BY <2>1, BufferAssumption
    <3> QED BY <1>1, <3>1, ProbeInTable
  <2> HIDE DEF at, key, new
  <2>11. PICK i \in 0 .. 2 * n - 1 : /\ at.index = Probed(i, key, 2 * n)
                                     /\ done.table[at.index].key \in {UNVISITED, key}
                                     /\ Passes(done.table, 2 * n, key, i)
    BY <2>8 DEF StopsAt, FoundAt
  <2>12. done.table[at.index].key = UNVISITED
    <3> SUFFICES ASSUME done.table[at.index].key = key PROVE FALSE
      BY <2>11
    <3>1. at.index \in Occupied(done.table, 2 * n)
      BY <2>1, <2>10 DEF Occupied, is_visited
    <3>2. PICK j \in Occupied(t, m) : key = t[j].key
      BY <3>1 DEF Copied, CellsOf
    <3>3. j \in Occupied(t, n) /\ m \in Occupied(t, n) /\ j # m
      BY <1>1, <1>4, <2>2 DEF Occupied
    <3> QED BY <3>2, <3>3, OwnersDiffer DEF key
  <2> DEFINE u == [done.table EXCEPT ![Probed(i, t[m].key, 2 * n)] = t[m]]
  <2>13. /\ Occupied(u, 2 * n) = Occupied(done.table, 2 * n) \cup {at.index}
         /\ Cardinality(Occupied(u, 2 * n)) = Cardinality(Occupied(done.table, 2 * n)) + 1
         /\ Chained(u, 2 * n)
    <3>1. done.table \in [0 .. 2 * n - 1 -> Cell] /\ Chained(done.table, 2 * n)
      BY DEF Copied
    <3>2. Passes(done.table, 2 * n, t[m].key, i) /\ done.table[Probed(i, t[m].key, 2 * n)].key = UNVISITED
          /\ at.index = Probed(i, t[m].key, 2 * n)
      BY <2>11, <2>12 DEF key
    <3> HIDE DEF u
    <3> QED BY <1>1, <1>4, <3>1, <3>2, PlaceOwner DEF u
  <2>14. new.table = u /\ new.used = done.used + 1
    BY <2>8, <2>9, <2>11 DEF key, StopsAt
  <2>15. CellsOf(u, 2 * n) = CellsOf(t, m + 1)
    <3>1. CellsOf(t, m + 1) = CellsOf(t, m) \cup {t[m]}
      BY <2>3 DEF CellsOf
    <3>2. CellsOf([done.table EXCEPT ![at.index] = t[m]], 2 * n) = CellsOf(done.table, 2 * n) \cup {t[m]}
      BY <1>1, <1>4, <2>10, <2>12, PlaceCell
    <3>3. u = [done.table EXCEPT ![at.index] = t[m]]
      BY <2>11 DEF key
    <3> HIDE DEF u
    <3> QED BY <3>1, <3>2, <3>3 DEF Copied
  <2> HIDE DEF u
  <2>16. Cardinality(Occupied(u, 2 * n)) = done.used + 1
    BY <2>13 DEF Copied
  <2>17. Copied(t, n, m + 1, new)
    BY <2>4, <2>13, <2>14, <2>15, <2>16 DEF Copied
  <2> QED BY <2>17 DEF new
<1> QED BY <1>3, <1>4

\* A rehash of a chained table whose last owner came under the load copies
\* every cell with an owner once.
LEMMA RehashCounts ==
  ASSUME NEW n \in Nat \ {0}, NEW t \in [0 .. n - 1 -> Cell], Chained(t, n),
         UnderLoad(Cardinality(Occupied(t, n)) - 1, n)
  PROVE  LET done == RehashSteps(t, n)[n]
         IN  /\ done.used = Cardinality(Occupied(done.table, 2 * n))
             /\ CellsOf(done.table, 2 * n) = CellsOf(t, n)
             /\ Chained(done.table, 2 * n)
<1> DEFINE step == RehashSteps(t, n)
           Partial == [table : [0 .. 2 * n - 1 -> Cell], used : Nat]
           T == {m \in Nat : m <= n => Copied(t, n, m, step[m])}
<1>1. /\ step \in [0 .. n -> Partial]
      /\ step[0] = [table |-> EmptyTable(2 * n), used |-> 0]
      /\ \A i \in 1 .. n : step[i] = RehashCell(step[i - 1], t[i - 1], n)
  BY CellsKept, RehashUnfold
<1> HIDE DEF step
<1>2. 0 \in T
  <2>1. Occupied(t, 0) = {} /\ Occupied(EmptyTable(2 * n), 2 * n) = {}
    BY DEF Occupied, EmptyTable, EmptyCell, is_visited
  <2>2. Cardinality({}) = 0
    BY FS_EmptySet
  <2>3. Copied(t, n, 0, step[0])
    <3>1. step[0].table = EmptyTable(2 * n) /\ step[0].used = 0
      BY <1>1
    <3>2. Chained(EmptyTable(2 * n), 2 * n)
      BY <2>1 DEF Chained
    <3> QED BY <2>1, <2>2, <3>1, <3>2 DEF Copied, CellsOf
  <2> QED BY <2>3
<1>3. ASSUME NEW m \in T PROVE m + 1 \in T
  <2> SUFFICES ASSUME m + 1 <= n PROVE Copied(t, n, m + 1, step[m + 1])
    OBVIOUS
  <2>1. m \in 0 .. n - 1 /\ m \in 0 .. n /\ m + 1 \in 1 .. n /\ (m + 1) - 1 = m
        /\ Copied(t, n, m, step[m])
    OBVIOUS
  <2>2. step[m + 1] = RehashCell(step[m], t[m], n)
    BY <1>1, <2>1
  <2>3. step[m] \in Partial
    BY <1>1, <2>1
  <2> HIDE DEF T
  <2>4. Copied(t, n, m + 1, RehashCell(step[m], t[m], n))
    BY <2>1, <2>3, CopyCell, Zenon
  <2> QED BY <2>2, <2>4, Zenon
<1>4. n \in T
  <2>1. T \in SUBSET Nat
    OBVIOUS
  <2> HIDE DEF T
  <2> QED BY <1>2, <1>3, <2>1, NatSetInduction
<1>5. Copied(t, n, n, step[n])
  BY <1>4
<1> QED BY <1>5 DEF step, Copied

\* A probe in table t has settled on a cell behind none that is free, and has
\* changed at most the key of that cell, to its own.
SettlesAt(t, n, key, at) ==
  /\ at.index \in 0 .. n - 1 /\ PathTo(t, n, key, at.index)
  /\ at.table \in [0 .. n - 1 -> Cell]
  /\ \A q \in 0 .. n - 1 : q # at.index => at.table[q] = t[q]
  /\ IF is_visited(t[at.index]) THEN at.table[at.index].key = key
                                ELSE at.table[at.index] = t[at.index]

\* Every probe does.
LEMMA ProbeSettles ==
  ASSUME NEW n \in Nat \ {0}, NEW t \in [0 .. n - 1 -> Cell], NEW key \in 0 .. UNVISITED - 1,
         NEW used, NEW size
  PROVE  SettlesAt(t, n, key, linear_probe(t, n, used, size, key))
<1> DEFINE limit == ProbeLimit(n, used, size)
           hits == Hits(t, n, limit, key)
           at == linear_probe(t, n, used, size, key)
<1>1. limit \in Nat \ {0} /\ limit <= n
  BY TableAssumption DEF ProbeLimit
<1>2. key \in Nat /\ key # UNVISITED
  BY BufferAssumption
<1>3. at.index \in 0 .. n - 1 /\ at.table \in [0 .. n - 1 -> Cell]
  BY <1>2, ProbeInTable, ProbeKeeps, CellsKept
<1>4. hits \in SUBSET Nat
  BY <1>1 DEF Hits
<1>5. \A i \in 0 .. limit - 1 : i \notin hits => is_visited(t[Probed(i, key, n)])
  BY DEF Hits, is_visited
<1>6. CASE hits # {}
  <2> DEFINE i == Min(hits)
  <2>1. i \in hits /\ \A x \in hits : i <= x
    <3> HIDE DEF hits
    <3> QED BY <1>4, <1>6, MinOfNats
  <2>2. at = [index |-> Probed(i, key, n), table |-> t]
    BY <1>6 DEF linear_probe
  <2>3. i \in 0 .. limit - 1 /\ t[Probed(i, key, n)].key \in {UNVISITED, key}
    <3> HIDE DEF i
    <3> QED BY <2>1 DEF Hits
  <2> HIDE DEF i, hits, at, limit
  <2>4. \A j \in 0 .. i - 1 : j \in 0 .. limit - 1 /\ j \notin hits
    BY <1>1, <2>1, <2>3
  <2>5. PathTo(t, n, key, at.index)
    BY <1>1, <1>5, <2>2, <2>3, <2>4 DEF PathTo
  <2>6. \A q \in 0 .. n - 1 : at.table[q] = t[q]
    BY <2>2
  <2>7. is_visited(t[at.index]) => at.table[at.index].key = key
    BY <2>2, <2>3 DEF is_visited
  <2>8. at.table[at.index] = t[at.index]
    BY <2>2
  <2> QED BY <1>3, <2>5, <2>6, <2>7, <2>8 DEF at, SettlesAt
<1>7. CASE hits = {}
  <2> DEFINE i == limit - 1
  <2>1. i \in 0 .. limit - 1 /\ i \in 0 .. n - 1 /\ i \in Nat
    BY <1>1
  <2>2. at = [index |-> Probed(i, key, n), table |-> [t EXCEPT ![Probed(i, key, n)].key = key]]
    BY <1>7 DEF linear_probe
  <2> HIDE DEF at, limit, hits
  <2>3. \A j \in 0 .. i : j \in 0 .. limit - 1
    BY <1>1
  <2> HIDE DEF i
  <2>4. \A j \in 0 .. i : is_visited(t[Probed(j, key, n)])
    BY <1>5, <1>7, <2>3
  <2>5. PathTo(t, n, key, at.index)
    BY <2>1, <2>2, <2>4 DEF PathTo
  <2>6. \A q \in 0 .. n - 1 : q # at.index => at.table[q] = t[q]
    BY <2>2
  <2>7. at.table[at.index].key = key
    <3>1. t[at.index] \in Cell
      BY <1>3
    <3>2. at.table[at.index] = [t[at.index] EXCEPT !.key = key]
      BY <1>3, <2>2
    <3> QED BY <3>1, <3>2 DEF Cell
  <2>8. is_visited(t[at.index])
    BY <2>1, <2>2, <2>4
  <2> QED BY <1>3, <2>5, <2>6, <2>7, <2>8 DEF at, SettlesAt
<1> QED BY <1>6, <1>7

\* Wherever a probe for its key settled, a cell may be put without a gap.
LEMMA PlaceLinked ==
  ASSUME NEW n \in Nat \ {0}, NEW t \in [0 .. n - 1 -> Cell], Linked(t, n),
         NEW cell \in Cell, is_visited(cell), NEW p \in 0 .. n - 1, PathTo(t, n, cell.key, p),
         NEW u, u[p] = cell, \A q \in 0 .. n - 1 : q # p => u[q] = t[q]
  PROVE  /\ Linked(u, n)
         /\ Occupied(u, n) = Occupied(t, n) \cup {p}
         /\ is_visited(t[p]) => Cardinality(Occupied(u, n)) = Cardinality(Occupied(t, n))
         /\ ~ is_visited(t[p]) => Cardinality(Occupied(u, n)) = Cardinality(Occupied(t, n)) + 1
<1>1. u[p] = cell /\ \A q \in 0 .. n - 1 : q # p => u[q] = t[q]
  OBVIOUS
<1>2. Occupied(u, n) = Occupied(t, n) \cup {p}
  <2>1. \A q \in 0 .. n - 1 : is_visited(u[q]) <=> is_visited(t[q]) \/ q = p
    BY <1>1
  <2> QED BY <2>1 DEF Occupied
<1>3. IsFiniteSet(Occupied(t, n))
  BY OccupiedFinite
<1>4. is_visited(t[p]) <=> p \in Occupied(t, n)
  BY DEF Occupied
<1>5. is_visited(t[p]) => Cardinality(Occupied(u, n)) = Cardinality(Occupied(t, n))
  <2>1. p \in Occupied(t, n) => Occupied(u, n) = Occupied(t, n)
    BY <1>2
  <2> QED BY <1>4, <2>1
<1>6. ~ is_visited(t[p]) => Cardinality(Occupied(u, n)) = Cardinality(Occupied(t, n)) + 1
  BY <1>2, <1>3, <1>4, FS_AddElement
<1>7. ASSUME NEW key \in Nat, NEW q, PathTo(t, n, key, q) PROVE PathTo(u, n, key, q)
  <2>1. PICK i \in 0 .. n - 1 : /\ q = Probed(i, key, n)
                               /\ \A j \in 0 .. i - 1 : is_visited(t[Probed(j, key, n)])
    BY <1>7 DEF PathTo
  <2>2. ASSUME NEW j \in 0 .. i - 1 PROVE is_visited(u[Probed(j, key, n)])
    <3>1. j \in Nat
      OBVIOUS
    <3>2. Probed(j, key, n) \in 0 .. n - 1
      BY <3>1, ProbedInTable
    <3> QED BY <1>1, <2>1, <3>2
  <2> QED BY <2>1, <2>2 DEF PathTo
<1>8. ASSUME NEW q \in Occupied(u, n) PROVE PathTo(u, n, u[q].key, q)
  <2>1. CASE q = p
    <3>1. cell.key \in Nat
      BY BufferAssumption DEF Cell
    <3> QED BY <1>1, <1>7, <2>1, <3>1
  <2>2. CASE q # p
    <3>1. q \in Occupied(t, n) /\ q \in 0 .. n - 1 /\ u[q] = t[q] /\ t[q] \in Cell
      BY <1>1, <1>2, <2>2 DEF Occupied
    <3>2. t[q].key \in Nat
      BY <3>1, BufferAssumption DEF Cell
    <3> QED BY <1>7, <3>1, <3>2 DEF Linked
  <2> QED BY <2>1, <2>2
<1>9. Linked(u, n)
  BY <1>8 DEF Linked
<1> QED BY <1>2, <1>5, <1>6, <1>9

\* What a rehash has made of some cells, whatever it had to take over: a linked
\* table, with no more cells in use than were counted.
Bounded(n, done) ==
  Linked(done.table, 2 * n) /\ Cardinality(Occupied(done.table, 2 * n)) <= done.used

\* One cell more.
LEMMA CopyBounded ==
  ASSUME NEW n \in Nat \ {0}, NEW cell \in Cell,
         NEW done \in [table : [0 .. 2 * n - 1 -> Cell], used : Nat], Bounded(n, done)
  PROVE  Bounded(n, RehashCell(done, cell, n))
<1> SUFFICES ASSUME is_visited(cell) PROVE Bounded(n, RehashCell(done, cell, n))
  BY DEF RehashCell
<1> DEFINE w == 2 * n
           t == done.table
           at == linear_probe(t, w, done.used, n, cell.key)
           p == at.index
           u == [at.table EXCEPT ![p] = cell]
<1>1. w \in Nat \ {0} /\ t \in [0 .. w - 1 -> Cell] /\ cell.key \in 0 .. UNVISITED - 1 /\ done.used \in Nat
  BY BufferAssumption DEF Cell, is_visited
<1>2. RehashCell(done, cell, n) = [table |-> u, used |-> done.used + 1]
  BY DEF RehashCell
<1>3. SettlesAt(t, w, cell.key, at)
  <2> HIDE DEF w, t
  <2> QED BY <1>1, ProbeSettles
<1>4. Linked(t, w) /\ Cardinality(Occupied(t, w)) <= done.used
  BY DEF Bounded
<1> HIDE DEF at, t, w
<1>5. p \in 0 .. w - 1 /\ PathTo(t, w, cell.key, p)
  BY <1>3 DEF SettlesAt
<1>6. u[p] = cell /\ \A q \in 0 .. w - 1 : q # p => u[q] = t[q]
  BY <1>3 DEF SettlesAt
<1> HIDE DEF u, p
<1>7. Cardinality(Occupied(t, w)) \in Nat
  <2>1. Cardinality(Occupied(t, w)) \in 0 .. w
    BY <1>1, OccupiedFinite
  <2> QED BY <1>1, <2>1
<1>8. Linked(u, w)
  BY <1>1, <1>4, <1>5, <1>6, PlaceLinked
<1>9. \/ Cardinality(Occupied(u, w)) = Cardinality(Occupied(t, w))
      \/ Cardinality(Occupied(u, w)) = Cardinality(Occupied(t, w)) + 1
  BY <1>1, <1>4, <1>5, <1>6, PlaceLinked
<1>10. Cardinality(Occupied(u, w)) <= done.used + 1
  BY <1>1, <1>4, <1>7, <1>9
<1> QED BY <1>2, <1>8, <1>10 DEF Bounded, w

\* A rehash counts at least the cells it fills, and leaves no gap.
LEMMA RehashBounded ==
  ASSUME NEW n \in Nat \ {0}, NEW t \in [0 .. n - 1 -> Cell]
  PROVE  Bounded(n, RehashSteps(t, n)[n])
<1> DEFINE step == RehashSteps(t, n)
           Partial == [table : [0 .. 2 * n - 1 -> Cell], used : Nat]
           T == {m \in Nat : m <= n => Bounded(n, step[m])}
<1>1. /\ step \in [0 .. n -> Partial]
      /\ step[0] = [table |-> EmptyTable(2 * n), used |-> 0]
      /\ \A i \in 1 .. n : step[i] = RehashCell(step[i - 1], t[i - 1], n)
  BY CellsKept, RehashUnfold
<1> HIDE DEF step
<1>2. 0 \in T
  <2>1. Occupied(EmptyTable(2 * n), 2 * n) = {}
    BY DEF Occupied, EmptyTable, EmptyCell, is_visited
  <2>2. Cardinality({}) = 0
    BY FS_EmptySet
  <2>3. step[0].table = EmptyTable(2 * n) /\ step[0].used = 0
    BY <1>1
  <2>4. Linked(EmptyTable(2 * n), 2 * n)
    BY <2>1 DEF Linked
  <2>5. Cardinality(Occupied(step[0].table, 2 * n)) = 0
    BY <2>1, <2>2, <2>3
  <2>6. Bounded(n, step[0])
    BY <2>3, <2>4, <2>5 DEF Bounded
  <2> QED BY <2>6
<1>3. ASSUME NEW m \in T PROVE m + 1 \in T
  <2> SUFFICES ASSUME m + 1 <= n PROVE Bounded(n, step[m + 1])
    OBVIOUS
  <2>1. m \in 0 .. n - 1 /\ m \in 0 .. n /\ m + 1 \in 1 .. n /\ (m + 1) - 1 = m
        /\ Bounded(n, step[m])
    OBVIOUS
  <2>2. step[m + 1] = RehashCell(step[m], t[m], n)
    BY <1>1, <2>1
  <2>3. step[m] \in Partial /\ t[m] \in Cell
    BY <1>1, <2>1
  <2> HIDE DEF T
  <2>4. Bounded(n, RehashCell(step[m], t[m], n))
    BY <2>1, <2>3, CopyBounded, Zenon
  <2> QED BY <2>2, <2>4, Zenon
<1>4. n \in T
  <2>1. T \in SUBSET Nat
    OBVIOUS
  <2> HIDE DEF T
  <2> QED BY <1>2, <1>3, <2>1, NatSetInduction
<1>5. Bounded(n, step[n])
  BY <1>4
<1> QED BY <1>5 DEF step

\* Under its load or not, it has cells to spare or may get them.
Growing(h) == UnderLoad(h.used_cells, h.size) \/ 2 * h.size <= h.max_table_size

\* What a table object keeps besides its load: no gaps and a count that is not
\* too low; and if its size cannot have just the load, a count that is right
\* and, while it grows, no key that owns two cells.
Counted(h) ==
  /\ Linked(h.table, h.size)
  /\ Cardinality(Occupied(h.table, h.size)) <= h.used_cells
  /\ ~ MeetsLoad(h.size) => /\ h.used_cells = Cardinality(Occupied(h.table, h.size))
                            /\ Growing(h) => Chained(h.table, h.size)

\* A count below the load is below the size.
LEMMA UnderLoadFree ==
  ASSUME LoadNum <= LoadDen, NEW used \in Nat, NEW size \in Nat, UnderLoad(used, size)
  PROVE  used < size
<1> SUFFICES ASSUME size <= used PROVE FALSE
  OBVIOUS
<1>1. LoadNum \in Nat /\ LoadDen \in Nat
  BY TableAssumption
<1>2. LoadNum * size \in Nat /\ LoadNum * size <= LoadDen * size
  BY <1>1, ProductGrows
<1>3. size * LoadDen <= used * LoadDen /\ size * LoadDen \in Nat /\ used * LoadDen \in Nat
  BY <1>1, ProductGrows
<1>4. LoadNum * size = size * LoadNum /\ LoadDen * size = size * LoadDen
  BY <1>1
<1> QED BY <1>2, <1>3, <1>4 DEF UnderLoad

\* A table under its load has a free cell.
LEMMA FreeCell ==
  ASSUME LoadNum <= LoadDen, NEW h, TableType(h), Counted(h), UnderLoad(h.used_cells, h.size)
  PROVE  \E q \in 0 .. h.size - 1 : ~ is_visited(h.table[q])
<1>1. h.size \in Nat /\ h.used_cells \in Nat
  BY DEF TableType, TableOver
<1>2. h.used_cells < h.size
  BY <1>1, UnderLoadFree
<1>3. Cardinality(Occupied(h.table, h.size)) \in 0 .. h.size
  BY <1>1, OccupiedFinite
<1>4. Cardinality(Occupied(h.table, h.size)) < h.size
  BY <1>1, <1>2, <1>3 DEF Counted
<1> QED BY <1>1, <1>4, OccupiedFinite

\* A load that is under the limit was so before the last owner came.
LEMMA LessLoaded ==
  ASSUME NEW used \in Nat, NEW size \in Nat, UnderLoad(used + 1, size)
  PROVE  UnderLoad(used, size)
<1>1. LoadNum \in Nat /\ LoadDen \in Nat
  BY TableAssumption
<1>2. used * LoadDen <= (used + 1) * LoadDen /\ used * LoadDen \in Nat /\ (used + 1) * LoadDen \in Nat
  BY <1>1, ProductGrows
<1>3. size * LoadNum \in Nat
  BY <1>1
<1> QED BY <1>2, <1>3 DEF UnderLoad

\* A count that is just the load is not above the size.
LEMMA AtLoadMeets ==
  ASSUME LoadNum <= LoadDen, NEW used \in Nat, NEW size \in Nat, AtLoad(used, size)
  PROVE  MeetsLoad(size)
<1>1. LoadNum \in Nat /\ LoadDen \in Nat
  BY TableAssumption
<1>2. CASE used <= size
  BY <1>2 DEF MeetsLoad
<1>3. CASE LoadDen = 0
  <2>1. LoadNum = 0
    BY <1>1, <1>3
  <2>2. AtLoad(0, size) /\ 0 \in 0 .. size
    BY <1>3, <2>1 DEF AtLoad
  <2> QED BY <2>2 DEF MeetsLoad
<1>4. ASSUME size < used, LoadDen # 0 PROVE FALSE
  <2>1. /\ (size + 1) * LoadDen \in Nat /\ used * LoadDen \in Nat
        /\ (size + 1) * LoadDen <= used * LoadDen
    BY <1>1, <1>4, ProductGrows
  <2>2. LoadNum * size \in Nat /\ LoadDen * size \in Nat /\ LoadNum * size <= LoadDen * size
    BY <1>1, ProductGrows
  <2>3. (size + 1) * LoadDen = LoadDen * size + LoadDen /\ size * LoadNum = LoadNum * size
    BY <1>1
  <2>4. LoadDen > 0
    BY <1>1, <1>4
  <2> QED BY <1>1, <2>1, <2>2, <2>3, <2>4 DEF AtLoad
<1> QED BY <1>2, <1>3, <1>4

\* A size that can have just the load is twice one, or more, that can.
LEMMA MeetsDouble ==
  ASSUME NEW size \in Nat, MeetsLoad(size)
  PROVE  MeetsLoad(2 * size)
<1>1. PICK used \in 0 .. size : AtLoad(used, size)
  BY DEF MeetsLoad
<1>2. LoadNum \in Nat /\ LoadDen \in Nat
  BY TableAssumption
<1>3. (2 * used) * LoadDen = 2 * (used * LoadDen) /\ (2 * size) * LoadNum = 2 * (size * LoadNum)
  BY <1>2
<1>4. AtLoad(2 * used, 2 * size)
  BY <1>1, <1>3 DEF AtLoad
<1>5. 2 * used \in 0 .. 2 * size
  OBVIOUS
<1> QED BY <1>4, <1>5 DEF MeetsLoad

\* In a size that can have just the load, one more owner does not step over it.
LEMMA NoJump ==
  ASSUME NEW size \in Nat, MeetsLoad(size), NEW used \in Nat, UnderLoad(used, size)
  PROVE  ~ OverLoad(used + 1, size)
<1>1. PICK full \in 0 .. size : AtLoad(full, size)
  BY DEF MeetsLoad
<1>2. LoadNum \in Nat /\ LoadDen \in Nat /\ full \in Nat
  BY TableAssumption
<1>3. full * LoadDen = size * LoadNum /\ used * LoadDen < size * LoadNum
  BY <1>1 DEF AtLoad, UnderLoad
<1>4. full * LoadDen \in Nat /\ used * LoadDen \in Nat
  BY <1>2
<1>5. used < full
  <2> SUFFICES ASSUME full <= used PROVE FALSE
    BY <1>2
  <2>1. full * LoadDen <= used * LoadDen
    BY <1>2, ProductGrows
  <2> QED BY <1>3, <1>4, <2>1
<1>6. (used + 1) * LoadDen <= full * LoadDen /\ (used + 1) * LoadDen \in Nat
  BY <1>2, <1>5, ProductGrows
<1> QED BY <1>3, <1>4, <1>6 DEF OverLoad

\* Between two symbols a table that grows is under its load, or has just that.
LEMMA GrowingUnderLoad ==
  ASSUME NEW h, TableType(h), WithinLimits(h), Growing(h), ~ AtLoad(h.used_cells, h.size)
  PROVE  UnderLoad(h.used_cells, h.size)
<1> SUFFICES ASSUME 2 * h.size <= h.max_table_size
             PROVE  UnderLoad(h.used_cells, h.size)
  BY DEF Growing
<1>1. h.used_cells \in Nat /\ h.size \in Nat /\ h.max_table_size \in Nat
  BY DEF TableType, TableOver
<1>2. ~ OverLoad(h.used_cells, h.size)
  BY <1>1 DEF WithinLimits
<1>3. h.used_cells * LoadDen \in Nat /\ h.size * LoadNum \in Nat
  BY <1>1, TableAssumption
<1> QED BY <1>2, <1>3 DEF OverLoad, UnderLoad, AtLoad

\* double_table keeps the count, whether it doubles or not. Where sizes do not
\* meet the load it copies every cell with an owner once.
LEMMA DoubleCounted ==
  ASSUME NEW h, TableType(h), Counted(h),
         ~ MeetsLoad(h.size) /\ 2 * h.size <= h.max_table_size => UnderLoad(h.used_cells - 1, h.size)
  PROVE  LET g == double_table(h)
         IN  /\ Counted(g)
             /\ ~ MeetsLoad(h.size) /\ g # h =>
                  /\ CellsOf(g.table, g.size) = CellsOf(h.table, h.size)
                  /\ Chained(h.table, h.size) /\ Chained(g.table, g.size)
<1>1. CASE OverLoad(h.used_cells, h.size) /\ 2 * h.size <= h.max_table_size
  <2> DEFINE n == h.size
             done == RehashSteps(h.table, n)[n]
             g == double_table(h)
  <2>1. n \in Nat \ {0} /\ h.table \in [0 .. n - 1 -> Cell]
    BY DEF TableType, TableOver
  <2>2. Bounded(n, done)
    <3> HIDE DEF n
    <3> QED BY <2>1, RehashBounded
  <2>3. ASSUME ~ MeetsLoad(n)
        PROVE  /\ done.used = Cardinality(Occupied(done.table, 2 * n))
               /\ CellsOf(done.table, 2 * n) = CellsOf(h.table, n)
               /\ Chained(done.table, 2 * n) /\ Chained(h.table, n)
    <3>1. Chained(h.table, n) /\ UnderLoad(Cardinality(Occupied(h.table, n)) - 1, n)
      BY <1>1, <2>3 DEF Counted, Growing
    <3> HIDE DEF n
    <3> QED BY <2>1, <3>1, RehashCounts
  <2>4. g = [h EXCEPT !.table = done.table, !.used_cells = done.used, !.size = 2 * n]
    BY <1>1 DEF double_table
  <2> HIDE DEF done
  <2>5. g.used_cells = done.used /\ g.size = 2 * n /\ g.table = done.table
    BY <2>4 DEF TableType, TableOver
  <2>6. ~ MeetsLoad(2 * n) => ~ MeetsLoad(n)
    BY <2>1, MeetsDouble
  <2> HIDE DEF g
  <2>7. Counted(g)
    BY <2>2, <2>3, <2>5, <2>6 DEF Counted, Bounded
  <2> QED BY <2>3, <2>5, <2>7 DEF g
<1>2. CASE ~ (OverLoad(h.used_cells, h.size) /\ 2 * h.size <= h.max_table_size)
  BY <1>2 DEF double_table
<1> QED BY <1>1, <1>2

\* The object with the probed cell replaced by one of its key, before it may
\* double: a cell that was free is one more in use.
Placed(h, own) ==
  LET p == Lookup(h).index
  IN  [h EXCEPT !.table = [@ EXCEPT ![p] = own],
                !.used_cells = IF is_visited(h.table[p]) THEN @ ELSE @ + 1]

\* What that is.
LEMMA PlacedIs ==
  ASSUME NEW h, TableType(h), NEW own \in Cell
  PROVE  LET p == Lookup(h).index
             b == Placed(h, own)
         IN  /\ TableType(b) /\ b.size = h.size /\ b.max_table_size = h.max_table_size
             /\ b.used_cells = IF is_visited(h.table[p]) THEN h.used_cells ELSE h.used_cells + 1
             /\ p \in 0 .. h.size - 1 /\ b.table[p] = own
             /\ \A q \in 0 .. h.size - 1 : q # p => b.table[q] = h.table[q]
<1> DEFINE p == Lookup(h).index
           b == Placed(h, own)
           u == [h.table EXCEPT ![p] = own]
           used == IF is_visited(h.table[p]) THEN h.used_cells ELSE h.used_cells + 1
<1>1. p \in 0 .. h.size - 1
  BY LookupKeeps, CellsKept DEF TableType
<1>2. h.table \in [0 .. h.size - 1 -> Cell] /\ h.used_cells \in Nat
  BY DEF TableType, TableOver
<1>3. b = [h EXCEPT !.table = u, !.used_cells = used]
  BY DEF Placed
<1> HIDE DEF p, b
<1>4. u \in [0 .. h.size - 1 -> Cell] /\ u[p] = own /\ \A q \in 0 .. h.size - 1 : q # p => u[q] = h.table[q]
  BY <1>1, <1>2
<1>5. used \in Nat
  BY <1>2
<1> HIDE DEF u, used
<1>6. b.table = u /\ b.used_cells = used /\ b.size = h.size /\ b.max_table_size = h.max_table_size
  BY <1>3 DEF TableType, TableOver
<1>7. TableType(b)
  BY <1>3, <1>4, <1>5 DEF TableType, TableOver
<1> QED BY <1>1, <1>4, <1>6, <1>7 DEF p, b, used

\* Where the lookup settles.
LEMMA LookupSettles ==
  ASSUME NEW h, TableType(h)
  PROVE  SettlesAt(h.table, h.size, get_hash(h), Lookup(h))
<1>1. h.size \in Nat \ {0} /\ h.table \in [0 .. h.size - 1 -> Cell]
  BY DEF TableType, TableOver
<1>2. get_hash(h) \in 0 .. UNVISITED - 1
  BY HashType DEF TableType
<1> QED BY <1>1, <1>2, ProbeSettles DEF Lookup

\* Putting a cell back places it, with its key, and may double the table.
LEMMA StorePlaces ==
  ASSUME NEW h, TableType(h), NEW cell \in Cell, cell.key = Lookup(h).table[Lookup(h).index].key,
         NEW c \in Symbol
  PROVE  LET own == [cell EXCEPT !.key = get_hash(h)]
             b == Placed(h, own)
             next == IF is_visited(h.table[Lookup(h).index]) THEN b ELSE double_table(b)
         IN  /\ own \in Cell /\ own.key = get_hash(h) /\ is_visited(own)
             /\ Store(h, cell, c) = [next EXCEPT !.context = push(@, c)]
<1> DEFINE at == Lookup(h)
           p == at.index
           key == get_hash(h)
           own == [cell EXCEPT !.key = key]
           b == Placed(h, own)
           t == [at.table EXCEPT ![p] = cell]
           g == [h EXCEPT !.table = t]
           stored == keep_track(g, p, key)
           u == [h.table EXCEPT ![p] = own]
<1>1. SettlesAt(h.table, h.size, key, at)
  BY LookupSettles
<1>2. key \in 0 .. UNVISITED - 1 /\ key # UNVISITED
  <2>1. key \in 0 .. UNVISITED - 1
    BY HashType DEF TableType
  <2> QED BY <2>1, BufferAssumption
<1>3. h.table \in [0 .. h.size - 1 -> Cell]
  BY DEF TableType, TableOver
<1>4. Store(h, cell, c) = [stored EXCEPT !.context = push(@, c)]
  BY DEF Store
<1>5. b = [h EXCEPT !.table = u, !.used_cells = IF is_visited(h.table[p]) THEN h.used_cells
                                                                       ELSE h.used_cells + 1]
  BY DEF Placed
<1> HIDE DEF key, at
<1>6. /\ p \in 0 .. h.size - 1 /\ at.table \in [0 .. h.size - 1 -> Cell]
      /\ \A q \in 0 .. h.size - 1 : q # p => at.table[q] = h.table[q]
      /\ IF is_visited(h.table[p]) THEN at.table[p].key = key ELSE at.table[p] = h.table[p]
  BY <1>1 DEF SettlesAt
<1>7. cell.key = at.table[p].key
  BY DEF at
<1>8. own \in Cell /\ own.key = key
  BY <1>2, SetKeyType, BufferAssumption DEF Cell
<1> HIDE DEF p, b
<1>9. t[p] = cell /\ \A q \in 0 .. h.size - 1 : q # p => t[q] = h.table[q]
  BY <1>6
<1>10. t \in [0 .. h.size - 1 -> Cell]
  BY <1>6
<1> HIDE DEF t
<1>11. g.table = t /\ g = [h EXCEPT !.table = t]
  BY DEF TableType, TableOver
<1>12. CASE is_visited(h.table[p])
  <2>1. cell.key = key
    BY <1>6, <1>7, <1>12
  <2>2. own = cell
    BY <2>1 DEF Cell
  <2> HIDE DEF own
  <2>3. t = u
    BY <1>3, <1>6, <1>8, <1>9, <1>10, <2>2
  <2>4. stored = g
    BY <1>2, <1>9, <1>11, <2>1 DEF keep_track, is_visited
  <2> HIDE DEF u, stored, g
  <2>5. b = [h EXCEPT !.table = u, !.used_cells = h.used_cells]
    BY <1>5, <1>12
  <2>6. b = g
    BY <1>11, <2>3, <2>5 DEF TableType, TableOver
  <2>7. stored = b
    BY <2>4, <2>6
  <2>8. Store(h, cell, c) = [b EXCEPT !.context = push(@, c)] /\ is_visited(own)
    BY <1>2, <1>4, <1>8, <2>7 DEF is_visited
  <2> QED BY <1>8, <1>12, <2>8 DEF own, b, p, key, at
<1>13. CASE ~ is_visited(h.table[p])
  <2>1. ~ is_visited(t[p])
    BY <1>6, <1>7, <1>9, <1>13 DEF is_visited
  <2> DEFINE f == [g EXCEPT !.used_cells = @ + 1, !.table[p].key = key]
             v == [t EXCEPT ![p] = own]
  <2>2. stored = double_table(f)
    BY <1>11, <2>1 DEF keep_track
  <2>3. f = [g EXCEPT !.used_cells = g.used_cells + 1, !.table = v]
    BY <1>9, <1>10, <1>11 DEF own, TableType, TableOver
  <2> HIDE DEF own, f, stored
  <2>4. v = u
    BY <1>3, <1>6, <1>8, <1>9, <1>10
  <2>5. b = [h EXCEPT !.table = u, !.used_cells = h.used_cells + 1]
    BY <1>5, <1>13
  <2> HIDE DEF u, v, g
  <2>6. g.used_cells = h.used_cells
    BY <1>11 DEF TableType, TableOver
  <2>7. f = b
    BY <1>11, <2>3, <2>4, <2>5, <2>6 DEF TableType, TableOver
  <2>8. Store(h, cell, c) = [double_table(b) EXCEPT !.context = push(@, c)] /\ is_visited(own)
    BY <1>2, <1>4, <1>8, <2>2, <2>7 DEF is_visited
  <2> QED BY <1>8, <1>13, <2>8 DEF own, b, p, key, at
<1> QED BY <1>12, <1>13

\* A lookup in a table under its load stops where the key is to be found.
LEMMA LookupStops ==
  ASSUME LoadNum <= LoadDen, NEW h, TableType(h), Counted(h), UnderLoad(h.used_cells, h.size)
  PROVE  FoundAt(h.table, h.size, get_hash(h), Lookup(h).index)
<1> DEFINE n == h.size
           t == h.table
           key == get_hash(h)
<1>1. n \in Nat \ {0} /\ t \in [0 .. n - 1 -> Cell] /\ key \in 0 .. UNVISITED - 1
  <2>1. key \in 0 .. UNVISITED - 1
    BY HashType DEF TableType
  <2> QED BY <2>1 DEF TableType, TableOver
<1>2. PICK q \in 0 .. n - 1 : ~ is_visited(t[q])
  BY FreeCell
<1>3. Lookup(h) = linear_probe(t, n, h.used_cells, n, key) /\ UnderLoad(h.used_cells, n)
  BY DEF Lookup
<1> HIDE DEF t, n, key
<1>4. StopsAt(t, n, key, Lookup(h))
  BY <1>1, <1>2, <1>3, ProbeStops
<1> QED BY <1>4 DEF StopsAt, t, n, key

\* Placing a cell keeps what a table object keeps, and in a table under its load
\* whose size cannot have just that, no key then owns two cells.
LEMMA PlaceCounted ==
  ASSUME LoadNum <= LoadDen, NEW h, TableType(h), WithinLimits(h), Counted(h),
         NEW own \in Cell, own.key = get_hash(h), is_visited(own)
  PROVE  /\ Counted(Placed(h, own))
         /\ ~ MeetsLoad(h.size) /\ 2 * h.size <= h.max_table_size => UnderLoad(h.used_cells, h.size)
<1> DEFINE p == Lookup(h).index
           b == Placed(h, own)
           key == get_hash(h)
           n == h.size
           t == h.table
           u == b.table
<1>1. /\ n \in Nat \ {0} /\ t \in [0 .. n - 1 -> Cell] /\ h.used_cells \in Nat
      /\ key \in 0 .. UNVISITED - 1 /\ h.max_table_size \in Nat
  <2>1. key \in 0 .. UNVISITED - 1
    BY HashType DEF TableType
  <2> QED BY <2>1 DEF TableType, TableOver
<1>2. /\ TableType(b) /\ b.size = n /\ b.max_table_size = h.max_table_size
      /\ b.used_cells = IF is_visited(t[p]) THEN h.used_cells ELSE h.used_cells + 1
      /\ p \in 0 .. n - 1 /\ u[p] = own /\ \A q \in 0 .. n - 1 : q # p => u[q] = t[q]
  BY PlacedIs
<1>3. PathTo(t, n, key, p)
  BY LookupSettles DEF SettlesAt
<1>4. Linked(t, n) /\ Cardinality(Occupied(t, n)) <= h.used_cells
  BY DEF Counted
<1>5. ~ MeetsLoad(n) => h.used_cells = Cardinality(Occupied(t, n))
  BY DEF Counted
<1>6. ASSUME ~ MeetsLoad(n), Growing(h) PROVE UnderLoad(h.used_cells, n) /\ Chained(t, n)
  <2>1. ~ AtLoad(h.used_cells, n)
    BY <1>1, <1>6, AtLoadMeets
  <2>2. UnderLoad(h.used_cells, n)
    BY <1>6, <2>1, GrowingUnderLoad
  <2> QED BY <1>6, <2>2 DEF Counted
<1>7. UnderLoad(h.used_cells, n) => FoundAt(t, n, key, p)
  BY LookupStops
<1>8. UnderLoad(h.used_cells, n) => Growing(h)
  BY DEF Growing
<1>9. Growing(b) => Growing(h)
  <2>1. UnderLoad(h.used_cells + 1, n) => UnderLoad(h.used_cells, n)
    BY <1>1, LessLoaded
  <2> HIDE DEF b
  <2> QED BY <1>2, <2>1 DEF Growing
<1> HIDE DEF b, p, u, t, n, key
<1>10. own.key = key /\ PathTo(t, n, own.key, p)
  BY <1>3 DEF key
<1>11. /\ Linked(u, n)
       /\ is_visited(t[p]) => Cardinality(Occupied(u, n)) = Cardinality(Occupied(t, n))
       /\ ~ is_visited(t[p]) => Cardinality(Occupied(u, n)) = Cardinality(Occupied(t, n)) + 1
  BY <1>1, <1>2, <1>4, <1>10, PlaceLinked
<1>12. Cardinality(Occupied(t, n)) \in Nat
  <2>1. Cardinality(Occupied(t, n)) \in 0 .. n
    BY <1>1, OccupiedFinite
  <2> QED BY <1>1, <2>1
<1>13. Cardinality(Occupied(u, n)) <= b.used_cells
  BY <1>1, <1>2, <1>4, <1>11, <1>12
<1>14. ~ MeetsLoad(n) => b.used_cells = Cardinality(Occupied(u, n))
  BY <1>1, <1>2, <1>5, <1>11, <1>12
<1>15. ASSUME FoundAt(t, n, key, p), Chained(t, n) PROVE Chained(u, n)
  <2>1. PICK i \in 0 .. n - 1 : /\ p = Probed(i, key, n) /\ t[p].key \in {UNVISITED, key}
                               /\ Passes(t, n, key, i)
    BY <1>15 DEF FoundAt
  <2>2. CASE t[p].key = key
    <3>1. \A q \in 0 .. n - 1 : u[q].key = t[q].key
      BY <1>2, <1>10, <2>2
    <3>2. \A q \in Occupied(t, n) : t[q].key \in Nat
      BY <1>1, BufferAssumption DEF Occupied, Cell
    <3> QED BY <1>1, <1>15, <3>1, <3>2, SameKeys
  <2>3. CASE t[p].key = UNVISITED
    <3>1. Chained([t EXCEPT ![Probed(i, own.key, n)] = own], n)
      BY <1>1, <1>10, <1>15, <2>1, <2>3, PlaceOwner
    <3>2. u = [t EXCEPT ![p] = own]
      <4>1. u \in [0 .. n - 1 -> Cell]
        BY <1>2 DEF u, TableType, TableOver
      <4> QED BY <1>1, <1>2, <4>1
    <3> QED BY <1>10, <2>1, <3>1, <3>2
  <2> QED BY <2>1, <2>2, <2>3
<1>16. ~ MeetsLoad(n) /\ Growing(b) => Chained(u, n)
  BY <1>6, <1>7, <1>9, <1>15
<1>17. Counted(b)
  BY <1>2, <1>11, <1>13, <1>14, <1>16 DEF Counted, u
<1>18. ~ MeetsLoad(n) /\ 2 * n <= h.max_table_size => UnderLoad(h.used_cells, n)
  BY <1>6 DEF Growing, n
<1> QED BY <1>17, <1>18 DEF b, n

\* And so does doubling after it.
LEMMA PlacedDoubles ==
  ASSUME LoadNum <= LoadDen, NEW h, TableType(h), WithinLimits(h), Counted(h),
         NEW own \in Cell, own.key = get_hash(h), is_visited(own),
         ~ is_visited(h.table[Lookup(h).index])
  PROVE  LET b == Placed(h, own)
             g == double_table(b)
         IN  /\ TableType(b) /\ b.size = h.size /\ Counted(g)
             /\ ~ MeetsLoad(h.size) /\ g # b => /\ CellsOf(g.table, g.size) = CellsOf(b.table, b.size)
                                                /\ Chained(b.table, b.size) /\ Chained(g.table, g.size)
<1> DEFINE b == Placed(h, own)
<1>1. TableType(b) /\ b.size = h.size /\ b.max_table_size = h.max_table_size
      /\ b.used_cells = h.used_cells + 1
  BY PlacedIs
<1>2. Counted(b)
  BY PlaceCounted
<1>3. h.used_cells \in Nat /\ (h.used_cells + 1) - 1 = h.used_cells
  BY DEF TableType, TableOver
<1>4. ~ MeetsLoad(h.size) /\ 2 * h.size <= h.max_table_size => UnderLoad(h.used_cells, h.size)
  BY PlaceCounted
<1> HIDE DEF b
<1>5. ~ MeetsLoad(b.size) /\ 2 * b.size <= b.max_table_size => UnderLoad(b.used_cells - 1, b.size)
  BY <1>1, <1>3, <1>4
<1> QED BY <1>1, <1>2, <1>5, DoubleCounted DEF b

\* The context does not matter to it.
LEMMA ContextCounted ==
  ASSUME NEW h, TableType(h), NEW d
  PROVE  LET s == [h EXCEPT !.context = d]
         IN  /\ s.table = h.table /\ s.size = h.size /\ s.used_cells = h.used_cells
             /\ s.max_table_size = h.max_table_size
             /\ Counted(h) => Counted(s)
BY DEF Counted, Growing, TableType, TableOver

\* Putting the cell back that was looked up keeps the count.
LEMMA StoreCounted ==
  ASSUME LoadNum <= LoadDen, NEW h, TableType(h), WithinLimits(h), Counted(h),
         NEW cell \in Cell, cell.key = Lookup(h).table[Lookup(h).index].key, NEW c \in Symbol
  PROVE  Counted(Store(h, cell, c))
<1> DEFINE own == [cell EXCEPT !.key = get_hash(h)]
           b == Placed(h, own)
           next == IF is_visited(h.table[Lookup(h).index]) THEN b ELSE double_table(b)
<1>1. /\ own \in Cell /\ own.key = get_hash(h) /\ is_visited(own)
      /\ Store(h, cell, c) = [next EXCEPT !.context = push(@, c)]
  BY StorePlaces
<1> HIDE DEF own
<1>2. TableType(b) /\ Counted(b)
  BY <1>1, PlacedIs, PlaceCounted
<1>3. ~ is_visited(h.table[Lookup(h).index]) => Counted(double_table(b))
  BY <1>1, PlacedDoubles
<1>4. TableType(double_table(b))
  BY <1>2, DoubleKeeps, CellsKept DEF TableType
<1> HIDE DEF b
<1>5. TableType(next) /\ Counted(next)
  BY <1>2, <1>3, <1>4
<1> HIDE DEF next
<1> QED BY <1>1, <1>5, ContextCounted

\* Neither encoding nor decoding gives a cell to another owner.
LEMMA KeyStays ==
  ASSUME NEW cell \in Cell
  PROVE  /\ \A c \in Symbol : buffer_encode(cell, c).cell.key = cell.key
         /\ \A code \in Codes : buffer_decode(cell, code).cell.key = cell.key
<1>1. \A i : shift(cell, i).key = cell.key
  BY DEF shift, Cell
<1>2. \A c : append(cell, c).key = cell.key
  BY DEF append, Cell
<1> QED BY <1>1, <1>2 DEF buffer_encode, buffer_decode

\* Filling the context touches no cell.
LEMMA FillCounted ==
  ASSUME NEW h, TableType(h), Counted(h), NEW c
  PROVE  Counted(Fill(h, c))
BY DEF Fill, Counted, Growing, TableType, TableOver

\* Encoding a symbol keeps the count,
LEMMA EncodeCounted ==
  ASSUME LoadNum <= LoadDen, NEW h, TableType(h), WithinLimits(h), Counted(h),
         NEW c \in Symbol
  PROVE  Counted(mtf_encode(h, c).next)
<1>1. CASE Filling(h)
  BY <1>1, FillCounted DEF mtf_encode
<1>2. CASE ~ Filling(h)
  <2> DEFINE found == Lookup(h).table[Lookup(h).index]
             e == buffer_encode(found, c)
  <2>1. found \in Cell
    BY LookupKeeps, CellsKept DEF TableType
  <2>2. mtf_encode(h, c).next = Store(h, e.cell, c)
    BY <1>2 DEF mtf_encode
  <2> HIDE DEF found
  <2>3. e.cell \in Cell /\ e.cell.key = found.key
    BY <2>1, BufferEncodeType, KeyStays
  <2> HIDE DEF e
  <2> QED BY <2>2, <2>3, StoreCounted DEF found
<1> QED BY <1>1, <1>2

\* and so does decoding one.
LEMMA DecodeCounted ==
  ASSUME LoadNum <= LoadDen, NEW h, TableType(h), WithinLimits(h), Counted(h),
         NEW code \in Codes
  PROVE  Counted(mtf_decode(h, code).next)
<1>1. CASE Filling(h)
  BY <1>1, FillCounted DEF mtf_decode
<1>2. CASE ~ Filling(h)
  <2> DEFINE found == Lookup(h).table[Lookup(h).index]
             d == buffer_decode(found, code)
  <2>1. found \in Cell
    BY LookupKeeps, CellsKept DEF TableType
  <2>2. mtf_decode(h, code).next = Store(h, d.cell, d.symbol)
    BY <1>2 DEF mtf_decode
  <2> HIDE DEF found
  <2>3. d.cell \in Cell /\ d.cell.key = found.key /\ d.symbol \in Symbol
    BY <2>1, BufferDecodeType, KeyStays
  <2> HIDE DEF d
  <2> QED BY <2>2, <2>3, StoreCounted DEF found
<1> QED BY <1>1, <1>2

\* A new table counts right.
LEMMA NewTableCounted ==
  ASSUME NEW m, NEW seed
  PROVE  Counted(NewTable(m, seed))
<1>1. Occupied(EmptyTable(INITIAL_SIZE), INITIAL_SIZE) = {}
  BY DEF Occupied, EmptyTable, EmptyCell, is_visited
<1>2. Cardinality({}) = 0
  BY FS_EmptySet
<1> QED BY <1>1, <1>2 DEF Counted, Linked, Chained, NewTable

CountInv ==
  /\ TypeInv /\ LoadBounded
  /\ Counted(enc) /\ Counted(dec)

\* It holds of two new tables,
LEMMA CountInvInit ==
  ASSUME Init
  PROVE  CountInv
<1>1. PICK seed \in Seeds, memory \in Memories :
        enc = NewTable(memory[1], seed) /\ dec = NewTable(memory[2], seed)
  BY DEF Init
<1>0. memory[1] \in Nat /\ memory[2] \in Nat
  BY CodecAssumption
<1>2. Counted(enc) /\ Counted(dec)
  BY <1>1, NewTableCounted
<1> QED BY <1>2, TypeInvInit, LoadBoundedInit DEF CountInv

\* and after every step.
LEMMA CountInvStep ==
  ASSUME HalfIsLight, LoadNum <= LoadDen, CountInv, [Next]_vars
  PROVE  CountInv'
<1>1. TypeInv' /\ LoadBounded'
  BY TypeInvStep, LoadBoundedStep DEF CountInv
<1>2. TableType(enc) /\ TableType(dec) /\ codes \in Seq(Codes) /\ decoded \in Seq(Symbol)
  BY DEF CountInv, TypeInv, TypeOK
<1>3. WithinLimits(enc) /\ WithinLimits(dec) /\ Counted(enc) /\ Counted(dec)
  BY DEF CountInv, LoadBounded
<1>4. ASSUME NEW c \in Symbol, Encode(c) PROVE Counted(enc') /\ Counted(dec')
  <2>1. enc' = mtf_encode(enc, c).next /\ dec' = dec
    BY <1>4 DEF Encode
  <2> QED BY <1>2, <1>3, <2>1, EncodeCounted
<1>5. ASSUME Decode PROVE Counted(enc') /\ Counted(dec')
  <2>1. dec' = mtf_decode(dec, codes[Len(decoded) + 1]).next /\ enc' = enc
        /\ codes[Len(decoded) + 1] \in Codes
    BY <1>2, <1>5 DEF Decode
  <2> QED BY <1>2, <1>3, <2>1, DecodeCounted
<1>6. ASSUME UNCHANGED vars PROVE Counted(enc') /\ Counted(dec')
  BY <1>3, <1>6 DEF vars
<1>7. Counted(enc') /\ Counted(dec')
  BY <1>4, <1>5, <1>6 DEF Next
<1> QED BY <1>1, <1>7 DEF CountInv, Counted

\* used_cells is never less than the number of cells that have an owner, and
\* where the sizes do not meet the load it is that number, at both ends and
\* whatever their memory limits, hash function and input: if the load is at most
\* one and half a table is not above it.
THEOREM UsedCorrect ==
  ASSUME HalfIsLight, LoadNum <= LoadDen
  PROVE  Spec => []UsedCountsVisited
<1>1. Init => CountInv
  BY CountInvInit
<1>2. CountInv /\ [Next]_vars => CountInv'
  BY CountInvStep
<1>3. CountInv => UsedCountsVisited
  BY DEF CountInv, Counted, UsedCountsVisited, Visited, Occupied
<1> QED BY <1>1, <1>2, <1>3, PTL DEF Spec

-------------------------------------------------------------------------------
(* The lists.  A probe that is not cut short finds the first cell of its key. *)
(* A symbol changes what is found for its own context only, and a rehash of a *)
(* table where no key owns two cells changes nothing of it.                   *)

\* What a probe for the key finds if it may look at all cells: the list of the
\* first cell that the key owns, or nothing.
Finds(t, n, key, list) ==
  \/ \E q \in Occupied(t, n) : FoundAt(t, n, key, q) /\ list = LiveSymbols(t[q])
  \/ (\A q \in Occupied(t, n) : t[q].key # key) /\ list = <<>>

\* Sequences of one length with the same elements are the same.
LEMMA SameSequence ==
  ASSUME NEW A, NEW s \in Seq(A), NEW t \in Seq(A), Len(s) = Len(t),
         \A j \in 1 .. Len(s) : s[j] = t[j]
  PROVE  s = t
OBVIOUS

\* The list of a cell as a sequence.
LEMMA LiveSequence ==
  ASSUME NEW cell \in Cell
  PROVE  /\ LiveSymbols(cell) \in Seq(Symbol) /\ Len(LiveSymbols(cell)) = cell.symbols
         /\ cell.symbols \in 0 .. SIZE
         /\ \A j \in 1 .. cell.symbols : LiveSymbols(cell)[j] = cell.buffer[j - 1]
         /\ cell.symbols = 0 => LiveSymbols(cell) = <<>>
<1>1. cell.symbols \in 0 .. SIZE /\ cell.symbols \in Nat
  BY BufferAssumption DEF Cell
<1>2. \A j \in 1 .. cell.symbols : cell.buffer[j - 1] \in Symbol
  BY <1>1, BufferAssumption DEF Cell, Slot
<1>3. LiveSymbols(cell) \in Seq(Symbol) /\ Len(LiveSymbols(cell)) = cell.symbols
  BY <1>1, <1>2 DEF LiveSymbols
<1>4. \A j \in 1 .. cell.symbols : LiveSymbols(cell)[j] = cell.buffer[j - 1]
  BY DEF LiveSymbols
<1> QED BY <1>1, <1>3, <1>4

\* In a table under its load that is the list of the key, and the only one.
LEMMA ListIsFound ==
  ASSUME LoadNum <= LoadDen, NEW h, Listed(h), Counted(h), UnderLoad(h.used_cells, h.size),
         NEW key \in 0 .. UNVISITED - 1
  PROVE  /\ Finds(h.table, h.size, key, ListOf(h, key))
         /\ \A list : Finds(h.table, h.size, key, list) => list = ListOf(h, key)
<1> DEFINE n == h.size
           t == h.table
           at == linear_probe(t, n, h.used_cells, n, key)
           p == at.index
<1>1. n \in Nat \ {0} /\ t \in [0 .. n - 1 -> Distinct] /\ TableType(h)
  BY ListedType DEF Listed, TableOver
<1>2. t \in [0 .. n - 1 -> Cell] /\ key \in Nat /\ key # UNVISITED
  BY <1>1, DistinctKept, BufferAssumption
<1>3. PICK free \in 0 .. n - 1 : ~ is_visited(t[free])
  BY <1>1, FreeCell
<1>4. Linked(t, n)
  BY DEF Counted
<1>5. StopsAt(t, n, key, at)
  <2> HIDE DEF t, n
  <2>1. UnderLoad(h.used_cells, n)
    BY DEF n
  <2> QED BY <1>1, <1>2, <1>3, <2>1, ProbeStops
<1>6. ListOf(h, key) = LiveSymbols(at.table[p])
  BY DEF ListOf
<1>7. p \in 0 .. n - 1
  <2> HIDE DEF t, n
  <2> QED BY <1>1, <1>2, ProbeInTable
<1> HIDE DEF at, n, t
<1>8. at.table = t /\ FoundAt(t, n, key, p)
  BY <1>5 DEF StopsAt
<1> HIDE DEF p
<1>9. ListOf(h, key) = LiveSymbols(t[p]) /\ t[p] \in Distinct /\ t[p] \in Cell
      /\ t[p].key \in {UNVISITED, key}
  BY <1>1, <1>2, <1>6, <1>7, <1>8 DEF FoundAt
<1>10. \A q \in Occupied(t, n) : FoundAt(t, n, key, q) => q = p
  BY <1>1, <1>8, FoundOnce
<1>11. CASE t[p].key = key
  <2>1. p \in Occupied(t, n)
    BY <1>2, <1>7, <1>11 DEF Occupied, is_visited
  <2>2. Finds(t, n, key, ListOf(h, key))
    BY <1>8, <1>9, <2>1 DEF Finds
  <2>3. \A list : Finds(t, n, key, list) => list = ListOf(h, key)
    BY <1>9, <1>10, <1>11, <2>1 DEF Finds
  <2> QED BY <2>2, <2>3 DEF n, t
<1>12. CASE t[p].key = UNVISITED
  <2>1. ListOf(h, key) = <<>>
    <3>1. t[p].symbols = 0
      BY <1>9, <1>12, BufferAssumption DEF Distinct, Cell, is_visited
    <3> QED BY <1>9, <3>1, LiveSequence
  <2>2. ~ is_visited(t[p]) /\ p \notin Occupied(t, n)
    BY <1>12 DEF is_visited, Occupied
  <2>3. \A q \in Occupied(t, n) : t[q].key # key
    BY <1>1, <1>4, <1>8, <2>2, OwnerIsNew
  <2>4. Finds(t, n, key, ListOf(h, key))
    BY <2>1, <2>3 DEF Finds
  <2>5. \A list : Finds(t, n, key, list) => list = ListOf(h, key)
    BY <1>10, <2>1, <2>2 DEF Finds
  <2> QED BY <2>4, <2>5 DEF n, t
<1> QED BY <1>9, <1>11, <1>12

\* Placing a cell where a probe for its key stops changes what is found for
\* that key only.
LEMMA FindsPlaced ==
  ASSUME NEW n \in Nat \ {0}, NEW t, NEW u, NEW own, is_visited(own), own.key \in Nat,
         NEW p \in 0 .. n - 1, FoundAt(t, n, own.key, p),
         u[p] = own, \A q \in 0 .. n - 1 : q # p => u[q] = t[q],
         NEW key \in 0 .. UNVISITED - 1, NEW list, Finds(t, n, key, list),
         NEW after, after = IF key = own.key THEN LiveSymbols(own) ELSE list
  PROVE  Finds(u, n, key, after)
<1>1. key \in Nat /\ key # UNVISITED /\ own.key # UNVISITED
  BY BufferAssumption DEF is_visited
<1>2. t[p].key \in {UNVISITED, own.key}
  BY DEF FoundAt
<1>3. ASSUME NEW k \in Nat, NEW q \in 0 .. n - 1, FoundAt(t, n, k, q), u[q].key = k
      PROVE  FoundAt(u, n, k, q)
  <2>1. PICK i \in 0 .. n - 1 : q = Probed(i, k, n) /\ Passes(t, n, k, i)
    BY <1>3 DEF FoundAt
  <2>2. ASSUME NEW j \in 0 .. i - 1 PROVE u[Probed(j, k, n)].key \notin {UNVISITED, k}
    <3> DEFINE r == Probed(j, k, n)
    <3>1. j \in Nat
      OBVIOUS
    <3>2. r \in 0 .. n - 1
      BY <3>1, ProbedInTable
    <3>3. t[r].key \notin {UNVISITED, k}
      BY <2>1 DEF Passes
    <3> HIDE DEF r
    <3>4. u[r].key \notin {UNVISITED, k}
      <4>1. CASE r = p
        BY <1>1, <1>2, <1>3, <3>3, <4>1
      <4>2. CASE r # p
        BY <3>2, <3>3, <4>2
      <4> QED BY <4>1, <4>2
    <3> QED BY <3>4 DEF r
  <2> QED BY <1>3, <2>1, <2>2 DEF FoundAt, Passes
<1>4. CASE key = own.key
  <2>1. FoundAt(u, n, key, p)
    BY <1>3, <1>4
  <2>2. p \in Occupied(u, n)
    BY DEF Occupied
  <2> QED BY <1>4, <2>1, <2>2 DEF Finds
<1>5. CASE key # own.key
  <2>1. CASE \E q \in Occupied(t, n) : FoundAt(t, n, key, q) /\ list = LiveSymbols(t[q])
    <3>1. PICK q \in Occupied(t, n) : FoundAt(t, n, key, q) /\ list = LiveSymbols(t[q])
      BY <2>1
    <3>2. q \in 0 .. n - 1 /\ t[q].key = key
      BY <3>1 DEF Occupied, FoundAt, is_visited
    <3>3. q # p
      BY <1>1, <1>2, <1>5, <3>2
    <3>4. u[q] = t[q]
      BY <3>2, <3>3
    <3>5. FoundAt(u, n, key, q) /\ q \in Occupied(u, n)
      BY <1>1, <1>3, <3>1, <3>2, <3>4 DEF Occupied
    <3> QED BY <1>5, <3>1, <3>4, <3>5 DEF Finds
  <2>2. CASE (\A q \in Occupied(t, n) : t[q].key # key) /\ list = <<>>
    <3>1. ASSUME NEW q \in Occupied(u, n) PROVE u[q].key # key
      <4>1. q \in 0 .. n - 1 /\ is_visited(u[q])
        BY DEF Occupied
      <4>2. CASE q = p
        BY <1>5, <4>2
      <4>3. CASE q # p
        BY <2>2, <4>1, <4>3 DEF Occupied
      <4> QED BY <4>2, <4>3
    <3> QED BY <1>5, <2>2, <3>1 DEF Finds
  <2> QED BY <2>1, <2>2 DEF Finds
<1> QED BY <1>4, <1>5

\* In chained tables with the same cells the same is found.
LEMMA FindsSame ==
  ASSUME NEW n \in Nat \ {0}, NEW t, NEW m \in Nat \ {0}, NEW u,
         Chained(u, m), CellsOf(u, m) = CellsOf(t, n), NEW key, NEW list, Finds(t, n, key, list),
         key # UNVISITED
  PROVE  Finds(u, m, key, list)
<1>1. CASE \E q \in Occupied(t, n) : FoundAt(t, n, key, q) /\ list = LiveSymbols(t[q])
  <2>1. PICK q \in Occupied(t, n) : FoundAt(t, n, key, q) /\ list = LiveSymbols(t[q])
    BY <1>1
  <2>2. t[q].key = key /\ t[q] \in CellsOf(t, n)
    BY <2>1 DEF FoundAt, Occupied, is_visited, CellsOf
  <2>3. PICK p \in Occupied(u, m) : u[p] = t[q]
    BY <2>2 DEF CellsOf
  <2>4. PICK i \in 0 .. m - 1 : p = Probed(i, key, m) /\ Passes(u, m, key, i)
    BY <2>2, <2>3 DEF Chained
  <2>5. FoundAt(u, m, key, p)
    BY <2>2, <2>3, <2>4 DEF FoundAt
  <2> QED BY <2>1, <2>3, <2>5 DEF Finds
<1>2. CASE (\A q \in Occupied(t, n) : t[q].key # key) /\ list = <<>>
  <2>1. ASSUME NEW p \in Occupied(u, m) PROVE u[p].key # key
    <3>1. u[p] \in CellsOf(t, n)
      BY DEF CellsOf
    <3> QED BY <1>2, <3>1 DEF CellsOf
  <2> QED BY <1>2, <2>1 DEF Finds
<1> QED BY <1>1, <1>2 DEF Finds

\* Encoding in a cell is moving to the front of its list.
LEMMA EncodeMoves ==
  ASSUME NEW cell \in Distinct, NEW c \in Symbol
  PROVE  LET e == buffer_encode(cell, c)
             list == LiveSymbols(cell)
         IN  /\ e.code = Lists!CodeOf(list, c)
             /\ LiveSymbols(e.cell) = Lists!Truncate(Lists!MoveToFront(list, c))
<1> DEFINE e == buffer_encode(cell, c)
           list == LiveSymbols(cell)
           moved == Lists!MoveToFront(list, c)
           n == cell.symbols
           next == LiveSymbols(e.cell)
<1>1. cell \in Cell /\ NoRepeat(cell) /\ n \in 0 .. SIZE /\ n \in Nat /\ SIZE \in Nat \ {0}
  BY BufferAssumption DEF Distinct, Cell
<1>2. list \in Seq(Symbol) /\ Len(list) = n /\ \A j \in 1 .. n : list[j] = cell.buffer[j - 1]
  BY <1>1, LiveSequence
<1>3. e.cell \in Cell
  BY <1>1, BufferEncodeType
<1>4. next \in Seq(Symbol) /\ Len(next) = e.cell.symbols
      /\ \A j \in 1 .. e.cell.symbols : next[j] = e.cell.buffer[j - 1]
  BY <1>3, LiveSequence
<1>5. Lists!Contains(list, c) <=> Holding(cell, c) # {}
  <2>1. ASSUME NEW j \in 1 .. n, list[j] = c PROVE j - 1 \in Holding(cell, c)
    BY <1>1, <1>2, <2>1 DEF Holding
  <2>2. ASSUME NEW i \in Holding(cell, c) PROVE i + 1 \in 1 .. n /\ list[i + 1] = c
    BY <1>1, <1>2 DEF Holding
  <2> HIDE DEF list, n
  <2> QED BY <1>2, <2>1, <2>2 DEF Lists!Contains
<1> HIDE DEF list
<1>6. CASE Holding(cell, c) # {}
  <2> DEFINE i == Min(Holding(cell, c))
  <2>1. i \in 0 .. n - 1 /\ cell.buffer[i] = c
    <3>1. Holding(cell, c) \in SUBSET Nat
      BY <1>1 DEF Holding
    <3>2. i \in Holding(cell, c)
      BY <1>6, <3>1, MinOfNats
    <3> QED BY <3>2 DEF Holding
  <2>2. e = [cell |-> shift(cell, i), code |-> i]
    BY <1>6 DEF buffer_encode
  <2> HIDE DEF i
  <2>3. i + 1 \in 1 .. n /\ list[i + 1] = c /\ \A j \in 1 .. n : list[j] = c => j = i + 1
    <3>1. i + 1 \in 1 .. n /\ (i + 1) - 1 = i
      BY <1>1, <2>1
    <3>2. ASSUME NEW j \in 1 .. n, list[j] = c PROVE j = i + 1
      <4>1. j - 1 \in 0 .. n - 1 /\ cell.buffer[j - 1] = cell.buffer[i]
        BY <1>1, <1>2, <2>1, <3>2
      <4>2. j - 1 = i
        BY <1>1, <2>1, <4>1 DEF NoRepeat
      <4> QED BY <1>1, <2>1, <4>2
    <3> QED BY <1>2, <2>1, <3>1, <3>2
  <2>4. Lists!Position(list, c) = i + 1
    <3>1. DOMAIN list = 1 .. n
      BY <1>2
    <3> HIDE DEF n
    <3> QED BY <2>3, <3>1 DEF Lists!Position
  <2>5. e.code = Lists!CodeOf(list, c)
    BY <1>5, <1>6, <2>1, <2>2, <2>4 DEF Lists!CodeOf
  <2>6. moved = <<c>> \o (SubSeq(list, 1, i) \o SubSeq(list, i + 2, n))
    <3>1. (i + 1) - 1 = i /\ (i + 1) + 1 = i + 2
      BY <2>1
    <3> QED BY <1>2, <1>5, <1>6, <2>4, <3>1 DEF Lists!MoveToFront, Lists!RemoveAt
  <2> DEFINE front == SubSeq(list, 1, i)
             back == SubSeq(list, i + 2, n)
  <2>7. front \in Seq(Symbol) /\ Len(front) = i /\ \A j \in 1 .. i : front[j] = list[j]
    BY <1>1, <1>2, <2>1
  <2>8. back \in Seq(Symbol) /\ Len(back) = n - i - 1 /\ \A j \in 1 .. n - i - 1 : back[j] = list[j + i + 1]
    BY <1>1, <1>2, <2>1
  <2> HIDE DEF front, back
  <2>9. /\ moved \in Seq(Symbol) /\ Len(moved) = n
        /\ \A j \in 1 .. n : moved[j] = IF j = 1 THEN c ELSE IF j <= i + 1 THEN list[j - 1] ELSE list[j]
    <3>1. front \o back \in Seq(Symbol) /\ Len(front \o back) = n - 1
          /\ \A j \in 1 .. n - 1 : (front \o back)[j] = IF j <= i THEN list[j] ELSE list[j + 1]
      <4> HIDE DEF moved, n, e, next
      <4>1. front \o back \in Seq(Symbol) /\ Len(front \o back) = n - 1
        BY <1>1, <2>1, <2>7, <2>8
      <4>2. ASSUME NEW j \in 1 .. n - 1
            PROVE  (front \o back)[j] = IF j <= i THEN list[j] ELSE list[j + 1]
        <5>1. CASE j <= i
          BY <1>1, <2>1, <2>7, <2>8, <5>1
        <5>2. CASE ~ (j <= i)
          <6>1. j - i \in 1 .. n - i - 1 /\ (j - i) + i + 1 = j + 1
            BY <1>1, <2>1, <5>2
          <6>2. (front \o back)[j] = back[j - i]
            BY <1>1, <2>1, <2>7, <2>8, <5>2
          <6> QED BY <2>8, <5>2, <6>1, <6>2
        <5> QED BY <5>1, <5>2
      <4> QED BY <4>1, <4>2
    <3>2. moved = <<c>> \o (front \o back)
      BY <2>6 DEF front, back
    <3> HIDE DEF moved, n
    <3>3. moved \in Seq(Symbol) /\ Len(moved) = n
      BY <1>1, <2>1, <3>1, <3>2
    <3>4. moved[1] = c
      BY <3>1, <3>2
    <3>5. ASSUME NEW j \in 2 .. n PROVE moved[j] = (front \o back)[j - 1]
      BY <1>1, <2>1, <3>1, <3>2
    <3>6. ASSUME NEW j \in 1 .. n
          PROVE  moved[j] = IF j = 1 THEN c ELSE IF j <= i + 1 THEN list[j - 1] ELSE list[j]
      <4>1. CASE j = 1
        BY <3>4, <4>1
      <4>2. CASE j # 1
        <5>1. j \in 2 .. n /\ j - 1 \in 1 .. n - 1 /\ (j - 1) + 1 = j /\ (j - 1 <= i <=> j <= i + 1)
          BY <1>1, <2>1, <4>2
        <5> QED BY <3>1, <3>5, <4>2, <5>1
      <4> QED BY <4>1, <4>2
    <3> QED BY <3>3, <3>6
  <2> HIDE DEF moved
  <2>10. Lists!Truncate(moved) = moved
    BY <1>1, <2>9 DEF Lists!Truncate
  <2>11. next = moved
    <3>1. e.cell.symbols = n
      BY <1>1, <2>2 DEF shift, Cell
    <3>2. \A j \in Slot : e.cell.buffer[j] = IF j = 0 THEN cell.buffer[i]
                                            ELSE IF j <= i THEN cell.buffer[j - 1] ELSE cell.buffer[j]
      BY <1>1, <2>2 DEF shift, Cell
    <3> HIDE DEF next, e
    <3>3. ASSUME NEW j \in 1 .. n PROVE next[j] = moved[j]
      <4>1. j - 1 \in Slot /\ next[j] = e.cell.buffer[j - 1]
        BY <1>1, <1>4, <3>1 DEF Slot
      <4>2. CASE j = 1
        BY <2>1, <2>9, <3>2, <4>1, <4>2
      <4>3. CASE j # 1 /\ j <= i + 1
        <5>1. e.cell.buffer[j - 1] = cell.buffer[(j - 1) - 1]
          BY <1>1, <2>1, <3>2, <4>1, <4>3
        <5>2. list[j - 1] = cell.buffer[(j - 1) - 1]
          BY <1>1, <1>2, <2>1, <4>3
        <5> QED BY <2>9, <4>1, <4>3, <5>1, <5>2
      <4>4. CASE j # 1 /\ ~ (j <= i + 1)
        <5>1. e.cell.buffer[j - 1] = cell.buffer[j - 1]
          BY <1>1, <2>1, <3>2, <4>1, <4>4
        <5> QED BY <1>2, <2>9, <4>1, <4>4, <5>1
      <4> QED BY <4>2, <4>3, <4>4
    <3> QED BY <1>4, <2>9, <3>1, <3>3, SameSequence
  <2> QED BY <2>5, <2>10, <2>11 DEF moved, next, list
<1>7. CASE Holding(cell, c) = {}
  <2>1. e = [cell |-> append(cell, c), code |-> c + SIZE]
    BY <1>7 DEF buffer_encode
  <2>2. e.code = Lists!CodeOf(list, c)
    <3>1. c + SIZE = SIZE + c
      BY <1>1 DEF Symbol
    <3> QED BY <1>5, <1>7, <2>1, <3>1 DEF Lists!CodeOf
  <2>3. moved = <<c>> \o list
    BY <1>5, <1>7 DEF Lists!MoveToFront
  <2>4. moved \in Seq(Symbol) /\ Len(moved) = n + 1 /\ moved[1] = c
        /\ \A j \in 2 .. n + 1 : moved[j] = list[j - 1]
    <3> HIDE DEF moved, n
    <3> QED BY <1>1, <1>2, <2>3
  <2> HIDE DEF moved
  <2> DEFINE kept == IF n >= SIZE THEN n - 1 ELSE n
  <2>5. kept \in 0 .. n /\ kept + 1 \in 1 .. SIZE /\ kept + 1 \in 1 .. n + 1
        /\ kept + 1 = IF n + 1 > SIZE THEN SIZE ELSE n + 1
    BY <1>1
  <2> DEFINE added == append(cell, c)
  <2>0. e.cell = added
    BY <2>1
  <2>6. added.symbols = kept + 1
    BY <1>1 DEF append, Cell
  <2>7. \A j \in Slot : added.buffer[j] = IF j = 0 THEN c
                                         ELSE IF j <= kept THEN cell.buffer[j - 1] ELSE cell.buffer[j]
    BY <1>1 DEF append, Cell
  <2> HIDE DEF kept, e, next, added
  <2>8. Lists!Truncate(moved) = SubSeq(moved, 1, kept + 1)
    BY <2>4, <2>5 DEF Lists!Truncate
  <2> DEFINE cut == SubSeq(moved, 1, kept + 1)
  <2>9. cut \in Seq(Symbol) /\ Len(cut) = kept + 1 /\ \A j \in 1 .. kept + 1 : cut[j] = moved[j]
    BY <1>1, <2>4, <2>5
  <2>10. ASSUME NEW j \in 1 .. kept + 1 PROVE next[j] = moved[j]
    <3>1. j - 1 \in Slot /\ next[j] = added.buffer[j - 1]
      BY <1>1, <1>4, <2>0, <2>5, <2>6 DEF Slot
    <3>2. CASE j = 1
      BY <2>4, <2>7, <3>1, <3>2
    <3>3. CASE j # 1
      <4>1. j - 1 # 0 /\ j - 1 <= kept /\ j \in 2 .. n + 1 /\ j - 1 \in 1 .. n
        BY <1>1, <2>5, <3>3
      <4>2. next[j] = cell.buffer[(j - 1) - 1]
        BY <2>7, <3>1, <4>1
      <4> QED BY <1>2, <2>4, <4>1, <4>2
    <3> QED BY <3>2, <3>3
  <2>11. next = cut
    <3> HIDE DEF cut
    <3> QED BY <1>4, <2>0, <2>6, <2>9, <2>10, SameSequence
  <2> QED BY <2>2, <2>8, <2>11 DEF moved, next, list, e
<1> QED BY <1>6, <1>7 DEF list

\* Putting a cell back changes what is found for its key only, also if the table
\* doubles.
LEMMA StoreFinds ==
  ASSUME LoadNum <= LoadDen, NEW h, TableType(h), WithinLimits(h), Counted(h),
         UnderLoad(h.used_cells, h.size),
         NEW cell \in Cell, cell.key = Lookup(h).table[Lookup(h).index].key, NEW c \in Symbol,
         NEW key \in 0 .. UNVISITED - 1, NEW list, Finds(h.table, h.size, key, list)
  PROVE  LET g == Store(h, cell, c)
         IN  Finds(g.table, g.size, key, IF key = get_hash(h) THEN LiveSymbols(cell) ELSE list)
<1> DEFINE own == [cell EXCEPT !.key = get_hash(h)]
           b == Placed(h, own)
           p == Lookup(h).index
           g == Store(h, cell, c)
           next == IF is_visited(h.table[p]) THEN b ELSE double_table(b)
           found == IF key = get_hash(h) THEN LiveSymbols(cell) ELSE list
<1>1. own \in Cell /\ own.key = get_hash(h) /\ is_visited(own) /\ g = [next EXCEPT !.context = push(@, c)]
  BY StorePlaces
<1>2. LiveSymbols(own) = LiveSymbols(cell)
  <2>1. own.buffer = cell.buffer /\ own.symbols = cell.symbols
    BY DEF Cell
  <2> HIDE DEF own
  <2> QED BY <2>1 DEF LiveSymbols
<1> HIDE DEF own
<1>3. /\ TableType(b) /\ b.size = h.size
      /\ b.used_cells = IF is_visited(h.table[p]) THEN h.used_cells ELSE h.used_cells + 1
      /\ p \in 0 .. h.size - 1 /\ b.table[p] = own
      /\ \A q \in 0 .. h.size - 1 : q # p => b.table[q] = h.table[q]
  BY <1>1, PlacedIs
<1>4. FoundAt(h.table, h.size, own.key, p)
  BY <1>1, LookupStops
<1>5. h.size \in Nat \ {0} /\ h.used_cells \in Nat /\ own.key \in Nat /\ key # UNVISITED
  BY <1>1, BufferAssumption DEF TableType, TableOver, Cell
<1>6. TableType(double_table(b))
  BY <1>3, DoubleKeeps, CellsKept DEF TableType
<1> DEFINE dbl == double_table(b)
<1>7. ASSUME ~ is_visited(h.table[p]), dbl # b
      PROVE  /\ CellsOf(dbl.table, dbl.size) = CellsOf(b.table, b.size)
             /\ Chained(dbl.table, dbl.size)
  <2>1. OverLoad(h.used_cells + 1, h.size)
    <3> HIDE DEF b
    <3>1. OverLoad(b.used_cells, b.size)
      BY <1>7 DEF double_table
    <3> QED BY <1>3, <1>7, <3>1
  <2>2. ~ MeetsLoad(h.size)
    BY <1>5, <2>1, NoJump
  <2> QED BY <1>1, <1>7, <2>2, PlacedDoubles
<1> HIDE DEF b, p
<1>8. Finds(b.table, h.size, key, found)
  <2>1. found = IF key = own.key THEN LiveSymbols(own) ELSE list
    BY <1>1, <1>2
  <2> DEFINE n == h.size
             t == h.table
             u == b.table
  <2>2. /\ n \in Nat \ {0} /\ p \in 0 .. n - 1 /\ u[p] = own
        /\ \A q \in 0 .. n - 1 : q # p => u[q] = t[q]
    BY <1>3, <1>5
  <2>3. FoundAt(t, n, own.key, p) /\ Finds(t, n, key, list)
    BY <1>4
  <2> HIDE DEF found, n, t, u
  <2>4. Finds(u, n, key, found)
    BY <1>1, <1>5, <2>1, <2>2, <2>3, FindsPlaced
  <2> QED BY <2>4 DEF u, n
<1> HIDE DEF found, dbl
<1>9. Finds(dbl.table, dbl.size, key, found) \/ is_visited(h.table[p])
  <2>1. CASE dbl = b
    BY <1>3, <1>8, <2>1
  <2>2. CASE dbl # b
    <3>1. dbl.size \in Nat \ {0}
      BY <1>6 DEF dbl, TableType, TableOver
    <3> QED BY <1>3, <1>5, <1>7, <1>8, <2>2, <3>1, FindsSame
  <2> QED BY <2>1, <2>2
<1>10. TableType(next) /\ Finds(next.table, next.size, key, found)
  <2>1. CASE is_visited(h.table[p])
    BY <1>3, <1>8, <2>1
  <2>2. CASE ~ is_visited(h.table[p])
    BY <1>6, <1>9, <2>2 DEF dbl
  <2> QED BY <2>1, <2>2
<1> HIDE DEF next, g
<1>11. g.table = next.table /\ g.size = next.size
  BY <1>1, <1>10, ContextCounted
<1> QED BY <1>10, <1>11 DEF g, found

\* With room, between two symbols, a table is under its load.
LEMMA RoomUnderLoad ==
  ASSUME NEW h, TableType(h), WithinLimits(h), HasRoom(h)
  PROVE  UnderLoad(h.used_cells, h.size)
BY GrowingUnderLoad DEF HasRoom, Growing

\* Every key's list after a symbol: that of its context has the symbol in front,
\* the others are what they were.
LEMMA ListsAfter ==
  ASSUME LoadNum <= LoadDen,
         NEW h, Listed(h), WithinLimits(h), Counted(h), HasRoom(h), ~ Filling(h), NEW c \in Symbol,
         NEW g, g = mtf_encode(h, c).next, WithinLimits(g), HasRoom(g),
         NEW k \in 0 .. UNVISITED - 1
  PROVE  LET key == get_hash(h)
         IN  /\ mtf_encode(h, c).code = Lists!CodeOf(ListOf(h, key), c)
             /\ ListOf(g, k) = IF k = key
                               THEN Lists!Truncate(Lists!MoveToFront(ListOf(h, key), c))
                               ELSE ListOf(h, k)
<1> DEFINE key == get_hash(h)
           found == Lookup(h).table[Lookup(h).index]
           e == buffer_encode(found, c)
<1>1. TableType(h) /\ Listed(g) /\ TableType(g)
  BY ListedType, EncodeListed
<1>2. found \in Distinct /\ found \in Cell
  BY LookupKeeps, DistinctKept DEF Listed
<1>3. mtf_encode(h, c) = [next |-> Store(h, e.cell, c), code |-> e.code]
  BY DEF mtf_encode
<1>4. ListOf(h, key) = LiveSymbols(found)
  BY DEF ListOf, Lookup
<1>5. found.key = Lookup(h).table[Lookup(h).index].key
  OBVIOUS
<1> HIDE DEF found
<1>6. e.code = Lists!CodeOf(ListOf(h, key), c)
      /\ LiveSymbols(e.cell) = Lists!Truncate(Lists!MoveToFront(ListOf(h, key), c))
  BY <1>2, <1>4, EncodeMoves
<1>7. e.cell \in Cell /\ e.cell.key = Lookup(h).table[Lookup(h).index].key
  BY <1>2, <1>5, BufferEncodeType, KeyStays
<1>8. g = Store(h, e.cell, c) /\ mtf_encode(h, c).code = e.code
  BY <1>3
<1> HIDE DEF e, key
<1>9. UnderLoad(h.used_cells, h.size) /\ UnderLoad(g.used_cells, g.size)
  BY <1>1, RoomUnderLoad
<1>10. Counted(g)
  BY <1>1, <1>7, <1>8, StoreCounted
<1>11. Finds(h.table, h.size, k, ListOf(h, k))
  BY <1>9, ListIsFound
<1>12. Finds(g.table, g.size, k, IF k = key THEN LiveSymbols(e.cell) ELSE ListOf(h, k))
  BY <1>1, <1>7, <1>8, <1>9, <1>11, StoreFinds DEF key
<1>13. ListOf(g, k) = IF k = key THEN LiveSymbols(e.cell) ELSE ListOf(h, k)
  BY <1>1, <1>9, <1>10, <1>12, ListIsFound
<1> QED BY <1>6, <1>8, <1>13 DEF key

ListInv == CountInv /\ Listed(enc)

\* In a new table every list is empty.
LEMMA ListsInit ==
  ASSUME Init
  PROVE  ListInv /\ Lists!Init
<1>1. PICK s \in Seeds, memory \in Memories : enc = NewTable(memory[1], s)
  BY DEF Init
<1>2. Listed(enc)
  <2>1. memory[1] \in Nat
    BY CodecAssumption
  <2> QED BY <1>1, <2>1, NewTableListed
<1>3. /\ enc.seed = s /\ enc.context = [j \in 1 .. K |-> 0] /\ enc.kmer_chars = 0
      /\ enc.table = EmptyTable(INITIAL_SIZE) /\ enc.size = INITIAL_SIZE
  BY <1>1 DEF NewTable
<1>4. ASSUME NEW key \in 0 .. UNVISITED - 1 PROVE ListOf(enc, key) = <<>>
  <2> DEFINE n == INITIAL_SIZE
             t == EmptyTable(n)
             at == linear_probe(t, n, enc.used_cells, n, key)
  <2>1. n \in Nat \ {0} /\ key \in Nat /\ EmptyCell \in Cell
    BY TableAssumption, BufferAssumption, EmptyCellType
  <2>2. at.index \in 0 .. n - 1
    <3> HIDE DEF t, n
    <3> QED BY <2>1, ProbeInTable
  <2>3. t[at.index] = EmptyCell
    <3> HIDE DEF at
    <3> QED BY <2>2 DEF EmptyTable
  <2>4. \A i \in 0 .. n - 1 : t[i] = EmptyCell
    BY DEF EmptyTable
  <2>5. at.table[at.index].symbols = 0 /\ at.table[at.index] \in Cell
    <3>1. at.table \in [0 .. n - 1 -> Cell]
      <4>1. t \in [0 .. n - 1 -> Cell]
        BY <2>1 DEF EmptyTable
      <4> HIDE DEF t, n
      <4> QED BY <2>1, <4>1, ProbeKeeps, CellsKept
    <3>2. at.table = t \/ \E last : at.table = [t EXCEPT ![last].key = key]
      BY DEF linear_probe
    <3> HIDE DEF at, t
    <3>3. t[at.index].symbols = 0
      BY <2>3 DEF EmptyCell
    <3>4. ASSUME NEW last, at.table = [t EXCEPT ![last].key = key]
          PROVE  at.table[at.index].symbols = t[at.index].symbols
      <4>1. t \in [0 .. n - 1 -> Cell]
        BY <2>1 DEF t, EmptyTable
      <4> QED BY <2>2, <3>4, <4>1 DEF Cell
    <3> QED BY <2>2, <3>1, <3>2, <3>3, <3>4
  <2>6. ListOf(enc, key) = LiveSymbols(at.table[at.index])
    BY <1>3 DEF ListOf
  <2> HIDE DEF at
  <2> QED BY <2>5, <2>6, LiveSequence
<1>5. codes = <<>>
  BY DEF Init
<1>6. [key \in 0 .. UNVISITED - 1 |-> ListOf(enc, key)] = [key \in 0 .. UNVISITED - 1 |-> <<>>]
  BY <1>4
<1> QED BY <1>2, <1>3, <1>5, <1>6, CountInvInit DEF ListInv, Lists!Init

\* A step that finds room and leaves some is one of the ideal lists.
LEMMA ListsStep ==
  ASSUME HalfIsLight, LoadNum <= LoadDen, ListInv, [Next]_vars
  PROVE  ListInv' /\ [HasRoom(enc) /\ HasRoom(enc)' => Lists!Next]_ideal
<1>1. CountInv'
  BY CountInvStep DEF ListInv
<1>2. TableType(enc) /\ Listed(enc) /\ WithinLimits(enc) /\ Counted(enc) /\ WithinLimits(enc')
  BY <1>1 DEF ListInv, CountInv, TypeInv, TypeOK, LoadBounded
<1>3. ASSUME NEW c \in Symbol, Encode(c)
      PROVE  Listed(enc') /\ (HasRoom(enc) /\ HasRoom(enc') => Lists!Next)
  <2> DEFINE out == mtf_encode(enc, c)
             key == get_hash(enc)
             Key == 0 .. UNVISITED - 1
  <2>1. enc' = out.next /\ codes' = Append(codes, out.code)
    BY <1>3 DEF Encode
  <2>2. Listed(enc')
    BY <1>2, <2>1, EncodeListed
  <2>3. /\ enc'.seed = enc.seed
        /\ enc'.context = [j \in 1 .. K |-> IF j = K THEN c ELSE enc.context[j + 1]]
        /\ enc'.kmer_chars = IF enc.kmer_chars < K THEN enc.kmer_chars + 1 ELSE enc.kmer_chars
    BY <1>2, <2>1, EncodeFills DEF push
  <2>4. ASSUME Filling(enc) PROVE Lists!Prime(c)
    <3>1. out = [next |-> Fill(enc, c), code |-> c + SIZE]
      BY <2>4 DEF mtf_encode
    <3>2. enc' = Fill(enc, c) /\ codes' = Append(codes, SIZE + c)
      <4>1. c + SIZE = SIZE + c
        BY BufferAssumption DEF Symbol
      <4> QED BY <2>1, <3>1, <4>1
    <3>3. enc'.table = enc.table /\ enc'.size = enc.size /\ enc'.used_cells = enc.used_cells
      BY <1>2, <3>2 DEF Fill, TableType, TableOver
    <3>4. \A k \in Key : ListOf(enc', k) = ListOf(enc, k)
      BY <3>3 DEF ListOf
    <3>5. [k \in Key |-> ListOf(enc', k)] = [k \in Key |-> ListOf(enc, k)]
      BY <3>4
    <3> QED BY <2>3, <2>4, <3>2, <3>5 DEF Lists!Prime, Lists!Push, Filling
  <2>5. ASSUME HasRoom(enc), HasRoom(enc'), ~ Filling(enc) PROVE Lists!Emit(c)
    <3> DEFINE lists == [k \in Key |-> ListOf(enc, k)]
               after == [k \in Key |-> ListOf(enc', k)]
    <3>1. key \in Key /\ enc.kmer_chars = K /\ enc.kmer_chars \in Nat /\ K \in Nat
      <4>1. enc.kmer_chars \in 0 .. K /\ K \in Nat
        BY <1>2, TableAssumption DEF TableType, TableOver
      <4>2. enc.kmer_chars = K /\ enc.kmer_chars \in Nat
        BY <2>5, <4>1 DEF Filling
      <4>3. key \in Key
        BY <1>2, HashType DEF TableType
      <4> QED BY <4>1, <4>2, <4>3
    <3>2. key = [s \in Seeds |-> [ctx \in Context |-> RawHash[s][ctx] % UNVISITED]][enc.seed][enc.context]
      BY <1>2 DEF get_hash, TableType, TableOver
    <3> HIDE DEF key
    <3>3. out.code = Lists!CodeOf(lists[key], c)
      BY <1>2, <2>1, <2>5, <3>1, ListsAfter DEF key
    <3>4. ASSUME NEW k \in Key
          PROVE  after[k] = IF k = key THEN Lists!Truncate(Lists!MoveToFront(lists[key], c)) ELSE lists[k]
      BY <1>2, <2>1, <2>5, <3>1, ListsAfter DEF key
    <3>5. after = [lists EXCEPT ![key] = Lists!Truncate(Lists!MoveToFront(lists[key], c))]
      <4> HIDE DEF Key
      <4> QED BY <3>4
    <3>6. enc'.kmer_chars = enc.kmer_chars
      BY <2>3, <3>1
    <3> HIDE DEF out
    <3> QED BY <2>1, <2>3, <3>1, <3>2, <3>3, <3>5, <3>6 DEF Lists!Emit, Lists!Push
  <2> QED BY <2>2, <2>4, <2>5 DEF Lists!Next
<1>4. ASSUME enc' = enc, codes' = codes
      PROVE  Listed(enc') /\ ideal' = ideal
  <2>1. ideal' = <<enc'.seed, enc'.context, enc'.kmer_chars,
                   [key \in 0 .. UNVISITED - 1 |-> ListOf(enc', key)], codes'>>
    BY DEF ideal
  <2> QED BY <1>2, <1>4, <2>1 DEF ideal
<1>5. Decode \/ UNCHANGED vars => enc' = enc /\ codes' = codes
  BY DEF Decode, vars
<1>6. Listed(enc') /\ [HasRoom(enc) /\ HasRoom(enc)' => Lists!Next]_ideal
  BY <1>3, <1>4, <1>5 DEF Next
<1> QED BY <1>1, <1>6 DEF ListInv

\* While the table is under its load or may still double, it implements one list
\* for every context hash, except at exactly the load: probing, placing and
\* rehashing lose no list, give none to another context, mix none and find none
\* twice, for every alphabet, list length, hash function, size and load up to 1,
\* also before and after a time at exactly the load.
THEOREM IdealListsCorrect ==
  ASSUME HalfIsLight, LoadNum <= LoadDen
  PROVE  Spec => IdealLists
<1>1. Init => ListInv /\ Lists!Init
  BY ListsInit
<1>2. ListInv /\ [Next]_vars => ListInv' /\ [HasRoom(enc) /\ HasRoom(enc)' => Lists!Next]_ideal
  BY ListsStep
<1> QED BY <1>1, <1>2, PTL DEF Spec, IdealLists

-------------------------------------------------------------------------------
(* The classic transform. *)

\* A list of the transform: every symbol once.
Arranged(l) ==
  /\ l \in [1 .. NumSymbols -> Symbol]
  /\ \A c \in Symbol : \E i \in 1 .. NumSymbols : l[i] = c
  /\ \A i, j \in 1 .. NumSymbols : l[i] = l[j] => i = j

Arrangements == {l \in [1 .. NumSymbols -> Symbol] : Arranged(l)}

LEMMA IdentityArranged == Arranged(Classic!Identity)
<1>1. NumSymbols \in Nat \ {0}
  BY BufferAssumption
<1>2. ASSUME NEW c \in Symbol PROVE c + 1 \in 1 .. NumSymbols /\ (c + 1) - 1 = c
  BY <1>1 DEF Symbol
<1>3. Classic!Identity \in [1 .. NumSymbols -> Symbol]
  BY <1>1 DEF Classic!Identity, Symbol
<1>4. ASSUME NEW c \in Symbol PROVE Classic!Identity[c + 1] = c
  BY <1>2 DEF Classic!Identity
<1> QED BY <1>2, <1>3, <1>4 DEF Arranged, Classic!Identity

\* Every symbol is found.
LEMMA PlaceFound ==
  ASSUME NEW l, Arranged(l), NEW c \in Symbol
  PROVE  /\ Classic!Place(l, c) \in 0 .. NumSymbols - 1
         /\ Classic!Place(l, c) + 1 \in 1 .. NumSymbols
         /\ l[Classic!Place(l, c) + 1] = c
<1>1. NumSymbols \in Nat \ {0}
  BY BufferAssumption
<1>2. DOMAIN l = 1 .. NumSymbols
  BY DEF Arranged
<1>3. PICK i \in DOMAIN l : l[i] = c
  BY <1>2 DEF Arranged
<1> DEFINE at == CHOOSE j \in DOMAIN l : l[j] = c
<1>4. at \in DOMAIN l /\ l[at] = c
  BY <1>3
<1>5. Classic!Place(l, c) = at - 1
  BY DEF Classic!Place
<1> HIDE DEF at
<1>6. (at - 1) + 1 = at /\ at - 1 \in 0 .. NumSymbols - 1
  BY <1>1, <1>2, <1>4
<1> QED BY <1>2, <1>4, <1>5, <1>6

\* The list behind a move, by where its symbols come from.
LEMMA MovedFront ==
  ASSUME NEW l, Arranged(l), NEW p \in 0 .. NumSymbols - 1
  PROVE  /\ Arranged(Classic!ToFront(l, p))
         /\ Classic!ToFront(l, p)[1] = l[p + 1]
         /\ \A j \in 2 .. NumSymbols :
              Classic!ToFront(l, p)[j] = IF j <= p + 1 THEN l[j - 1] ELSE l[j]
<1> DEFINE m == Classic!ToFront(l, p)
           from(j) == IF j = 1 THEN p + 1 ELSE IF j <= p + 1 THEN j - 1 ELSE j
           to(i) == IF i = p + 1 THEN 1 ELSE IF i <= p THEN i + 1 ELSE i
<1>1. NumSymbols \in Nat \ {0} /\ l \in [1 .. NumSymbols -> Symbol] /\ DOMAIN l = 1 .. NumSymbols
  BY BufferAssumption DEF Arranged
<1>2. m = [j \in 1 .. NumSymbols |-> IF j = 1 THEN l[p + 1] ELSE IF j <= p + 1 THEN l[j - 1] ELSE l[j]]
  BY <1>1 DEF Classic!ToFront
<1>3. \A j \in 1 .. NumSymbols : from(j) \in 1 .. NumSymbols /\ to(from(j)) = j
  BY <1>1
<1>4. \A i \in 1 .. NumSymbols : to(i) \in 1 .. NumSymbols /\ from(to(i)) = i
  BY <1>1
<1>5. \A j \in 1 .. NumSymbols : m[j] = l[from(j)]
  BY <1>2
<1>6. m \in [1 .. NumSymbols -> Symbol]
  <2>1. \A j \in 1 .. NumSymbols : l[from(j)] \in Symbol
    <3> HIDE DEF from
    <3> QED BY <1>1, <1>3
  <2>2. m = [j \in 1 .. NumSymbols |-> m[j]]
    BY <1>2
  <2> HIDE DEF m, from
  <2> QED BY <2>1, <2>2, <1>5
<1>7. ASSUME NEW c \in Symbol PROVE \E j \in 1 .. NumSymbols : m[j] = c
  <2>1. PICK i \in 1 .. NumSymbols : l[i] = c
    BY DEF Arranged
  <2> HIDE DEF m, from, to
  <2> QED BY <2>1, <1>4, <1>5
<1>8. ASSUME NEW i \in 1 .. NumSymbols, NEW j \in 1 .. NumSymbols, m[i] = m[j] PROVE i = j
  <2>1. \A x, y \in 1 .. NumSymbols : l[x] = l[y] => x = y
    BY DEF Arranged
  <2> HIDE DEF m, from, to
  <2>2. from(i) = from(j)
    BY <2>1, <1>3, <1>5, <1>8
  <2> QED BY <2>2, <1>3
<1>9. Arranged(m)
  <2> HIDE DEF m
  <2> QED BY <1>6, <1>7, <1>8 DEF Arranged
<1>10. m[1] = l[p + 1] /\ \A j \in 2 .. NumSymbols : m[j] = IF j <= p + 1 THEN l[j - 1] ELSE l[j]
  BY <1>1, <1>2
<1> QED BY <1>9, <1>10

\* The lists of the transform of a file, one before each byte and one behind all.
Recency(bytes, l) ==
  /\ l[0] = Classic!Identity
  /\ \A n \in 0 .. Len(bytes) : Arranged(l[n])
  /\ \A n \in 1 .. Len(bytes) :
       l[n] = Classic!ToFront(l[n - 1], Classic!Place(l[n - 1], bytes[n]))

LEMMA RecencyExists ==
  ASSUME NEW bytes \in Seq(Symbol)
  PROVE  \E l \in [0 .. Len(bytes) -> Arrangements] : Recency(bytes, l)
<1> DEFINE N == Len(bytes)
           G == [n \in Nat |-> [l \in Arrangements |->
                  IF n \in 1 .. N THEN Classic!ToFront(l, Classic!Place(l, bytes[n])) ELSE l]]
<1>1. N \in Nat /\ \A n \in 1 .. N : bytes[n] \in Symbol
  OBVIOUS
<1>2. \A l : l \in Arrangements <=> Arranged(l)
  BY DEF Arrangements, Arranged
<1>3. ASSUME NEW l \in Arrangements, NEW n \in 1 .. N
      PROVE  Classic!ToFront(l, Classic!Place(l, bytes[n])) \in Arrangements
  BY <1>1, <1>2, PlaceFound, MovedFront
<1>4. G \in [Nat -> [Arrangements -> Arrangements]]
  BY <1>3
<1>5. Classic!Identity \in Arrangements
  BY <1>2, IdentityArranged
<1>6. RecursiveOn(Arrangements, Classic!Identity, G, N)
  <2> HIDE DEF G, N
  <2> QED BY <1>1, <1>4, <1>5, IntervalRecursion
<1>7. PICK l \in [0 .. N -> Arrangements] :
        l[0] = Classic!Identity /\ \A n \in 1 .. N : l[n] = G[n][l[n - 1]]
  <2> HIDE DEF G
  <2> QED BY <1>6 DEF RecursiveOn
<1>8. \A n \in 0 .. N : Arranged(l[n])
  BY <1>2
<1>9. ASSUME NEW n \in 1 .. N PROVE l[n] = Classic!ToFront(l[n - 1], Classic!Place(l[n - 1], bytes[n]))
  <2>1. n \in Nat /\ n - 1 \in 0 .. N /\ l[n - 1] \in Arrangements
    OBVIOUS
  <2> QED BY <1>7, <2>1
<1>10. Recency(bytes, l)
  BY <1>7, <1>8, <1>9 DEF Recency
<1> QED BY <1>10

\* A sequence with an element behind it, as a function.
LEMMA Appended ==
  ASSUME NEW S, NEW s \in Seq(S), NEW e \in S
  PROVE  Append(s, e) = [i \in 1 .. Len(s) + 1 |-> IF i = Len(s) + 1 THEN e ELSE s[i]]
<1>1. Append(s, e) \in Seq(S) /\ Len(Append(s, e)) = Len(s) + 1 /\ Len(s) \in Nat
  OBVIOUS
<1>2. \A i \in 1 .. Len(s) + 1 : Append(s, e)[i] = IF i = Len(s) + 1 THEN e ELSE s[i]
  OBVIOUS
<1>3. Append(s, e) = [i \in 1 .. Len(s) + 1 |-> Append(s, e)[i]]
  BY <1>1, LenProperties
<1> QED BY <1>2, <1>3

\* Everything about a byte in a list of the trail.
LEMMA RecencyAt ==
  ASSUME NEW bytes \in Seq(Symbol), NEW l, Recency(bytes, l), NEW n \in 1 .. Len(bytes)
  PROVE  /\ n - 1 \in 0 .. Len(bytes) /\ Arranged(l[n - 1]) /\ Arranged(l[n])
         /\ bytes[n] \in Symbol
         /\ Classic!Place(l[n - 1], bytes[n]) \in 0 .. NumSymbols - 1
         /\ l[n - 1][Classic!Place(l[n - 1], bytes[n]) + 1] = bytes[n]
         /\ l[n] = Classic!ToFront(l[n - 1], Classic!Place(l[n - 1], bytes[n]))
<1>1. n - 1 \in 0 .. Len(bytes) /\ n \in 0 .. Len(bytes) /\ bytes[n] \in Symbol
  OBVIOUS
<1>2. Arranged(l[n - 1]) /\ Arranged(l[n])
  BY <1>1 DEF Recency
<1>3. l[n] = Classic!ToFront(l[n - 1], Classic!Place(l[n - 1], bytes[n]))
  BY DEF Recency
<1> QED BY <1>1, <1>2, <1>3, PlaceFound

\* The codes of a file.
CodesOf(bytes, l, m) == [n \in 1 .. m |-> Classic!Place(l[n - 1], bytes[n])]

LEMMA EncodeIs ==
  ASSUME NEW bytes \in Seq(Symbol), NEW l, Recency(bytes, l)
  PROVE  Classic!encode(bytes) = CodesOf(bytes, l, Len(bytes))
<1> DEFINE N == Len(bytes)
           E(f) == [n \in 0 .. N |-> IF n = 0 THEN Classic!Start
                                     ELSE Classic!move_to_front(f[n - 1], bytes[n])]
           w == [n \in 0 .. N |-> [list |-> l[n], out |-> CodesOf(bytes, l, n)]]
           c == CHOOSE f : f = E(f)
<1>1. N \in Nat
  OBVIOUS
<1>2. [list |-> l[0], out |-> CodesOf(bytes, l, 0)] = Classic!Start
  <2>1. CodesOf(bytes, l, 0) = <<>>
    BY DEF CodesOf
  <2>2. l[0] = Classic!Identity
    BY DEF Recency
  <2> QED BY <2>1, <2>2 DEF Classic!Start
<1>3. ASSUME NEW n \in 1 .. N
      PROVE  Classic!move_to_front([list |-> l[n - 1], out |-> CodesOf(bytes, l, n - 1)], bytes[n])
               = [list |-> l[n], out |-> CodesOf(bytes, l, n)]
  <2> DEFINE p == Classic!Place(l[n - 1], bytes[n])
             s == CodesOf(bytes, l, n - 1)
  <2>1. l[n] = Classic!ToFront(l[n - 1], p)
    BY DEF Recency
  <2>2. Append(s, p) = CodesOf(bytes, l, n)
    <3>1. n - 1 \in Nat /\ (n - 1) + 1 = n /\ n \in Nat
      OBVIOUS
    <3>2. s \in Seq(Symbol) /\ Len(s) = n - 1
      <4>1. \A i \in 1 .. n - 1 : Classic!Place(l[i - 1], bytes[i]) \in Symbol
        <5>1. \A i \in 1 .. n - 1 : i \in 1 .. Len(bytes)
          OBVIOUS
        <5> QED BY <5>1, RecencyAt DEF Symbol
      <4> QED BY <3>1, <4>1 DEF CodesOf
    <3>3. p \in Symbol
      BY RecencyAt DEF Symbol
    <3>4. s = [i \in 1 .. n - 1 |-> Classic!Place(l[i - 1], bytes[i])]
      BY DEF CodesOf
    <3>5. CodesOf(bytes, l, n) = [i \in 1 .. n |-> Classic!Place(l[i - 1], bytes[i])]
      BY DEF CodesOf
    <3>6. Append(s, p) = [i \in 1 .. n |-> IF i = n THEN p ELSE s[i]]
      <4> HIDE DEF s, p
      <4>1. n = Len(s) + 1
        BY <3>1, <3>2
      <4>2. Append(s, p) = [i \in 1 .. Len(s) + 1 |-> IF i = Len(s) + 1 THEN p ELSE s[i]]
        BY <3>2, <3>3, Appended
      <4> QED BY <4>1, <4>2
    <3>7. \A i \in 1 .. n : (IF i = n THEN p ELSE s[i]) = Classic!Place(l[i - 1], bytes[i])
      <4>1. \A i \in 1 .. n - 1 : s[i] = Classic!Place(l[i - 1], bytes[i])
        BY <3>4
      <4> QED BY <4>1, <3>1
    <3> HIDE DEF s, p
    <3> QED BY <3>5, <3>6, <3>7
  <2> HIDE DEF p, s
  <2>3. Classic!move_to_front([list |-> l[n - 1], out |-> s], bytes[n])
          = [list |-> Classic!ToFront(l[n - 1], p), out |-> Append(s, p)]
    BY DEF Classic!move_to_front, p
  <2> QED BY <2>1, <2>2, <2>3 DEF s
<1>4. w = E(w)
  <2>1. \A n \in 0 .. N : w[n] = E(w)[n]
    <3>1. ASSUME NEW n \in 1 .. N PROVE w[n] = E(w)[n]
      <4>1. n - 1 \in 0 .. N /\ n \in 0 .. N /\ n # 0
        BY <1>1
      <4>2. w[n - 1] = [list |-> l[n - 1], out |-> CodesOf(bytes, l, n - 1)]
        BY <4>1
      <4>3. w[n] = [list |-> l[n], out |-> CodesOf(bytes, l, n)]
        BY <4>1
      <4>4. E(w)[n] = Classic!move_to_front(w[n - 1], bytes[n])
        <5> HIDE DEF w
        <5> QED BY <4>1
      <4> HIDE DEF w, E
      <4> QED BY <4>2, <4>3, <4>4, <1>3
    <3>2. w[0] = E(w)[0]
      BY <1>1, <1>2
    <3> HIDE DEF w, E
    <3> QED BY <1>1, <3>1, <3>2
  <2>2. w = [n \in 0 .. N |-> w[n]] /\ E(w) = [n \in 0 .. N |-> E(w)[n]]
    OBVIOUS
  <2> HIDE DEF w, E
  <2> QED BY <2>1, <2>2
<1>5. c = E(c)
  <2> HIDE DEF E
  <2> QED BY <1>4
<1>6. Classic!encode(bytes) = c[N].out
  BY DEF Classic!encode
<1>7. \A n \in 0 .. N : c[n] = w[n]
  <2> DEFINE T == {n \in Nat : n <= N => c[n] = w[n]}
  <2> HIDE DEF c, w
  <2>1. 0 \in T
    <3>1. c[0] = E(c)[0] /\ w[0] = E(w)[0]
      <4> HIDE DEF E
      <4> QED BY <1>4, <1>5
    <3> QED BY <1>1, <3>1
  <2>2. ASSUME NEW n \in T PROVE n + 1 \in T
    <3>1. CASE n + 1 <= N
      <4>1. n + 1 \in 0 .. N /\ n + 1 # 0 /\ (n + 1) - 1 = n /\ c[n] = w[n]
        BY <1>1, <3>1
      <4>2. c[n + 1] = E(c)[n + 1] /\ w[n + 1] = E(w)[n + 1]
        <5> HIDE DEF E
        <5> QED BY <1>4, <1>5
      <4>3. E(c)[n + 1] = Classic!move_to_front(c[n], bytes[n + 1])
            /\ E(w)[n + 1] = Classic!move_to_front(w[n], bytes[n + 1])
        BY <4>1
      <4> HIDE DEF E
      <4> QED BY <4>1, <4>2, <4>3
    <3> HIDE DEF E
    <3> QED BY <3>1, <1>1
  <2>3. T = Nat
    <3>1. T \in SUBSET Nat
      OBVIOUS
    <3> HIDE DEF T
    <3> QED BY <2>1, <2>2, <3>1, NatSetInduction
  <2> HIDE DEF E
  <2> QED BY <2>3, <1>1
<1>8. w[N].out = CodesOf(bytes, l, N)
  BY <1>1
<1> HIDE DEF c, w, E
<1> QED BY <1>1, <1>6, <1>7, <1>8

\* Any number of them are decoded, by the same lists.
LEMMA DecodeIs ==
  ASSUME NEW bytes \in Seq(Symbol), NEW l, Recency(bytes, l), NEW N \in 0 .. Len(bytes)
  PROVE  Classic!decode(CodesOf(bytes, l, N)) = [n \in 1 .. N |-> bytes[n]]
<1> DEFINE word == CodesOf(bytes, l, N)
           B(n) == [i \in 1 .. n |-> bytes[i]]
           E(f) == [n \in 0 .. Len(word) |-> IF n = 0 THEN Classic!Start
                                     ELSE Classic!move_to_front_decode(f[n - 1], word[n])]
           w == [n \in 0 .. N |-> [list |-> l[n], out |-> B(n)]]
           c == CHOOSE f : f = E(f)
<1>1. N \in Nat /\ N <= Len(bytes) /\ Len(bytes) \in Nat
  OBVIOUS
<1>2. Len(word) = N /\ \A n \in 1 .. N : word[n] = Classic!Place(l[n - 1], bytes[n])
  BY <1>1 DEF CodesOf
<1>3. [list |-> l[0], out |-> B(0)] = Classic!Start
  <2>1. B(0) = <<>>
    OBVIOUS
  <2>2. l[0] = Classic!Identity
    BY DEF Recency
  <2> QED BY <2>1, <2>2 DEF Classic!Start
<1>4. ASSUME NEW n \in 1 .. N
      PROVE  Classic!move_to_front_decode([list |-> l[n - 1], out |-> B(n - 1)], word[n])
               = [list |-> l[n], out |-> B(n)]
  <2> DEFINE p == Classic!Place(l[n - 1], bytes[n])
             s == B(n - 1)
  <2>1. n \in 1 .. Len(bytes)
    BY <1>1
  <2>2. l[n] = Classic!ToFront(l[n - 1], p) /\ l[n - 1][p + 1] = bytes[n] /\ bytes[n] \in Symbol
    BY <2>1, RecencyAt
  <2>3. Append(s, bytes[n]) = B(n)
    <3>1. n - 1 \in Nat /\ (n - 1) + 1 = n /\ n \in Nat
      OBVIOUS
    <3>2. s \in Seq(Symbol) /\ Len(s) = n - 1
      <4>1. \A i \in 1 .. n - 1 : bytes[i] \in Symbol
        BY <2>1
      <4> QED BY <3>1, <4>1
    <3>3. n = Len(s) + 1
      BY <3>1, <3>2
    <3>4. \A i \in 1 .. n - 1 : s[i] = bytes[i]
      OBVIOUS
    <3> HIDE DEF s
    <3>5. Append(s, bytes[n]) = [i \in 1 .. Len(s) + 1 |-> IF i = Len(s) + 1 THEN bytes[n] ELSE s[i]]
      BY <2>2, <3>2, Appended
    <3>6. \A i \in 1 .. n : (IF i = n THEN bytes[n] ELSE s[i]) = bytes[i]
      BY <3>1, <3>4
    <3> QED BY <3>3, <3>5, <3>6
  <2>4. word[n] = p
    BY <1>2
  <2> HIDE DEF p, s, word, B
  <2>5. Classic!move_to_front_decode([list |-> l[n - 1], out |-> s], p)
          = [list |-> Classic!ToFront(l[n - 1], p), out |-> Append(s, l[n - 1][p + 1])]
    BY DEF Classic!move_to_front_decode
  <2> QED BY <2>2, <2>3, <2>4, <2>5 DEF s
<1> HIDE DEF word, B
<1>5. w = E(w)
  <2>1. \A n \in 0 .. N : w[n] = E(w)[n]
    <3>1. ASSUME NEW n \in 1 .. N PROVE w[n] = E(w)[n]
      <4>1. n - 1 \in 0 .. N /\ n \in 0 .. N /\ n # 0
        BY <1>1
      <4>2. w[n - 1] = [list |-> l[n - 1], out |-> B(n - 1)]
        BY <4>1
      <4>3. w[n] = [list |-> l[n], out |-> B(n)]
        BY <4>1
      <4>4. E(w)[n] = Classic!move_to_front_decode(w[n - 1], word[n])
        <5> HIDE DEF w
        <5> QED BY <1>2, <4>1
      <4> HIDE DEF w, E
      <4> QED BY <4>2, <4>3, <4>4, <1>4
    <3>2. w[0] = E(w)[0]
      BY <1>1, <1>2, <1>3
    <3> HIDE DEF w, E
    <3> QED BY <1>1, <3>1, <3>2
  <2>2. w = [n \in 0 .. N |-> w[n]] /\ E(w) = [n \in 0 .. N |-> E(w)[n]]
    BY <1>2
  <2> HIDE DEF w, E
  <2> QED BY <2>1, <2>2
<1>6. c = E(c)
  <2> HIDE DEF E
  <2> QED BY <1>5
<1>7. Classic!decode(word) = c[N].out
  BY <1>2 DEF Classic!decode
<1>8. \A n \in 0 .. N : c[n] = w[n]
  <2> DEFINE T == {n \in Nat : n <= N => c[n] = w[n]}
  <2> HIDE DEF c, w
  <2>1. 0 \in T
    <3>1. c[0] = E(c)[0] /\ w[0] = E(w)[0]
      <4> HIDE DEF E
      <4> QED BY <1>5, <1>6
    <3> QED BY <1>1, <1>2, <3>1
  <2>2. ASSUME NEW n \in T PROVE n + 1 \in T
    <3>1. CASE n + 1 <= N
      <4>1. n + 1 \in 0 .. N /\ n + 1 # 0 /\ (n + 1) - 1 = n /\ c[n] = w[n]
        BY <1>1, <3>1
      <4>2. c[n + 1] = E(c)[n + 1] /\ w[n + 1] = E(w)[n + 1]
        <5> HIDE DEF E
        <5> QED BY <1>5, <1>6
      <4>3. E(c)[n + 1] = Classic!move_to_front_decode(c[n], word[n + 1])
            /\ E(w)[n + 1] = Classic!move_to_front_decode(w[n], word[n + 1])
        BY <1>2, <4>1
      <4> HIDE DEF E
      <4> QED BY <4>1, <4>2, <4>3
    <3> HIDE DEF E
    <3> QED BY <3>1, <1>1
  <2>3. T = Nat
    <3>1. T \in SUBSET Nat
      OBVIOUS
    <3> HIDE DEF T
    <3> QED BY <2>1, <2>2, <3>1, NatSetInduction
  <2> HIDE DEF E
  <2> QED BY <2>3, <1>1
<1>9. w[N].out = B(N)
  BY <1>1
<1> HIDE DEF c, w, E
<1> QED BY <1>1, <1>7, <1>8, <1>9 DEF word, B

\* The last time is the greatest of all, and changes for the byte that comes.
LEMMA LastCameIs ==
  ASSUME NEW bytes \in Seq(Symbol), NEW c, NEW n \in 0 .. Len(bytes)
  PROVE  /\ Classic!LastCame(bytes, n, c) \in 0 .. n
         /\ n < Len(bytes) =>
              Classic!LastCame(bytes, n + 1, c) =
                IF bytes[n + 1] = c THEN n + 1 ELSE Classic!LastCame(bytes, n, c)
<1> DEFINE S(m) == {0} \cup {i \in 1 .. m : bytes[i] = c}
           Greatest(m, x) == x \in S(m) /\ \A y \in S(m) : x >= y
<1>1. ASSUME NEW m \in Nat PROVE S(m) \subseteq 0 .. m
  OBVIOUS
<1>2. ASSUME NEW m \in Nat, NEW x, Greatest(m, x) PROVE Classic!LastCame(bytes, m, c) = x
  <2>1. \A y \in S(m) : y \in Nat
    BY <1>1
  <2>2. Classic!LastCame(bytes, m, c) = Max(S(m))
    BY DEF Classic!LastCame, Classic!Max, Max
  <2> DEFINE z == CHOOSE z \in S(m) : \A y \in S(m) : z >= y
  <2>3. Max(S(m)) = z
    BY DEF Max
  <2>4. z \in S(m) /\ \A y \in S(m) : z >= y
    <3> HIDE DEF S
    <3> QED BY <1>2
  <2>5. z >= x /\ x >= z /\ x \in Nat /\ z \in Nat
    <3> HIDE DEF S, z
    <3> QED BY <1>2, <2>1, <2>4
  <2> HIDE DEF z, S
  <2> QED BY <2>2, <2>3, <2>5
<1>3. ASSUME NEW m \in Nat, bytes[m + 1] = c PROVE Greatest(m + 1, m + 1)
  BY <1>1, <1>3
<1>4. ASSUME NEW m \in Nat, bytes[m + 1] # c PROVE S(m + 1) = S(m)
  BY <1>4
<1>5. \A m \in Nat : \E x : Greatest(m, x)
  <2> DEFINE T == {m \in Nat : \E x : Greatest(m, x)}
  <2>1. 0 \in T
    <3>1. S(0) = {0}
      OBVIOUS
    <3> HIDE DEF S
    <3>2. Greatest(0, 0)
      BY <3>1
    <3> QED BY <3>2
  <2>2. ASSUME NEW m \in T PROVE m + 1 \in T
    <3>1. CASE bytes[m + 1] = c
      BY <1>3, <3>1
    <3>2. CASE bytes[m + 1] # c
      <4>1. S(m + 1) = S(m)
        BY <1>4, <3>2
      <4> HIDE DEF S
      <4> QED BY <4>1
    <3> QED BY <3>1, <3>2
  <2>3. T \in SUBSET Nat
    OBVIOUS
  <2> HIDE DEF T
  <2>4. T = Nat
    BY <2>1, <2>2, <2>3, NatSetInduction
  <2> QED BY <2>4 DEF T
<1>6. n \in Nat /\ Len(bytes) \in Nat
  OBVIOUS
<1>7. PICK x : Greatest(n, x)
  BY <1>5, <1>6
<1>8. Classic!LastCame(bytes, n, c) = x /\ x \in 0 .. n
  <2>1. x \in 0 .. n
    <3>1. S(n) \subseteq 0 .. n
      BY <1>1, <1>6
    <3> HIDE DEF S
    <3> QED BY <3>1, <1>7
  <2> HIDE DEF Greatest
  <2> QED BY <2>1, <1>2, <1>6, <1>7
<1>9. CASE bytes[n + 1] = c
  <2>1. Greatest(n + 1, n + 1)
    BY <1>3, <1>6, <1>9
  <2>2. n + 1 \in Nat
    BY <1>6
  <2> HIDE DEF Greatest
  <2> QED BY <2>1, <2>2, <1>2, <1>8, <1>9
<1>10. CASE bytes[n + 1] # c
  <2>1. S(n + 1) = S(n) /\ n + 1 \in Nat
    BY <1>4, <1>6, <1>10
  <2>2. Greatest(n + 1, x)
    <3> HIDE DEF S
    <3> QED BY <2>1, <1>7
  <2> HIDE DEF Greatest, S
  <2> QED BY <2>1, <2>2, <1>2, <1>8, <1>10
<1> QED BY <1>9, <1>10

\* d stands before c behind n bytes.
Before(bytes, n, d, c) ==
  \/ Classic!LastCame(bytes, n, d) > Classic!LastCame(bytes, n, c)
  \/ Classic!LastCame(bytes, n, d) = Classic!LastCame(bytes, n, c) /\ d < c

Ranked(bytes, n, list) ==
  \A i, j \in 1 .. NumSymbols : i < j => Before(bytes, n, list[i], list[j])

\* The lists are in the order of recency.
LEMMA RecencyRanked ==
  ASSUME NEW bytes \in Seq(Symbol), NEW l, Recency(bytes, l)
  PROVE  \A n \in 0 .. Len(bytes) : Ranked(bytes, n, l[n])
<1> DEFINE N == Len(bytes)
           T == {n \in Nat : n <= N => Ranked(bytes, n, l[n])}
<1>1. N \in Nat /\ NumSymbols \in Nat \ {0}
  BY BufferAssumption
<1>2. 0 \in T
  <2>1. l[0] = Classic!Identity
    BY DEF Recency
  <2>2. \A i \in 1 .. NumSymbols : l[0][i] = i - 1
    BY <2>1 DEF Classic!Identity
  <2>3. \A c : Classic!LastCame(bytes, 0, c) = 0
    <3>1. \A c : Classic!LastCame(bytes, 0, c) \in 0 .. 0
      BY <1>1, LastCameIs
    <3> QED BY <3>1
  <2>4. ASSUME NEW i \in 1 .. NumSymbols, NEW j \in 1 .. NumSymbols, i < j
        PROVE  Before(bytes, 0, l[0][i], l[0][j])
    <3>1. l[0][i] < l[0][j]
      BY <2>2, <2>4, <1>1
    <3> QED BY <3>1, <2>3 DEF Before
  <2> QED BY <2>4 DEF Ranked
<1>3. ASSUME NEW n \in T PROVE n + 1 \in T
  <2> SUFFICES ASSUME n + 1 <= N PROVE Ranked(bytes, n + 1, l[n + 1])
    OBVIOUS
  <2> DEFINE k == n + 1
             c == bytes[k]
             old == l[n]
             p == Classic!Place(old, c)
             last(d) == Classic!LastCame(bytes, n, d)
             then(d) == Classic!LastCame(bytes, k, d)
  <2>1. k \in 1 .. N /\ k - 1 = n /\ n \in 0 .. N /\ n < N /\ n \in Nat /\ k \in 0 .. N
    BY <1>1
  <2>2. Ranked(bytes, n, old)
    BY <1>1
  <2>3. /\ Arranged(old) /\ Arranged(l[k]) /\ c \in Symbol
        /\ p \in 0 .. NumSymbols - 1 /\ old[p + 1] = c
        /\ l[k] = Classic!ToFront(old, p)
    <3> HIDE DEF c, old, p, k
    <3>1. /\ Arranged(l[k - 1]) /\ Arranged(l[k]) /\ bytes[k] \in Symbol
          /\ Classic!Place(l[k - 1], bytes[k]) \in 0 .. NumSymbols - 1
          /\ l[k - 1][Classic!Place(l[k - 1], bytes[k]) + 1] = bytes[k]
          /\ l[k] = Classic!ToFront(l[k - 1], Classic!Place(l[k - 1], bytes[k]))
      BY <2>1, RecencyAt
    <3> QED BY <2>1, <3>1 DEF c, old, p
  <2>4. /\ l[k][1] = c
        /\ \A j \in 2 .. NumSymbols : l[k][j] = IF j <= p + 1 THEN old[j - 1] ELSE old[j]
    <3> HIDE DEF c, old, p, k
    <3> QED BY <2>3, MovedFront
  <2>5. \A d : last(d) \in 0 .. n /\ then(d) = IF c = d THEN k ELSE last(d)
    BY <2>1, LastCameIs
  <2> HIDE DEF c, old, p, k, last, then
  <2>6. ASSUME NEW j \in 2 .. NumSymbols PROVE l[k][j] # c
    <3>1. j \in 1 .. NumSymbols /\ 1 \in 1 .. NumSymbols /\ j # 1
      BY <1>1
    <3>2. \A x, y \in 1 .. NumSymbols : l[k][x] = l[k][y] => x = y
      BY <2>3 DEF Arranged
    <3> QED BY <2>4, <3>1, <3>2
  <2>7. ASSUME NEW i \in 1 .. NumSymbols, NEW j \in 1 .. NumSymbols, i < j
        PROVE  Before(bytes, k, l[k][i], l[k][j])
    <3>1. j \in 2 .. NumSymbols /\ l[k][j] # c
      <4>1. j \in 2 .. NumSymbols
        BY <1>1, <2>7
      <4> QED BY <4>1, <2>6
    <3>2. then(l[k][j]) = last(l[k][j]) /\ last(l[k][j]) \in 0 .. n
      BY <3>1, <2>5
    <3>3. CASE i = 1
      <4>1. then(l[k][i]) = k
        BY <3>3, <2>4, <2>5
      <4>2. k > n
        BY <2>1 DEF k
      <4>3. then(l[k][i]) > then(l[k][j])
        BY <4>1, <4>2, <3>2, <2>1
      <4> QED BY <4>3 DEF Before, then
    <3>4. CASE i # 1
      <4>1. i \in 2 .. NumSymbols
        BY <1>1, <3>4
      <4>2. then(l[k][i]) = last(l[k][i])
        BY <4>1, <2>5, <2>6
      <4>3. \E x, y \in 1 .. NumSymbols : x < y /\ l[k][i] = old[x] /\ l[k][j] = old[y]
        <5> DEFINE from(z) == IF z <= p + 1 THEN z - 1 ELSE z
        <5>1. \A z \in 2 .. NumSymbols : from(z) \in 1 .. NumSymbols /\ l[k][z] = old[from(z)]
          BY <1>1, <2>3, <2>4
        <5>2. from(i) < from(j)
          <6>2. i \in Nat /\ j \in Nat /\ p \in Nat /\ i < j
            BY <1>1, <2>3, <2>7
          <6> QED BY <6>2
        <5>3. from(i) \in 1 .. NumSymbols /\ from(j) \in 1 .. NumSymbols
              /\ l[k][i] = old[from(i)] /\ l[k][j] = old[from(j)]
          BY <5>1, <4>1, <3>1
        <5> HIDE DEF from
        <5> QED BY <5>2, <5>3
      <4>4. Before(bytes, n, l[k][i], l[k][j])
        BY <4>3, <2>2 DEF Ranked
      <4> QED BY <4>2, <4>4, <3>2 DEF Before, last, then
    <3> QED BY <3>3, <3>4
  <2> QED BY <2>7 DEF Ranked, k
<1>4. T \in SUBSET Nat
  OBVIOUS
<1> HIDE DEF T
<1>5. T = Nat
  BY <1>2, <1>3, <1>4, NatSetInduction
<1> QED BY <1>1, <1>5 DEF T

\* Those before a symbol of a ranked list are as many as its place says.
LEMMA CountBefore ==
  ASSUME NEW bytes \in Seq(Symbol), NEW n \in 0 .. Len(bytes), NEW list, Arranged(list),
         Ranked(bytes, n, list), NEW p \in 0 .. NumSymbols - 1
  PROVE  Cardinality({d \in Symbol : Before(bytes, n, d, list[p + 1])}) = p
<1> DEFINE c == list[p + 1]
           ahead == {d \in Symbol : Before(bytes, n, d, c)}
           f == [i \in 1 .. p |-> list[i]]
           last(d) == Classic!LastCame(bytes, n, d)
<1>1. NumSymbols \in Nat \ {0} /\ p \in Nat /\ p + 1 \in 1 .. NumSymbols
      /\ \A i \in 1 .. p : i \in 1 .. NumSymbols /\ i < p + 1
  BY BufferAssumption
<1>2. list \in [1 .. NumSymbols -> Symbol] /\ c \in Symbol
  BY <1>1 DEF Arranged
<1>3. \A d : last(d) \in 0 .. n
  BY LastCameIs
<1>4. Symbol \subseteq Nat
  BY DEF Symbol
<1>5. ASSUME NEW d \in Symbol, NEW e \in Symbol, Before(bytes, n, d, e) PROVE ~ Before(bytes, n, e, d)
  <2>1. d \in Nat /\ e \in Nat /\ last(d) \in Nat /\ last(e) \in Nat
    BY <1>3, <1>4
  <2>2. last(d) > last(e) \/ (last(d) = last(e) /\ d < e)
    BY <1>5 DEF Before
  <2> HIDE DEF last
  <2>3. ~ (last(e) > last(d) \/ (last(e) = last(d) /\ e < d))
    BY <2>1, <2>2
  <2> QED BY <2>3 DEF Before, last
<1>6. ~ Before(bytes, n, c, c)
  BY <1>2, <1>5
<1>7. ASSUME NEW i \in 1 .. p PROVE f[i] \in ahead
  <2>1. Before(bytes, n, list[i], c)
    BY <1>1 DEF Ranked
  <2> QED BY <1>1, <1>2, <2>1
<1>8. ASSUME NEW d \in ahead PROVE \E i \in 1 .. p : f[i] = d
  <2>1. d \in Symbol /\ Before(bytes, n, d, c)
    OBVIOUS
  <2>2. PICK i \in 1 .. NumSymbols : list[i] = d
    BY <2>1 DEF Arranged
  <2>3. i # p + 1
    BY <1>6, <2>1, <2>2
  <2>4. ~ (p + 1 < i)
    <3>1. SUFFICES ASSUME p + 1 < i PROVE FALSE
      OBVIOUS
    <3>2. Before(bytes, n, c, d)
      BY <1>1, <2>2, <3>1 DEF Ranked
    <3> HIDE DEF c
    <3> QED BY <1>2, <1>5, <2>1, <3>2
  <2>5. i \in 1 .. p
    BY <1>1, <2>3, <2>4
  <2> QED BY <2>2, <2>5
<1>9. \A i, j \in 1 .. p : f[i] = f[j] => i = j
  <2>1. \A i, j \in 1 .. NumSymbols : list[i] = list[j] => i = j
    BY DEF Arranged
  <2> QED BY <1>1, <2>1
<1>10. f \in Bijection(1 .. p, ahead)
  <2>1. f \in [1 .. p -> ahead]
    <3>1. f = [i \in 1 .. p |-> f[i]]
      OBVIOUS
    <3> HIDE DEF f, ahead
    <3> QED BY <3>1, <1>7
  <2> HIDE DEF f, ahead
  <2> QED BY <2>1, <1>8, <1>9 DEF Bijection, Injection, Surjection, IsInjective
<1>11. IsFiniteSet(1 .. p) /\ Cardinality(1 .. p) = p
  <2>1. 1 \in Int /\ p \in Int
    BY <1>1
  <2>2. IsFiniteSet(1 .. p) /\ Cardinality(1 .. p) = IF 1 > p THEN 0 ELSE p - 1 + 1
    BY <2>1, FS_Interval
  <2> QED BY <1>1, <2>2
<1>12. Cardinality(ahead) = Cardinality(1 .. p)
  <2>1. ExistsBijection(1 .. p, ahead)
    <3> HIDE DEF f, ahead
    <3> QED BY <1>10 DEF ExistsBijection
  <2> HIDE DEF ahead
  <2> QED BY <2>1, <1>11, FS_Bijection
<1> HIDE DEF f, last
<1> QED BY <1>11, <1>12

\* Until the largest symbol comes it is the last of the list.
LEMMA LargestLast ==
  ASSUME NEW bytes \in Seq(Symbol), NEW l, Recency(bytes, l)
  PROVE  \A n \in 0 .. Len(bytes) :
           (\A i \in 1 .. n : bytes[i] # NumSymbols - 1) => l[n][NumSymbols] = NumSymbols - 1
<1> DEFINE N == Len(bytes)
           Unused(n) == \A i \in 1 .. n : bytes[i] # NumSymbols - 1
           T == {n \in Nat : n <= N /\ Unused(n) => l[n][NumSymbols] = NumSymbols - 1}
<1>1. N \in Nat /\ NumSymbols \in Nat \ {0} /\ NumSymbols \in 1 .. NumSymbols
  BY BufferAssumption
<1>2. 0 \in T
  <2>1. l[0] = Classic!Identity
    BY DEF Recency
  <2> QED BY <1>1, <2>1 DEF Classic!Identity
<1>3. ASSUME NEW n \in T PROVE n + 1 \in T
  <2> SUFFICES ASSUME n + 1 <= N, Unused(n + 1) PROVE l[n + 1][NumSymbols] = NumSymbols - 1
    OBVIOUS
  <2> DEFINE k == n + 1
             c == bytes[k]
             p == Classic!Place(l[n], c)
  <2>1. k \in 1 .. N /\ k - 1 = n /\ n \in Nat /\ n <= N
    BY <1>1
  <2>2. c # NumSymbols - 1 /\ Unused(n)
    BY <2>1
  <2>3. l[n][NumSymbols] = NumSymbols - 1
    BY <2>1, <2>2
  <2>4. /\ Arranged(l[n]) /\ p \in 0 .. NumSymbols - 1 /\ l[n][p + 1] = c
        /\ l[k] = Classic!ToFront(l[n], p)
    <3> HIDE DEF k
    <3>1. /\ Arranged(l[k - 1])
          /\ Classic!Place(l[k - 1], bytes[k]) \in 0 .. NumSymbols - 1
          /\ l[k - 1][Classic!Place(l[k - 1], bytes[k]) + 1] = bytes[k]
          /\ l[k] = Classic!ToFront(l[k - 1], Classic!Place(l[k - 1], bytes[k]))
      BY <2>1, RecencyAt
    <3> QED BY <2>1, <3>1
  <2> HIDE DEF c, k, p, Unused
  <2>5. p + 1 # NumSymbols
    BY <2>2, <2>3, <2>4
  <2>6. NumSymbols \in 2 .. NumSymbols /\ ~ (NumSymbols <= p + 1)
    BY <1>1, <2>4, <2>5
  <2>7. l[k][NumSymbols] = l[n][NumSymbols]
    BY <2>4, <2>6, MovedFront
  <2> QED BY <2>3, <2>7 DEF k
<1>4. T \in SUBSET Nat
  OBVIOUS
<1> HIDE DEF T
<1>5. T = Nat
  BY <1>2, <1>3, <1>4, NatSetInduction
<1> QED BY <1>1, <1>5 DEF T

\* Its code is the first that can be the end.
LEMMA LargestCoded ==
  ASSUME NEW bytes \in Seq(Symbol), NEW l, Recency(bytes, l), NEW n \in 1 .. Len(bytes),
         \A i \in 1 .. n - 1 : bytes[i] # NumSymbols - 1
  PROVE  Classic!Place(l[n - 1], bytes[n]) = NumSymbols - 1 <=> bytes[n] = NumSymbols - 1
<1> DEFINE p == Classic!Place(l[n - 1], bytes[n])
<1>1. /\ n - 1 \in 0 .. Len(bytes) /\ Arranged(l[n - 1]) /\ bytes[n] \in Symbol
      /\ p \in 0 .. NumSymbols - 1 /\ l[n - 1][p + 1] = bytes[n]
  BY RecencyAt
<1>2. l[n - 1][NumSymbols] = NumSymbols - 1
  BY <1>1, LargestLast
<1>3. NumSymbols \in Nat \ {0} /\ NumSymbols \in 1 .. NumSymbols
  BY BufferAssumption
<1> HIDE DEF p
<1>4. p + 1 \in 1 .. NumSymbols
  BY <1>1, <1>3
<1>5. l[n - 1][p + 1] = l[n - 1][NumSymbols] => p + 1 = NumSymbols
  BY <1>1, <1>3, <1>4 DEF Arranged
<1>6. p = NumSymbols - 1 <=> p + 1 = NumSymbols
  BY <1>1, <1>3
<1> QED BY <1>1, <1>2, <1>5, <1>6 DEF p

\* The three claims about a file.
LEMMA ClassicOfFile ==
  ASSUME NEW bytes \in Seq(Symbol)
  PROVE  Classic!Whole(bytes)
<1> DEFINE N == Len(bytes)
           largest == NumSymbols - 1
<1>1. PICK l : Recency(bytes, l)
  BY RecencyExists
<1> DEFINE word == CodesOf(bytes, l, N)
           ended == Classic!compress(bytes)
           ends == {i \in DOMAIN ended : ended[i] = largest}
           e == Min(ends)
           none == \A i \in 1 .. N : bytes[i] # largest
<1>2. N \in Nat /\ DOMAIN bytes = 1 .. N /\ largest \in Symbol
      /\ \A i \in 1 .. N : bytes[i] \in Symbol
  BY BufferAssumption DEF Symbol
<1>3. Classic!encode(bytes) = word
  BY <1>1, EncodeIs
<1>4. \A i \in 1 .. N : word[i] = Classic!Place(l[i - 1], bytes[i]) /\ word[i] \in Symbol
  BY <1>1, RecencyAt DEF CodesOf, Symbol
<1>5. ASSUME NEW i \in 1 .. N PROVE word[i] = Classic!Since(bytes, i)
  <2> DEFINE p == Classic!Place(l[i - 1], bytes[i])
  <2>1. /\ i - 1 \in 0 .. N /\ Arranged(l[i - 1]) /\ p \in 0 .. NumSymbols - 1
        /\ l[i - 1][p + 1] = bytes[i]
    BY <1>1, RecencyAt
  <2>2. Ranked(bytes, i - 1, l[i - 1])
    BY <1>1, <2>1, RecencyRanked
  <2> HIDE DEF p
  <2>3. Cardinality({d \in Symbol : Before(bytes, i - 1, d, bytes[i])}) = p
    BY <2>1, <2>2, CountBefore
  <2>4. Classic!Since(bytes, i) = Cardinality({d \in Symbol : Before(bytes, i - 1, d, bytes[i])})
    <3> DEFINE ahead == {d \in Symbol : Before(bytes, i - 1, d, bytes[i])}
    <3>1. Classic!Since(bytes, i) = Classic!Cardinality(ahead)
      BY DEF Classic!Since, Classic!Values, Symbol, Before
    <3> HIDE DEF ahead
    <3>2. Classic!Cardinality(ahead) = Cardinality(ahead)
      BY DEF Classic!Cardinality, Cardinality
    <3> QED BY <3>1, <3>2 DEF ahead
  <2> QED BY <1>4, <2>3, <2>4 DEF p
<1>6. Classic!decode(word) = bytes
  <2>1. Classic!decode(word) = [n \in 1 .. N |-> bytes[n]]
    BY <1>1, <1>2, DecodeIs
  <2>2. bytes = [n \in 1 .. N |-> bytes[n]]
    BY LenProperties
  <2> QED BY <2>1, <2>2
<1>7. /\ DOMAIN ended = 1 .. N + 1 /\ Len(ended) = N + 1
      /\ ended[N + 1] = largest
      /\ \A i \in 1 .. N : ended[i] = word[i] /\ ended[i] \in Symbol
  <2>1. word \in Seq(Symbol) /\ Len(word) = N
    <3>1. word = [i \in 1 .. N |-> Classic!Place(l[i - 1], bytes[i])]
      BY DEF CodesOf
    <3>2. \A i \in 1 .. N : Classic!Place(l[i - 1], bytes[i]) \in Symbol
      BY <1>4
    <3> HIDE DEF word
    <3> QED BY <1>2, <3>1, <3>2
  <2>2. ended = Append(word, largest)
    BY <1>3 DEF Classic!compress
  <2> HIDE DEF word, ended, largest
  <2>3. ended = [i \in 1 .. N + 1 |-> IF i = N + 1 THEN largest ELSE word[i]]
    BY <1>2, <2>1, <2>2, Appended
  <2>4. Len(ended) = N + 1
    BY <1>2, <2>1, <2>2
  <2> QED BY <1>2, <1>4, <2>3, <2>4
<1> HIDE DEF word, ended, largest
<1>8. e \in 1 .. N + 1 /\ ended[e] = largest /\ \A i \in 1 .. N + 1 : ended[i] = largest => e <= i
  <2>1. ends \in SUBSET Nat /\ ends # {}
    BY <1>2, <1>7
  <2>2. e \in ends /\ \A i \in ends : e <= i
    <3> HIDE DEF ends
    <3> QED BY <2>1, MinOfNats
  <2> HIDE DEF e
  <2> QED BY <1>7, <2>2
<1>9. Classic!UpToEnd(ended) = SubSeq(ended, 1, e - 1)
  BY DEF Classic!UpToEnd, Classic!Min, Min, largest
<1> HIDE DEF e
<1>10. Classic!UpToEnd(ended) = CodesOf(bytes, l, e - 1)
  <2>1. e - 1 \in Int /\ e - 1 \in 0 .. N /\ \A i \in 1 .. e - 1 : i \in 1 .. N
    BY <1>2, <1>8
  <2>2. \A i \in 1 .. e - 1 : ended[i] \in Symbol
    BY <1>7, <2>1
  <2> DEFINE sub == SubSeq(ended, 1, e - 1)
  <2>3. /\ sub \in Seq(Symbol) /\ Len(sub) = IF 1 <= e - 1 THEN (e - 1) - 1 + 1 ELSE 0
        /\ \A i \in 1 .. (e - 1) - 1 + 1 : sub[i] = ended[1 + i - 1]
    <3> HIDE DEF sub
    <3> QED BY <2>1, <2>2, SubSeqProperties DEF sub
  <2> HIDE DEF sub
  <2>4. Len(sub) = e - 1 /\ \A i \in 1 .. e - 1 : sub[i] = ended[i]
    BY <2>1, <2>3
  <2>5. sub = [i \in 1 .. e - 1 |-> sub[i]]
    BY <2>3, <2>4, LenProperties
  <2>6. \A i \in 1 .. e - 1 : sub[i] = Classic!Place(l[i - 1], bytes[i])
    BY <1>4, <1>7, <2>1, <2>4
  <2>7. CodesOf(bytes, l, e - 1) = [i \in 1 .. e - 1 |-> Classic!Place(l[i - 1], bytes[i])]
    BY DEF CodesOf
  <2> QED BY <1>9, <2>5, <2>6, <2>7 DEF sub
<1>11. Classic!decode(Classic!UpToEnd(ended)) = [n \in 1 .. e - 1 |-> bytes[n]]
  <2>1. e - 1 \in 0 .. N
    BY <1>2, <1>8
  <2> QED BY <1>1, <1>10, <2>1, DecodeIs
<1>12. [n \in 1 .. e - 1 |-> bytes[n]] = bytes <=> e = N + 1
  <2>1. ASSUME e = N + 1 PROVE [n \in 1 .. e - 1 |-> bytes[n]] = bytes
    <3>1. e - 1 = N
      BY <1>2, <2>1
    <3> QED BY <3>1, LenProperties
  <2>2. ASSUME e # N + 1 PROVE [n \in 1 .. e - 1 |-> bytes[n]] # bytes
    <3>1. N \in 1 .. N /\ N \notin 1 .. e - 1
      BY <1>2, <1>8, <2>2
    <3>2. DOMAIN [n \in 1 .. e - 1 |-> bytes[n]] = 1 .. e - 1
      OBVIOUS
    <3> QED BY <1>2, <3>1, <3>2
  <2> QED BY <2>1, <2>2
<1>13. e = N + 1 <=> none
  <2>1. ASSUME none PROVE e = N + 1
    <3>1. ASSUME NEW i \in 1 .. N PROVE ended[i] # largest
      <4>1. \A j \in 1 .. i - 1 : bytes[j] # NumSymbols - 1
        BY <1>2, <2>1 DEF largest
      <4>2. Classic!Place(l[i - 1], bytes[i]) # NumSymbols - 1
        BY <1>1, <2>1, <4>1, LargestCoded DEF largest
      <4> QED BY <1>4, <1>7, <4>2 DEF largest
    <3> QED BY <1>2, <1>8, <3>1
  <2>2. ASSUME ~ none PROVE e # N + 1
    <3> DEFINE uses == {i \in 1 .. N : bytes[i] = largest}
               m == Min(uses)
    <3>1. uses \in SUBSET Nat /\ uses # {}
      BY <2>2
    <3>2. m \in uses /\ \A i \in uses : m <= i
      <4> HIDE DEF uses
      <4> QED BY <3>1, MinOfNats
    <3> HIDE DEF m
    <3>3. m \in 1 .. N /\ bytes[m] = largest /\ \A i \in 1 .. m - 1 : bytes[i] # largest
      BY <1>2, <3>2
    <3>4. Classic!Place(l[m - 1], bytes[m]) = largest
      BY <1>1, <3>3, LargestCoded DEF largest
    <3>5. ended[m] = largest /\ m \in 1 .. N + 1 /\ m < N + 1
      BY <1>2, <1>4, <1>7, <3>3, <3>4
    <3> QED BY <1>2, <1>8, <3>5
  <2> QED BY <2>1, <2>2
<1>14. Classic!decode(Classic!UpToEnd(ended)) = bytes
         <=> \A i \in DOMAIN bytes : bytes[i] # NumSymbols - 1
  BY <1>2, <1>11, <1>12, <1>13 DEF largest
<1> QED BY <1>2, <1>3, <1>5, <1>6, <1>14 DEF Classic!Whole, ended

\* The classic transform codes every file by recency and is inverted, and the end
\* that MTF::compress writes is told from the bytes just when the largest of them
\* does not occur, for every alphabet and file.
THEOREM ClassicWholeCorrect == Spec => []ClassicWhole
<1>1. TypeOK => ClassicWhole
  BY ClassicOfFile DEF TypeOK, ClassicWhole
<1> QED BY <1>1, TypeCorrect, PTL
===============================================================================
