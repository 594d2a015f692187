----------------------------- MODULE MTFHashTable -----------------------------
(***************************************************************************)
(* The context table of src/mtf/mtftable/MTFHashTable.h, as operators on   *)
(* table objects.  An object maps the last K symbols, through a hash, to   *)
(* the cell that holds that context's move-to-front list; mtf_encode turns *)
(* a symbol into an index in that list or, when the list does not hold it, *)
(* into SIZE + symbol; mtf_decode undoes it while making the very same     *)
(* changes to its own table.                                               *)
(*                                                                         *)
(* The code works on one object per direction and never shares it, so the  *)
(* object is a record and an operation is a function of it.  The counters  *)
(* kept under MTF_STATS influence nothing and are left out.                *)
(***************************************************************************)
EXTENDS MTFBuffer, Sequences, FiniteSets, FiniteSetsExt

CONSTANTS
  K,             \* context length (the -k option)
  Seeds,         \* seeds of the hash function
  RawHash,       \* RawHash[seed][context]: the tabulation hash before masking
  INITIAL_SIZE,  \* cells of a new table (256)
  MIN_PROBES,    \* probes made however loaded the table is (8)
  LoadNum,       \* MAX_LOAD_FACTOR is LoadNum / LoadDen; the float 0.9 is 7549747 / 2^23
  LoadDen,
  CellBytes      \* sizeof(BUFFER)

Context == [1 .. K -> Symbol]

ASSUME TableAssumption ==
  /\ K \in Nat
  /\ Seeds # {}
  /\ RawHash \in [Seeds -> [Context -> Nat]]
  /\ INITIAL_SIZE \in Nat \ {0}
  /\ MIN_PROBES \in Nat \ {0}
  /\ LoadNum \in Nat /\ LoadDen \in Nat
  /\ CellBytes \in Nat \ {0}

Codes == 0 .. NumSymbols + SIZE - 1

-------------------------------------------------------------------------------
(* The hash of the last K symbols. *)

\* Hash::update: the oldest symbol leaves the context, c enters it.
push(context, c) == [j \in 1 .. K |-> IF j = K THEN c ELSE context[j + 1]]

\* TabulationHash::update masks its result to 31 bits, which keeps every key
\* apart from the one that marks a cell as not visited.
get_hash(h) == RawHash[h.seed][h.context] % UNVISITED

-------------------------------------------------------------------------------
(* Open addressing. *)

UnderLoad(used, size) == used * LoadDen < size * LoadNum
OverLoad(used, size) == used * LoadDen > size * LoadNum

\* Slip: the load of the table is forgotten.
ProbeLimit_fixed(tableSize, used, size) ==
  IF MIN_PROBES >= tableSize THEN tableSize ELSE MIN_PROBES

\* How many cells linear_probe may look at: all of them while the table is
\* lightly loaded, MIN_PROBES otherwise.
ProbeLimit(tableSize, used, size) ==
  IF UnderLoad(used, size) \/ MIN_PROBES >= tableSize THEN tableSize ELSE MIN_PROBES

Probed(i, key, tableSize) == (key + i) % tableSize

\* The probes that end the search: a free cell, or the cell of this key.
Hits(table, tableSize, limit, key) ==
  {i \in 0 .. limit - 1 : table[Probed(i, key, tableSize)].key \in {UNVISITED, key}}

\* The cell linear_probe settles on.  Without a hit it is the last one looked
\* at, and that cell changes owner: it keeps its list and gets the new key.
linear_probe(table, tableSize, used, size, key) ==
  LET limit == ProbeLimit(tableSize, used, size)
      hits  == Hits(table, tableSize, limit, key)
      last  == Probed(limit - 1, key, tableSize)
  IN  IF hits # {}
      THEN [index |-> Probed(Min(hits), key, tableSize), table |-> table]
      ELSE [index |-> last, table |-> [table EXCEPT ![last].key = key]]

EmptyTable(size) == [i \in 0 .. size - 1 |-> EmptyCell]

\* Slip: cells are copied to their home without probing.
RehashCell_home(done, cell, size) ==
  IF is_visited(cell)
  THEN [table |-> [done.table EXCEPT ![cell.key % (2 * size)] = cell],
        used  |-> done.used + 1]
  ELSE done

\* The rehashing loop of double_table copies the visited cells to a table of
\* twice the size, in the order of the old one.  used_cells restarts from 0,
\* and the load test of linear_probe still sees the old hash_table_size.
RehashCell(done, cell, size) ==
  LET at == linear_probe(done.table, 2 * size, done.used, size, cell.key)
  IN  IF is_visited(cell)
      THEN [table |-> [at.table EXCEPT ![at.index] = cell], used |-> done.used + 1]
      ELSE done

\* RehashSteps(table, size)[i]: the new table after the first i cells.
RehashSteps(table, size) ==
  LET step[i \in 0 .. size] ==
        IF i = 0 THEN [table |-> EmptyTable(2 * size), used |-> 0]
        ELSE RehashCell(step[i - 1], table[i - 1], size)
  IN  step

\* Slips: the count of used cells is not restarted; the limit is taken for
\* a size that must not be reached.
double_table_counting(h) ==
  IF OverLoad(h.used_cells, h.size) /\ 2 * h.size <= h.max_table_size
  THEN LET done == RehashSteps(h.table, h.size)[h.size]
       IN  [h EXCEPT !.table = done.table, !.used_cells = @ + done.used, !.size = 2 * h.size]
  ELSE h

double_table_below(h) ==
  IF OverLoad(h.used_cells, h.size) /\ 2 * h.size < h.max_table_size
  THEN LET done == RehashSteps(h.table, h.size)[h.size]
       IN  [h EXCEPT !.table = done.table, !.used_cells = done.used, !.size = 2 * h.size]
  ELSE h

double_table(h) ==
  IF OverLoad(h.used_cells, h.size) /\ 2 * h.size <= h.max_table_size
  THEN LET done == RehashSteps(h.table, h.size)[h.size]
       IN  [h EXCEPT !.table = done.table, !.used_cells = done.used, !.size = 2 * h.size]
  ELSE h

keep_track(h, index, key) ==
  IF is_visited(h.table[index]) THEN h
  ELSE double_table([h EXCEPT !.used_cells = @ + 1, !.table[index].key = key])

-------------------------------------------------------------------------------
(* One symbol in one list. *)

buffer_encode(cell, c) ==
  IF Holding(cell, c) # {}
  THEN [cell |-> shift(cell, Min(Holding(cell, c))), code |-> Min(Holding(cell, c))]
  ELSE [cell |-> append(cell, c), code |-> c + SIZE]

\* Slip: a symbol found in the list is not moved to its front.
buffer_decode_static(cell, code) ==
  IF code >= SIZE
  THEN [cell |-> append(cell, code - SIZE), symbol |-> code - SIZE]
  ELSE [cell |-> cell, symbol |-> cell.buffer[code]]

buffer_decode(cell, code) ==
  IF code >= SIZE
  THEN [cell |-> append(cell, code - SIZE), symbol |-> code - SIZE]
  ELSE [cell |-> shift(cell, code), symbol |-> cell.buffer[code]]

-------------------------------------------------------------------------------
(* The table object. *)

NewTable(maxMemory, seed) ==
  [table |-> EmptyTable(INITIAL_SIZE), size |-> INITIAL_SIZE, used_cells |-> 0,
   max_table_size |-> maxMemory \div CellBytes, seed |-> seed,
   kmer_chars |-> 0, context |-> [j \in 1 .. K |-> 0]]

\* A table object whose cells all come from P.
TableOver(P, h) ==
  h \in [table : [0 .. h.size - 1 -> P], size : Nat \ {0}, used_cells : Nat,
         max_table_size : Nat, seed : Seeds, kmer_chars : 0 .. K, context : Context]

TableType(h) == TableOver(Cell, h)

\* The first K symbols only fill the context.
Filling(h) == h.kmer_chars < K

Fill(h, c) == [h EXCEPT !.kmer_chars = @ + 1, !.context = push(@, c)]

\* The probe for the current context, and the object with the probed cell
\* replaced by its updated version once symbol c is known.
Lookup(h) == linear_probe(h.table, h.size, h.used_cells, h.size, get_hash(h))

Store(h, cell, c) ==
  LET at == Lookup(h)
      stored == keep_track([h EXCEPT !.table = [at.table EXCEPT ![at.index] = cell]],
                           at.index, get_hash(h))
  IN  [stored EXCEPT !.context = push(@, c)]

mtf_encode(h, c) ==
  IF Filling(h) THEN [next |-> Fill(h, c), code |-> c + SIZE]
  ELSE LET at == Lookup(h)
           enc == buffer_encode(at.table[at.index], c)
       IN  [next |-> Store(h, enc.cell, c), code |-> enc.code]

\* Slip: a cell taken from another key is read as an empty one.
mtf_decode_fresh(h, code) ==
  IF Filling(h) THEN [next |-> Fill(h, code - SIZE), symbol |-> code - SIZE]
  ELSE LET at == Lookup(h)
           cell == IF at.table = h.table THEN at.table[at.index] ELSE EmptyCell
           dec == buffer_decode(cell, code)
       IN  [next |-> Store(h, dec.cell, dec.symbol), symbol |-> dec.symbol]

mtf_decode(h, code) ==
  IF Filling(h) THEN [next |-> Fill(h, code - SIZE), symbol |-> code - SIZE]
  ELSE LET at == Lookup(h)
           dec == buffer_decode(at.table[at.index], code)
       IN  [next |-> Store(h, dec.cell, dec.symbol), symbol |-> dec.symbol]
===============================================================================
