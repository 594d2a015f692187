------------------------------ MODULE CountBuffer ------------------------------
(***************************************************************************)
(* The other kind of cell the context table can be made of: a list ordered *)
(* by how often each symbol was used, class CountBuffer<SIZE>              *)
(* (src/mtf/buffer/CountBuffer.h).  A cell is driven as buffer_encode of   *)
(* MTFHashTable.h drives it.  The counters are 16 bits wide and are scaled *)
(* down, by a logarithm, before their sum `amount' could be.               *)
(***************************************************************************)
EXTENDS Naturals, FiniteSets, FiniteSetsExt

CONSTANTS
  SIZE,       \* length of the list
  NumSymbols, \* byte values (256)
  LIMIT       \* sum of the counters that has them scaled down (4096)

\* The live slots are counted in 8 bits, so the list is shorter than the limit.
ASSUME CountAssumption ==
  SIZE \in Nat \ {0} /\ NumSymbols \in Nat \ {0} /\ LIMIT \in Nat /\ SIZE < LIMIT

Symbol == 0 .. NumSymbols - 1
Slot == 0 .. SIZE - 1

VARIABLES
  buffer,  \* the symbols, dead slots included
  counter, \* how often each was used
  amount,
  symbols  \* live slots

vars == <<buffer, counter, amount, symbols>>

Init ==
  /\ buffer = [j \in Slot |-> 0] /\ counter = [j \in Slot |-> 0]
  /\ amount = 0 /\ symbols = 0

-------------------------------------------------------------------------------
\* Powers of two, as many as any sum of counters needs.
power[l \in 0 .. LIMIT + 1] == IF l = 0 THEN 1 ELSE 2 * power[l - 1]

log2(c) == CHOOSE l \in 0 .. c : power[l] <= c /\ c < 2 * power[l]

\* Slip: a symbol that was used once is scaled down to nothing.
Scaled_down(c) == IF c = 0 THEN 0 ELSE log2(c)

\* (uint16_t) log2((double) (c + 1))
Scaled(c) == log2(c + 1)

\* The sum of the counters, one slot after the other.
Sum(f) ==
  LET upto[n \in 0 .. SIZE] == IF n = 0 THEN 0 ELSE upto[n - 1] + f[n - 1]
  IN  upto[SIZE]

\* The counters after a use that made them `used' and their sum `sum'.
normalize_rank_counter(used, sum) ==
  LET scaled == [j \in Slot |-> Scaled(used[j])]
  IN  IF sum + 1 >= LIMIT
      THEN counter' = scaled /\ amount' = Sum(scaled)
      ELSE counter' = used /\ amount' = sum + 1

\* Where a symbol used `count' times climbs to from slot i.
Climbed(i, count) == Min({j \in 0 .. i : \A m \in j .. i - 1 : count > counter[m]})

\* The swaps with one neighbour after the other push what was there one back.
Moved(f, i, p) ==
  [j \in Slot |-> IF j = p THEN f[i] ELSE IF j \in p + 1 .. i THEN f[j - 1] ELSE f[j]]

shift(i) ==
  LET p == Climbed(i, counter[i] + 1)
  IN  /\ buffer' = Moved(buffer, i, p)
      /\ normalize_rank_counter(Moved([counter EXCEPT ![i] = @ + 1], i, p), amount)
      /\ UNCHANGED symbols

\* The slot append takes: the first without a count, else the last.
FreeSlot == Min({j \in Slot : counter[j] < 1} \cup {SIZE - 1})

\* Slip: the count that is dropped stays in the sum.
append_keeping(c) ==
  LET i == IF symbols < SIZE THEN FreeSlot ELSE SIZE - 1
  IN  /\ symbols' = (IF symbols < SIZE THEN symbols + 1 ELSE symbols)
      /\ buffer' = [buffer EXCEPT ![i] = c]
      /\ normalize_rank_counter([counter EXCEPT ![i] = 1], amount)

append(c) ==
  LET i == IF symbols < SIZE THEN FreeSlot ELSE SIZE - 1
  IN  /\ symbols' = (IF symbols < SIZE THEN symbols + 1 ELSE symbols)
      /\ buffer' = [buffer EXCEPT ![i] = c]
      /\ normalize_rank_counter([counter EXCEPT ![i] = 1], amount - counter[i])

\* buffer_encode: the symbol is looked for in the live slots.
Holding(c) == {i \in 0 .. symbols - 1 : buffer[i] = c}

buffer_encode(c) ==
  \/ /\ Holding(c) # {}
     /\ shift(Min(Holding(c)))
  \/ /\ Holding(c) = {}
     /\ append(c)

Next == \E c \in Symbol : buffer_encode(c)

Spec == Init /\ [][Next]_vars

-------------------------------------------------------------------------------
\* The list is in the order of the counters, which shift relies on when it
\* stops at the first neighbour that is not smaller, and the live slots are the
\* first ones, as append finds them by their counters and the search by their
\* number, also after scaling; no symbol is in two of them.
ListOrdered ==
  /\ \A i, j \in Slot : i < j => counter[i] >= counter[j]
  /\ \A i \in Slot : i < symbols <=> counter[i] > 0
  /\ \A i, j \in 0 .. symbols - 1 : buffer[i] = buffer[j] => i = j

\* amount, which is corrected in three places, is the sum of the counters and
\* so bounds them: no counter leaves its 16 bits.
AmountIsSum == amount = Sum(counter) /\ amount < LIMIT
===============================================================================
