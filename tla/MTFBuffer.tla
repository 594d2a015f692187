------------------------------ MODULE MTFBuffer ------------------------------
(***************************************************************************)
(* One cell of the context hash table: class MTFBuffer<SIZE>               *)
(* (src/mtf/buffer/MTFBuffer.h).  A cell is an array of SIZE symbols of    *)
(* which the first `symbols' are live, most recent first, and the key (the *)
(* 31-bit hash) of the context that owns the cell.  The array is kept      *)
(* whole, dead slots included, because buffer_decode may read them.        *)
(*                                                                         *)
(* Definitions introduced by "Slip:", here and in the other modules, are   *)
(* programming mistakes the properties have to notice; nothing uses them.  *)
(***************************************************************************)
EXTENDS Naturals

CONSTANTS
  SIZE,        \* length of a move-to-front list (template parameter SIZE)
  NumSymbols,  \* number of byte values (256 in the code)
  UNVISITED    \* the key of a cell no context owns (0x80000000)

ASSUME BufferAssumption ==
  /\ SIZE \in Nat \ {0}
  /\ NumSymbols \in Nat \ {0}
  /\ UNVISITED \in Nat \ {0}

Symbol == 0 .. NumSymbols - 1
Slot == 0 .. SIZE - 1

Cell == [buffer : [Slot -> Symbol], symbols : 0 .. SIZE, key : 0 .. UNVISITED]

\* The default member initialisers.
EmptyCell == [buffer |-> [j \in Slot |-> 0], symbols |-> 0, key |-> UNVISITED]

\* The test of the top bit of the key.
is_visited(cell) == cell.key # UNVISITED

\* Moves the symbol in slot i to the front; slots after i stay.
shift(cell, i) ==
  [cell EXCEPT !.buffer = [j \in Slot |-> IF j = 0 THEN cell.buffer[i]
                                          ELSE IF j <= i THEN cell.buffer[j - 1]
                                          ELSE cell.buffer[j]]]

\* Slip: a full list also counts the symbol that falls off.
append_counting(cell, c) ==
  [cell EXCEPT !.buffer = [j \in Slot |-> IF j = 0 THEN c
                                          ELSE IF j <= cell.symbols THEN cell.buffer[j - 1]
                                          ELSE cell.buffer[j]],
               !.symbols = @ + 1]

\* Puts c in front; the last live symbol falls off when all slots are live.
append(cell, c) ==
  LET kept == IF cell.symbols >= SIZE THEN cell.symbols - 1 ELSE cell.symbols
  IN  [cell EXCEPT !.buffer = [j \in Slot |-> IF j = 0 THEN c
                                              ELSE IF j <= kept THEN cell.buffer[j - 1]
                                              ELSE cell.buffer[j]],
                   !.symbols = kept + 1]

\* Slip: the search stops one slot early.
Holding_short(cell, c) == {i \in 0 .. cell.symbols - 2 : cell.buffer[i] = c}

\* The slots buffer_encode looks at, in order, until it meets c.
Holding(cell, c) == {i \in 0 .. cell.symbols - 1 : cell.buffer[i] = c}

\* The move-to-front list of the cell never holds a symbol twice.
NoRepeat(cell) ==
  \A i, j \in 0 .. cell.symbols - 1 : cell.buffer[i] = cell.buffer[j] => i = j
==============================================================================
