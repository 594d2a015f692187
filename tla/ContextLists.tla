----------------------------- MODULE ContextLists -----------------------------
(***************************************************************************)
(* What the context table promises while it has room: one move-to-front    *)
(* list for every context hash, as if the table were an unbounded map.     *)
(* There are no cells, probes or rehashing here.                           *)
(***************************************************************************)
EXTENDS Naturals, Sequences, SequencesExt

CONSTANTS
  SIZE,     \* longest list
  Symbol,   \* byte values
  K,        \* context length
  Key,      \* context hashes
  HashOf    \* HashOf[seed][context] \in Key

VARIABLES
  seed,     \* which hash function the archive uses
  context,  \* the last K symbols
  seen,     \* how many of them are real
  lists,    \* the move-to-front list of every key
  codes     \* the output so far

vars == <<seed, context, seen, lists, codes>>

Init ==
  /\ seed \in DOMAIN HashOf
  /\ context = [j \in 1 .. K |-> 0]
  /\ seen = 0
  /\ lists = [k \in Key |-> <<>>]
  /\ codes = <<>>

Position(list, c) == CHOOSE i \in DOMAIN list : list[i] = c

MoveToFront(list, c) ==
  <<c>> \o (IF Contains(list, c) THEN RemoveAt(list, Position(list, c)) ELSE list)

Truncate(list) == SubSeq(list, 1, IF Len(list) > SIZE THEN SIZE ELSE Len(list))

\* The position of c in its list, or an escape that carries c itself.
CodeOf(list, c) == IF Contains(list, c) THEN Position(list, c) - 1 ELSE SIZE + c

Push(c) == context' = [j \in 1 .. K |-> IF j = K THEN c ELSE context[j + 1]]

Prime(c) ==
  /\ seen < K
  /\ seen' = seen + 1
  /\ codes' = Append(codes, SIZE + c)
  /\ Push(c)
  /\ UNCHANGED <<seed, lists>>

Emit(c) ==
  LET key == HashOf[seed][context]
  IN  /\ seen = K
      /\ codes' = Append(codes, CodeOf(lists[key], c))
      /\ lists' = [lists EXCEPT ![key] = Truncate(MoveToFront(@, c))]
      /\ Push(c)
      /\ UNCHANGED <<seed, seen>>

Next == \E c \in Symbol : Prime(c) \/ Emit(c)

Spec == Init /\ [][Next]_vars
===============================================================================
