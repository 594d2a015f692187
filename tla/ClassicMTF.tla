------------------------------ MODULE ClassicMTF ------------------------------
(***************************************************************************)
(* The classic transform, a baseline beside the pipeline: src/mtf/MTF.cpp. *)
(* One list of all byte values for a whole file.  A byte becomes its place *)
(* in the list and moves to the front.                                     *)
(***************************************************************************)
EXTENDS Naturals, Sequences, FiniteSets, FiniteSetsExt

CONSTANT NumSymbols \* byte values (256)

Values == 0 .. NumSymbols - 1

Identity == [i \in 1 .. NumSymbols |-> i - 1]

\* The place of c, which is always somewhere in the list.
Place(list, c) == (CHOOSE i \in DOMAIN list : list[i] = c) - 1

\* Slip: the byte changes places with the first instead of pushing it back.
ToFront_swap(list, i) == [list EXCEPT ![1] = list[i + 1], ![i + 1] = list[1]]

\* The list with what is at place i moved to its front, the others pushed back.
ToFront(list, i) ==
  [j \in DOMAIN list |-> IF j = 1 THEN list[i + 1]
                         ELSE IF j <= i + 1 THEN list[j - 1] ELSE list[j]]

\* One turn of either loop; `out' is what was written so far.
move_to_front(run, c) ==
  LET i == Place(run.list, c)
  IN  [list |-> ToFront(run.list, i), out |-> Append(run.out, i)]

move_to_front_decode(run, i) ==
  [list |-> ToFront(run.list, i), out |-> Append(run.out, run.list[i + 1])]

Start == [list |-> Identity, out |-> <<>>]

encode(bytes) ==
  LET run[n \in 0 .. Len(bytes)] ==
        IF n = 0 THEN Start ELSE move_to_front(run[n - 1], bytes[n])
  IN  run[Len(bytes)].out

decode(codes) ==
  LET run[n \in 0 .. Len(codes)] ==
        IF n = 0 THEN Start ELSE move_to_front_decode(run[n - 1], codes[n])
  IN  run[Len(codes)].out

\* The codes compress gives its Huffman coder: it ends with the code of the
\* last place, although that coder was made for a symbol more.
compress(bytes) == Append(encode(bytes), NumSymbols - 1)

-------------------------------------------------------------------------------
\* The last time c came among the first n bytes, 0 if it did not.
LastCame(bytes, n, c) == Max({0} \cup {i \in 1 .. n : bytes[i] = c})

\* How many values were used after the i-th byte's value was used last; what
\* was not used yet counts in the order of the values.
Since(bytes, i) ==
  LET last(c) == LastCame(bytes, i - 1, c)
      c == bytes[i]
  IN  Cardinality({d \in Values : \/ last(d) > last(c)
                                  \/ last(d) = last(c) /\ d < c})

\* The codes before the first that can be the end.
UpToEnd(codes) == SubSeq(codes, 1, Min({i \in DOMAIN codes : codes[i] = NumSymbols - 1}) - 1)

\* A byte's code is the number of values used since its own; decode inverts
\* encode; and a reader of compress's codes finds their end just when the
\* largest value does not occur: it leaves the last place when it is used.
Whole(bytes) ==
  LET codes == encode(bytes)
  IN  /\ \A i \in DOMAIN bytes : codes[i] = Since(bytes, i)
      /\ decode(codes) = bytes
      /\ decode(UpToEnd(compress(bytes))) = bytes <=> \A i \in DOMAIN bytes : bytes[i] # NumSymbols - 1
===============================================================================
