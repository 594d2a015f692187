-------------------------------- MODULE Hashes --------------------------------
(***************************************************************************)
(* Hash objects of every class, all taking the same file.  compute tells   *)
(* the hash of a context without the file before it: a table that rehashed *)
(* with it would find its cells again only if the two agree.               *)
(***************************************************************************)
EXTENDS HashFunctions

CONSTANTS
  K,        \* context length
  Bases,    \* bases RabinKarp may draw
  Table,    \* the words TabulationHash has drawn
  Slope, Offset, \* a and b of LinearHash
  MaxInput  \* bound on the length of the input

ASSUME HashAssumption ==
  /\ K \in Nat /\ K * BYTE <= WORD /\ sub_k <= K
  /\ Table \in [0 .. K - 1 -> [Bytes -> Nat]] /\ MaxInput \in Nat

VARIABLES
  sent,      \* the file so far
  identity, rabin, tabulation, minimiser,
  exact      \* RabinKarp's arithmetic has stayed within a word so far

vars == <<sent, identity, rabin, tabulation, minimiser, exact>>

Linear(k) == NewLinear(k, Slope, Offset)
Tabulation(k) == NewTabulation(k, Table)

\* The five instantiations of MinimiserHash.
Minimisers(base) ==
  LET R(k) == NewRabinKarp(k, base)
  IN  {NewMinimiser(K, R(sub_k), Linear(sub_k), R(K)),
       NewMinimiser(K, R(sub_k), Linear(sub_k), Tabulation(K)),
       NewMinimiser(K, Tabulation(sub_k), Linear(sub_k), R(K)),
       NewMinimiser(K, Tabulation(sub_k), Tabulation(sub_k), Tabulation(K)),
       NewMinimiser(K, R(sub_k), Tabulation(sub_k), Tabulation(K))}

Init ==
  /\ sent = <<>>
  /\ identity = Hash("Identity", K) /\ tabulation = Tabulation(K)
  /\ \E base \in Bases :
       /\ rabin = NewRabinKarp(K, base) /\ minimiser \in Minimisers(base)
       /\ exact = (base ^ K < 2 ^ WORD)

\* Neither a product nor the difference of NextHash leaves the word.
Fits(h, c) ==
  LET leaves == fast_modulo(h.xk * Oldest(h, c))
  IN  /\ h.xk * Oldest(h, c) < 2 ^ WORD
      /\ h.hash >= leaves
      /\ fast_modulo(h.hash - leaves) * h.base < 2 ^ WORD

Take(c) ==
  /\ Len(sent) < MaxInput
  /\ sent' = Append(sent, c)
  /\ identity' = update(identity, c) /\ rabin' = update(rabin, c)
  /\ tabulation' = update(tabulation, c)
  /\ minimiser' = minimiser_update(minimiser, c)
  /\ exact' = (exact /\ Fits(rabin, c))

Next == \E c \in Bytes : Take(c)

Spec == Init /\ [][Next]_vars

-------------------------------------------------------------------------------
\* The last K bytes, zeros before the first, as one number.
Context ==
  FoldLeft(LAMBDA key, j : key * 2 ^ BYTE + (IF j <= 0 THEN 0 ELSE sent[j]), 0,
           [j \in 1 .. K |-> Len(sent) - K + j])

\* A hash depends on the context alone, and compute gives it: always for
\* Identity and TabulationHash (test_tabulation_hash.cpp looks at one pair of
\* contexts), for RabinKarp as long as its arithmetic has not wrapped around.
HashOfContext ==
  sent # <<>> =>
    /\ \A h \in {identity, tabulation} : h.kmer_hash = Context /\ h.hash = compute(h, Context)
    /\ exact => rabin.hash = compute(rabin, Context)

\* The hash h has after the first n bytes, having started from them.
Start(h) == [h EXCEPT !.kmer_hash = 0, !.hash = 0]
HashAfter(h, n) == FoldLeft(update, Start(h), SubSeq(sent, 1, n)).hash

\* The remembered minimum is the least first hash of a place in the window, and
\* the minimiser's hash is made of the second hash at such a place: also when
\* the least has just left the ring, and before the ring is full.
MinimumOfWindow ==
  LET m == minimiser
      places == {n \in 1 .. Len(sent) : n > Len(sent) - Window(m)}
  IN  sent # <<>> =>
        \E n \in places :
          /\ HashAfter(m.hash1, n) = m.minimum
          /\ m.hash = wrap(HashAfter(m.hash2, n) * 4) + (HashAfter(m.hash_window, Len(sent)) % 4)
          /\ \A p \in places : m.minimum <= HashAfter(m.hash1, p)
===============================================================================
