----------------------------- MODULE HashFunctions -----------------------------
(***************************************************************************)
(* The hash classes of src/hash.  An object takes the file byte by byte    *)
(* and hashes the last k of them; `kmer_hash' packs those k in a word.     *)
(* Objects are records and update is an operator on them.  Words are WORD  *)
(* bits wide: sums, differences and products wrap around.                  *)
(***************************************************************************)
EXTENDS Integers, Sequences, SequencesExt, Bitwise

CONSTANTS
  BYTE,  \* bits of a byte (8)
  WORD,  \* bits of a word (64)
  MASK,  \* a tabulation hash is taken modulo this (2^31)
  sub_k  \* bytes the minimiser's inner hashes look at (3)

ASSUME WordAssumption ==
  /\ BYTE \in Nat \ {0} /\ WORD \in Nat /\ WORD > 3 /\ MASK \in Nat \ {0}
  /\ sub_k \in Nat \ {0}

Bytes == 0 .. 2 ^ BYTE - 1

wrap(x) == x % 2 ^ WORD

\* A prime of the form 2^n - 1, three bits short of a word.
M61 == 2 ^ (WORD - 3) - 1

\* val modulo M61: what lies above the low bits counts once.
fast_modulo(val) ==
  LET res == (val % (M61 + 1)) + (val \div (M61 + 1))
  IN  IF res >= M61 THEN res - M61 ELSE res

\* Byte j of a word, from its low end.
ByteOf(word, j) == (word \div 2 ^ (j * BYTE)) % 2 ^ BYTE

-------------------------------------------------------------------------------
(* Hash *)

Hash(kind, k) == [kind |-> kind, k |-> k, kmer_hash |-> 0, hash |-> 0]

\* What Hash::update returns: the byte that leaves the context.
Oldest(h, c) == IF h.k > 0 THEN ByteOf(h.kmer_hash, h.k - 1) ELSE c

\* Slip: the oldest byte is shifted on instead of being taken away.
Push_keeping(h, c) ==
  IF h.k = 0 THEN h ELSE [h EXCEPT !.kmer_hash = wrap(@ * 2 ^ BYTE + c)]

Push(h, c) ==
  IF h.k = 0 THEN h
  ELSE [h EXCEPT !.kmer_hash = wrap((@ - Oldest(h, c) * 2 ^ ((h.k - 1) * BYTE)) * 2 ^ BYTE + c)]

-------------------------------------------------------------------------------
(* The kinds of hash. *)

Fold(h, Op(_, _), start) == FoldLeft(Op, start, [j \in 1 .. h.k |-> j - 1])

\* TabulationHash::compute; T is the table of random words.
Tabulated(h, key) ==
  Fold(h, LAMBDA res, j : res ^^ h.T[j][ByteOf(key, h.k - 1 - j)], 0) % MASK

\* RabinKarp::compute: the bytes as the digits of a number with this base.
Digits(h, key) ==
  Fold(h, LAMBDA res, j : fast_modulo(fast_modulo(wrap(res * h.base)) + ByteOf(key, h.k - 1 - j)), 0)

\* The multiplier of the leftmost byte.
Power(base, k) == FoldLeft(LAMBDA x, j : fast_modulo(wrap(x * base)), 1, [j \in 1 .. k - 1 |-> j])

NewRabinKarp(k, base) == Hash("RabinKarp", k) @@ [base |-> base, xk |-> Power(base, k)]
NewTabulation(k, T) == Hash("Tabulation", k) @@ [T |-> T]

\* The class has a kmer_hash of its own, which hides the one update changes
\* and stays 0.
NewLinear(k, a, b) == Hash("Linear", k) @@ [a |-> a, b |-> b, own_kmer_hash |-> 0]

compute(h, key) == CASE h.kind = "Tabulation" -> Tabulated(h, key)
                     [] h.kind = "RabinKarp" -> Digits(h, key)
                     [] OTHER -> key

Scrambled(h) == fast_modulo(fast_modulo(wrap(h.a * h.own_kmer_hash)) + h.b)

\* The byte that leaves is taken off, the rest moved up, c put behind it.
Rolled(h, c) ==
  LET shorter == fast_modulo(wrap(h.hash - fast_modulo(wrap(h.xk * Oldest(h, c)))))
  IN  fast_modulo(fast_modulo(wrap(shorter * h.base)) + c)

\* The hash after h has taken c; only RabinKarp's depends on the one before.
NextHash(h, c) ==
  LET key == Push(h, c).kmer_hash
  IN  CASE h.kind = "Identity" -> key
        [] h.kind = "Linear" -> Scrambled(h)
        [] h.kind = "Tabulation" -> Tabulated(h, key)
        [] h.kind = "RabinKarp" -> Rolled(h, c)

update(h, c) == [Push(h, c) EXCEPT !.hash = NextHash(h, c)]

-------------------------------------------------------------------------------
(* MinimiserHash: of the hashes of all sub_k bytes in a row among the last *)
(* k it takes the least, in a ring with a remembered minimum.              *)

Window(m) == m.k - sub_k + 1

\* The two rings start with zeros.
NewMinimiser(k, hash1, hash2, hash_window) ==
  LET zeros == [j \in 0 .. k - sub_k |-> 0]
  IN  Hash("Minimiser", k) @@
      [hash1 |-> hash1, hash2 |-> hash2, hash_window |-> hash_window,
       ring1 |-> zeros, ring2 |-> zeros, filled |-> 0, i |-> 0,
       min_index |-> 0, minimum |-> 2 ^ WORD - 1]

Least(ring, filled) ==
  CHOOSE j \in 0 .. filled - 1 :
    \A l \in 0 .. filled - 1 : ring[j] < ring[l] \/ (ring[j] = ring[l] /\ j <= l)

\* Slip: the minimum that has left the ring is compared with.
MinIndex_stale(m, ring, filled) == IF ring[m.i] < m.minimum THEN m.i ELSE m.min_index

\* All of the ring is searched only when the least has just been overwritten.
MinIndex(m, ring, filled) ==
  IF m.min_index = m.i THEN Least(ring, filled)
  ELSE IF ring[m.i] < m.minimum THEN m.i ELSE m.min_index

minimiser_update(m, c) ==
  LET hash1 == update(m.hash1, c)
      hash2 == update(m.hash2, c)
      hash_window == update(m.hash_window, c)
      ring1 == [m.ring1 EXCEPT ![m.i] = hash1.hash]
      ring2 == [m.ring2 EXCEPT ![m.i] = hash2.hash]
      filled == IF m.filled < Window(m) THEN m.filled + 1 ELSE m.filled
      min_index == MinIndex(m, ring1, filled)
  IN  [m EXCEPT !.hash1 = hash1, !.hash2 = hash2, !.hash_window = hash_window,
                !.ring1 = ring1, !.ring2 = ring2, !.filled = filled,
                !.min_index = min_index, !.minimum = ring1[min_index],
                !.hash = wrap(ring2[min_index] * 4) + (hash_window.hash % 4),
                !.i = (@ + 1) % Window(m)]
===============================================================================
