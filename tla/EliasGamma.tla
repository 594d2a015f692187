------------------------------ MODULE EliasGamma ------------------------------
(***************************************************************************)
(* The adaptive Elias gamma coder of src/encoders/AdaptiveEliasGamma.cpp:  *)
(* symbols are ranked by how often they came, and the rank is written in   *)
(* gamma code.  There is no symbol for the end of the file: decode_array   *)
(* stops when the bits do, as remaining() and read_bit() of ibitstream     *)
(* tell, and has to see through the zeros that fill up the last byte.      *)
(*                                                                         *)
(* Symbols are counted from 0; decode_array's -1 and encode_array's +1,    *)
(* which cancel out, are left out.                                         *)
(***************************************************************************)
EXTENDS Integers, Sequences, FiniteSets, FiniteSetsExt, SequencesExt

CONSTANTS
  symbols_amount, \* size of the alphabet
  SIZE,           \* bits of the reader's buffer (32 Mi)
  BITS,           \* bits of a byte (8)
  MaxInput        \* bound on the length of the input

ASSUME GammaAssumption ==
  /\ symbols_amount \in Nat \ {0} /\ BITS \in Nat \ {0} /\ MaxInput \in Nat
  /\ SIZE \in Nat \ {0} /\ SIZE % BITS = 0

Symbol == 0 .. symbols_amount - 1
EOF == -1

VARIABLES
  enc,     \* the encoder: count and rank by symbol, map by rank
  dec,     \* the decoder
  sent,    \* symbols encoded
  bits,    \* written to the archive
  closed,  \* the archive is whole, its last byte filled up
  pos,     \* bits read from it
  decoded, \* symbols decoded
  pc       \* the decoder: reading or done

vars == <<enc, dec, sent, bits, closed, pos, decoded, pc>>

NewCoder == [count |-> [s \in Symbol |-> 0], rank |-> [s \in Symbol |-> s],
             map |-> [r \in Symbol |-> r]]

Init ==
  /\ enc = NewCoder /\ dec = NewCoder /\ sent = <<>> /\ bits = <<>> /\ closed = FALSE
  /\ pos = 0 /\ decoded = <<>> /\ pc = "reading"

-------------------------------------------------------------------------------
(* Ranks. *)

\* Slip: a symbol changes places with the next higher rank only.
update_frequencies_once(h, symbol) ==
  LET count == [h.count EXCEPT ![symbol] = @ + 1]
      i == h.rank[symbol]
      j == IF i > 0 /\ count[symbol] > count[h.map[i - 1]] THEN i - 1 ELSE i
      other == h.map[j]
  IN  [count |-> count,
       rank  |-> [h.rank EXCEPT ![symbol] = j, ![other] = i],
       map   |-> [h.map EXCEPT ![i] = other, ![j] = symbol]]

\* The symbol changes places with the highest ranked one that it has overtaken.
update_frequencies(h, symbol) ==
  LET count == [h.count EXCEPT ![symbol] = @ + 1]
      i == h.rank[symbol]
      j == Min({r \in 0 .. i : \A m \in r .. i - 1 : count[symbol] > count[h.map[m]]})
      other == h.map[j]
  IN  [count |-> count,
       rank  |-> [h.rank EXCEPT ![other] = i, ![symbol] = j],
       map   |-> [h.map EXCEPT ![i] = other, ![j] = symbol]]

-------------------------------------------------------------------------------
(* Encoding. *)

\* x >> i
Shifted(x, i) ==
  LET shifted[j \in 0 .. symbols_amount] == IF j = 0 THEN x ELSE shifted[j - 1] \div 2
  IN  shifted[i]

\* 31 - __builtin_clz(x), the place of the first one.
fast_log2(x) == CHOOSE l \in 0 .. x : Shifted(x, l) = 1

\* As many zeros as the number has bits behind its first, then its bits.
elias_gamma_encode(x) ==
  LET n == fast_log2(x)
  IN  [k \in 1 .. 2 * n + 1 |-> IF k <= n THEN 0 ELSE Shifted(x, 2 * n + 1 - k) % 2]

Encode(symbol) ==
  /\ ~closed /\ Len(sent) < MaxInput
  /\ sent' = Append(sent, symbol)
  /\ bits' = bits \o elias_gamma_encode(enc.rank[symbol] + 1)
  /\ enc' = update_frequencies(enc, symbol)
  /\ UNCHANGED <<dec, closed, pos, decoded, pc>>

\* flush_remaining
Close ==
  /\ ~closed /\ closed' = TRUE
  /\ bits' = bits \o [k \in 1 .. (BITS - (Len(bits) % BITS)) % BITS |-> 0]
  /\ UNCHANGED <<enc, dec, sent, pos, decoded, pc>>

-------------------------------------------------------------------------------
(* Decoding, from a whole archive. *)

\* read_bit() number p + 1, and all after the end.
Bit(p) == IF p < Len(bits) THEN bits[p + 1] ELSE EOF

\* remaining() is false once the buffer is used up and the last read() came
\* short; a file that ends with a buffer has not come short yet.
remaining == pos < Len(bits) \/ (pos = Len(bits) /\ Len(bits) % SIZE = 0)

\* The first bit from pos on that is not zero: a one, or the end.
Zeros == Min({n \in 0 .. Len(bits) : Bit(pos + n) # 0})

\* The number whose bits come behind n zeros and a one.
Number(n) ==
  LET symbol[k \in 0 .. n] == IF k = 0 THEN 1 ELSE 2 * symbol[k - 1] + Bit(pos + n + k)
  IN  symbol[n]

\* Slip: remaining() is not asked.
elias_gamma_decode_unasked ==
  LET n == Zeros
  IN  IF \E k \in 1 .. n : Bit(pos + n + k) = EOF THEN [symbol |-> EOF, used |-> Len(bits) - pos]
      ELSE [symbol |-> Number(n), used |-> 2 * n + 1]

\* The loop over the zeros ends at the end of the file, too; that is told from
\* a one by the bits of the number, if it has any.
elias_gamma_decode ==
  LET n == Zeros
  IN  IF ~remaining THEN [symbol |-> EOF, used |-> 0]
      ELSE IF \E k \in 1 .. n : Bit(pos + n + k) = EOF THEN [symbol |-> EOF, used |-> Len(bits) - pos]
      ELSE [symbol |-> Number(n), used |-> 2 * n + 1]

\* One turn of decode_array.
Decode ==
  /\ closed /\ pc = "reading" /\ Len(decoded) <= MaxInput
  /\ LET symbol == elias_gamma_decode.symbol
     IN  IF symbol = EOF
         THEN pc' = "done" /\ UNCHANGED <<dec, decoded>>
         ELSE LET val == dec.map[symbol - 1]
              IN  /\ dec' = update_frequencies(dec, val)
                  /\ decoded' = Append(decoded, val)
                  /\ UNCHANGED pc
  /\ pos' = pos + elias_gamma_decode.used
  /\ UNCHANGED <<enc, sent, bits, closed>>

Next == (\E symbol \in Symbol : Encode(symbol)) \/ Close \/ Decode

Spec == Init /\ [][Next]_vars

-------------------------------------------------------------------------------
\* Rank and symbol are inverse to each other, and the more frequent symbol has
\* the higher rank, hence the shorter code, in both coders.
RanksOrdered ==
  \A h \in {enc, dec} :
    /\ \A s \in Symbol : h.map[h.rank[s]] = s
    /\ \A r, q \in Symbol : r < q => h.count[h.map[r]] >= h.count[h.map[q]]

\* What is decoded is what was encoded, in order, and when decode_array stops
\* it is all of it: a coder that updates after each code is reversible, and
\* the zeros at the end are not taken for a symbol.
Reversible ==
  /\ IsPrefix(decoded, sent)
  /\ pc = "done" => decoded = sent

\* So it is in every archive that does not end where a buffer does, and is not
\* empty: at such an end remaining() does not know it yet, and the loop over the
\* zeros takes the end for a one, which is one symbol too many.
ReversibleInside == closed /\ Len(bits) % SIZE # 0 => Reversible
===============================================================================
