------------------------------ MODULE Arithmetic ------------------------------
(***************************************************************************)
(* The adaptive arithmetic coder of src/encoders/AdaptiveArithmetic.cpp,   *)
(* as operators on coder objects.  A symbol narrows the interval low..high *)
(* to its share of it; bits that low and high agree on go out.  Symbols    *)
(* are kept in the order of their frequency: index 1 is the most frequent  *)
(* one, and cumulative[i] is the sum of the frequencies behind index i.    *)
(*                                                                         *)
(* An object is a record of its registers, with the bits it has written    *)
(* and the number of those it has read, and of its distribution.  The      *)
(* registers are FRACTION_BITS wide; products are computed in 64 bits and  *)
(* do not overflow.                                                        *)
(***************************************************************************)
EXTENDS Integers, Sequences, FiniteSets, FiniteSetsExt

CONSTANTS
  alphabet_size,  \* symbols, the end-of-file symbol included
  FRACTION_BITS   \* width of low, high and code (32)

power[n \in 0 .. FRACTION_BITS + 1] == IF n = 0 THEN 1 ELSE 2 * power[n - 1]

UINT_MAX == power[FRACTION_BITS] - 1
TOP_BIT_MASK == power[FRACTION_BITS - 1]
SECOND_TOP_BIT_MASK == power[FRACTION_BITS - 2]

\* The largest sum of frequencies.
MAXIMUM == UINT_MAX \div 4

\* The arrays hold MAX_ALPHA_SIZE (513) symbols, so a sum begins below MAXIMUM.
ASSUME ArithmeticAssumption ==
  /\ alphabet_size \in Nat \ {0} /\ FRACTION_BITS \in Nat /\ FRACTION_BITS > 2
  /\ alphabet_size < MAXIMUM

Letters == 0 .. alphabet_size - 1
Index == 0 .. alphabet_size
Word == 0 .. UINT_MAX

-------------------------------------------------------------------------------
(* The distribution. *)

\* The constructor's loop also fills the place behind the alphabet.  The sums
\* begin one too high, until they are scaled for the first time.
NewDistribution ==
  [cumulative |-> [i \in Index |-> alphabet_size - i + 1],
   frequencies |-> [i \in Index |-> IF i = 0 THEN 0 ELSE 1],
   symbol_to_index |-> [s \in Letters |-> s + 1],
   index_to_symbol |-> [i \in Index |-> IF i = 0 THEN 0 ELSE i - 1]]

\* All frequencies are halved, none of the symbols' to nothing.
Halved(d) ==
  LET half == [i \in Index |-> (d.frequencies[i] + 1) \div 2]
      sum[i \in Index] == IF i = alphabet_size THEN 0 ELSE sum[i + 1] + half[i + 1]
  IN  [d EXCEPT !.frequencies = half, !.cumulative = sum]

\* Slip: a symbol passes only the one before it.
FirstOfEqual_next(d, index) ==
  IF d.frequencies[index - 1] = d.frequencies[index] THEN index - 1 ELSE index

\* The first index of those that have the frequency of this one.
FirstOfEqual(d, index) ==
  Min({i \in 1 .. index : \A j \in i .. index : d.frequencies[j] = d.frequencies[index]})

\* The symbol changes places with the first of its frequency and gets the next.
Counted(d, index) ==
  LET i == FirstOfEqual(d, index)
      old_index == d.index_to_symbol[i]
      old_symbol == d.index_to_symbol[index]
  IN  [index_to_symbol |-> [d.index_to_symbol EXCEPT ![index] = old_index, ![i] = old_symbol],
       symbol_to_index |-> [d.symbol_to_index EXCEPT ![old_index] = index, ![old_symbol] = i],
       frequencies |-> [d.frequencies EXCEPT ![i] = @ + 1],
       cumulative |-> [j \in Index |-> IF j < i THEN d.cumulative[j] + 1 ELSE d.cumulative[j]]]

update_distribution(d, index) ==
  Counted(IF d.cumulative[0] = MAXIMUM THEN Halved(d) ELSE d, index)

-------------------------------------------------------------------------------
(* The interval. *)

Registers == [low : Word, high : Word, underflow : Nat, code : Int, out : Seq({0, 1}), pos : Nat]

NewRegisters ==
  [low |-> 0, high |-> UINT_MAX, underflow |-> 0, code |-> 0, out |-> <<>>, pos |-> 0]

NewArithmetic == [reg |-> NewRegisters, dist |-> NewDistribution]

\* Where the share of the symbols up to this index ends, counted from low.
Bound(h, index) ==
  (h.dist.cumulative[index] * (h.reg.high - h.reg.low)) \div h.dist.cumulative[0]

\* The registers at the share of the symbol at index.
Narrow(h, index) ==
  [h.reg EXCEPT !.low = @ + Bound(h, index), !.high = h.reg.low + Bound(h, index - 1)]

word(x) == x % (UINT_MAX + 1)
TopBit(x) == x \div TOP_BIT_MASK
SecondBit(x) == (x \div SECOND_TOP_BIT_MASK) % 2

\* What the first loop tests, and what it does to the interval.
Agree(r) == TopBit(r.low) = TopBit(r.high)
Shift(r) == [r EXCEPT !.low = word(2 * @), !.high = word(2 * @ + 1)]

\* The second: low = 01.. and high = 10.., whose top bits are turned over.
Straddle(r) == SecondBit(r.low) = 1 /\ SecondBit(r.high) = 0
Spread(r) == [r EXCEPT !.low = word(2 * @) - TOP_BIT_MASK, !.high = word(2 * @ + 1) + TOP_BIT_MASK]

\* A loop on the registers; a turn changes nothing when the loop has ended. Each
\* turn doubles the interval, so that there are no more turns than bits.
Loop(turn, r) ==
  LET after[n \in 0 .. FRACTION_BITS] == IF n = 0 THEN r ELSE turn[after[n - 1]]
  IN  after[FRACTION_BITS]

\* Slip: the bits that were put off are written as they are.
WriteBit_same(r) ==
  LET bit == TopBit(r.low)
  IN  [Shift(r) EXCEPT !.out = Append(@, bit) \o [j \in 1 .. r.underflow |-> bit], !.underflow = 0]

\* The bit goes out, and those put off behind it as its opposite.
WriteBit(r) ==
  LET bit == TopBit(r.low)
  IN  [Shift(r) EXCEPT !.out = Append(@, bit) \o [j \in 1 .. r.underflow |-> 1 - bit], !.underflow = 0]

PutOff(r) == [Spread(r) EXCEPT !.underflow = @ + 1]

write_bits[r \in Registers] == IF Agree(r) THEN WriteBit(r) ELSE r
put_off[r \in Registers] == IF Straddle(r) THEN PutOff(r) ELSE r

update(h, index) == Loop(put_off, Loop(write_bits, Narrow(h, index)))

encode(h, symbol) ==
  LET index == h.dist.symbol_to_index[symbol]
  IN  [reg |-> update(h, index), dist |-> update_distribution(h.dist, index)]

encode_end(h, eof_symbol) ==
  LET done == encode(h, eof_symbol)
  IN  [reg |-> [done.reg EXCEPT !.out = Append(@, 1)], dist |-> done.dist]

-------------------------------------------------------------------------------
(* Decoding. *)

\* A bit behind code's: at the end the reader returns -1, and |= makes ones of all.
ReadBit(r, bits) ==
  IF r.pos < Len(bits) THEN word(2 * r.code + bits[r.pos + 1]) ELSE UINT_MAX

\* Code in the second loop: it keeps the second bit, where the top one would
\* have to stay.
KeepSecond(r, bits) ==
  LET low == ReadBit([r EXCEPT !.code = @ % SECOND_TOP_BIT_MASK], bits)
  IN  IF SecondBit(r.code) = 1 /\ SecondBit(low) = 0 THEN low + SECOND_TOP_BIT_MASK ELSE low

start_decode(h, bits) ==
  LET read[r \in Registers] == [r EXCEPT !.code = ReadBit(r, bits), !.pos = @ + 1]
  IN  [h EXCEPT !.reg = Loop(read, @)]

update_decode(h, index, bits) ==
  LET read[r \in Registers] ==
        IF Agree(r) THEN [Shift(r) EXCEPT !.code = ReadBit(r, bits), !.pos = @ + 1] ELSE r
      spread[r \in Registers] ==
        IF Straddle(r) THEN [Spread(r) EXCEPT !.code = KeepSecond(r, bits), !.pos = @ + 1] ELSE r
  IN  Loop(spread, Loop(read, Narrow(h, index)))

\* The binary search for the symbol's index.
Search(d, value) ==
  LET open(s) == s.last - s.first > 1
      halve(s) == LET middle == (s.first + s.last) \div 2
                  IN  IF d.cumulative[middle] > value THEN [s EXCEPT !.last = middle]
                      ELSE [s EXCEPT !.first = middle]
      range == [first |-> 0, last |-> alphabet_size - 1]
      at[i \in 0 .. alphabet_size] ==
        IF i = 0 THEN range ELSE IF open(at[i - 1]) THEN halve(at[i - 1]) ELSE at[i - 1]
  IN  at[alphabet_size]

\* Raised: one of decode's assertions fails, which ends the program.  At index
\* 0 the first disjunct of the third assertion holds, and cumulative[-1] is not
\* read.  Subtracting low wraps around.
decode(h, bits) ==
  LET sums == h.dist.cumulative
      range == h.reg.high - h.reg.low
      offset == word(h.reg.code - h.reg.low)
      value == ((offset + 1) * sums[0] - 1) \div range
      found == Search(h.dist, value)
      index == found.first
      reg == update_decode(h, index, bits)
      dist == update_distribution(h.dist, index)
      early == \/ sums[0] > MAXIMUM
               \/ (value * range) \div sums[0] > offset
               \/ value >= sums[0]
               \/ found.first + 1 # found.last
               \/ offset < Bound(h, index)
               \/ Bound(h, index - 1) <= offset
  IN  IF early \/ reg.code < reg.low \/ reg.code > reg.high THEN [raised |-> TRUE]
      ELSE [raised |-> FALSE, next |-> [reg |-> reg, dist |-> dist],
            symbol |-> dist.index_to_symbol[index]]
===============================================================================
