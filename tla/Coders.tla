-------------------------------- MODULE Coders --------------------------------
(***************************************************************************)
(* The two coders that keep their symbols in the order of their            *)
(* frequencies, AdaptiveEliasGamma and AdaptiveArithmetic, on the same     *)
(* input.  The program uses neither at the moment: the lines that would    *)
(* use the second are commented out in MTFHashTableStream.h.               *)
(***************************************************************************)
EXTENDS EliasGamma, Arithmetic

\* Of the arithmetic coder's alphabet one symbol more, at least, ends the file.
ASSUME CodersAssumption == symbols_amount < alphabet_size

eof_symbol == alphabet_size - 1

VARIABLES
  aenc,      \* the arithmetic encoder, with its archive
  adec,      \* the arithmetic decoder
  adecoded,  \* symbols it has decoded
  apc        \* start, reading, done, or raised when an assertion failed

avars == <<aenc, adec, adecoded, apc>>
allVars == <<enc, dec, sent, bits, closed, pos, decoded, pc, avars>>

BothInit ==
  /\ Init
  /\ aenc = NewArithmetic /\ adec = NewArithmetic /\ adecoded = <<>> /\ apc = "start"

-------------------------------------------------------------------------------
EncodeBoth(symbol) ==
  /\ Encode(symbol)
  /\ aenc' = encode(aenc, symbol)
  /\ UNCHANGED <<adec, adecoded, apc>>

\* encode_end, and flush_remaining for both.
CloseBoth ==
  /\ Close
  /\ LET done == encode_end(aenc, eof_symbol)
         zeros == [k \in 1 .. (BITS - (Len(done.reg.out) % BITS)) % BITS |-> 0]
     IN  aenc' = [reg |-> [done.reg EXCEPT !.out = @ \o zeros], dist |-> done.dist]
  /\ UNCHANGED <<adec, adecoded, apc>>

DecodeGamma == Decode /\ UNCHANGED avars

\* start_decode, once the other decoder has done.
StartArithmetic ==
  /\ pc = "done" /\ apc = "start" /\ apc' = "reading"
  /\ adec' = start_decode(adec, aenc.reg.out)
  /\ UNCHANGED <<aenc, adecoded>>
  /\ UNCHANGED vars

\* One turn of decode_array.
DecodeArithmetic ==
  LET got == decode(adec, aenc.reg.out)
  IN  /\ apc = "reading"
      /\ IF got.raised THEN apc' = "raised" /\ UNCHANGED <<adec, adecoded>>
         ELSE /\ adec' = got.next
              /\ apc' = IF got.symbol = eof_symbol THEN "done" ELSE "reading"
              /\ adecoded' = IF got.symbol = eof_symbol THEN adecoded ELSE Append(adecoded, got.symbol)
      /\ UNCHANGED aenc
      /\ UNCHANGED vars

BothNext ==
  \/ \E symbol \in Symbol : EncodeBoth(symbol)
  \/ CloseBoth \/ DecodeGamma \/ StartArithmetic \/ DecodeArithmetic

BothSpec == BothInit /\ [][BothNext]_allVars

-------------------------------------------------------------------------------
\* The distribution of the arithmetic encoder is one: the sums are the sums of
\* the frequencies, which fall with the index, the two maps are inverse, and no
\* symbol's share of the interval is ever empty, however often the frequencies
\* were halved.  Until that happens first, the two coders rank symbols alike,
\* though one looks for the place before it counts and the other after.
Distribution ==
  LET d == aenc.dist
  IN  /\ \A i \in 1 .. alphabet_size :
           /\ d.cumulative[i - 1] - d.cumulative[i] = d.frequencies[i]
           /\ i > 1 => d.frequencies[i - 1] >= d.frequencies[i]
           /\ d.symbol_to_index[d.index_to_symbol[i]] = i
           /\ Bound(aenc, i) < Bound(aenc, i - 1)
      /\ ~closed /\ d.cumulative[alphabet_size] = 1 =>
           \A s \in Symbol : d.symbol_to_index[s] = enc.rank[s] + 1

\* A decoder that knows the symbols, shifts as the encoder does, and reads zeros
\* behind the end.
Padded(p) == IF p < Len(aenc.reg.out) THEN aenc.reg.out[p + 1] ELSE 0
Taken(r) == 2 * r.code + Padded(r.pos)

Follow(h, symbol) ==
  LET index == h.dist.symbol_to_index[symbol]
      shift[r \in Registers] ==
        IF Agree(r) THEN [Shift(r) EXCEPT !.code = word(Taken(r)), !.pos = @ + 1] ELSE r
      spread[r \in Registers] ==
        IF Straddle(r) THEN [Spread(r) EXCEPT !.code = Taken(r) - TOP_BIT_MASK, !.pos = @ + 1] ELSE r
  IN  [reg |-> Loop(spread, Loop(shift, Narrow(h, index))),
       dist |-> update_distribution(h.dist, index)]

Started ==
  LET take[r \in Registers] == [r EXCEPT !.code = Taken(r), !.pos = @ + 1]
  IN  [reg |-> Loop(take, NewRegisters), dist |-> NewDistribution]

\* The archive is a number in the share of every symbol that was sent, the end
\* included, though frequencies were halved and bits put off: it names the
\* input.  The share has both its ends here.  Its upper one is also the lower
\* end of the next share, as update takes nothing off high, and encode_end may
\* choose that very number: then the archive names two inputs.
Recoverable ==
  LET symbols == Append(sent, eof_symbol)
      at[n \in 1 .. Len(symbols)] ==
        IF n = 1 THEN Started ELSE Follow(at[n - 1], symbols[n - 1])
  IN  closed => \A n \in 1 .. Len(symbols) :
        LET index == at[n].dist.symbol_to_index[symbols[n]]
        IN  at[n].reg.code - at[n].reg.low \in Bound(at[n], index) .. Bound(at[n], index - 1)

\* The assertions of decode hold on what the encoder wrote.
DecodeAssertions == apc # "raised"
===============================================================================
