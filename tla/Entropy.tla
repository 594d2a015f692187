------------------------------- MODULE Entropy -------------------------------
(***************************************************************************)
(* The entropy layer as it is composed in src/encoders/RunLength.h: the    *)
(* run-length layer over its two adaptive Huffman coders, `ah' for symbols *)
(* and `ahrle' for counts, which write to one sequence of bits.  RunLength *)
(* works on tokens; here its encoder's tokens become bits, the archive is  *)
(* cut between two bytes, and the decoder has nothing but the bits.        *)
(***************************************************************************)
EXTENDS RunLength, FiniteSets

CONSTANT BITS  \* bits of a byte (8)

\* eofSymbol is the last symbol of the alphabet of ah.
ASSUME EntropyAssumption == BITS \in Nat \ {0} /\ Value \subseteq 0 .. eofSymbol - 1

AH == INSTANCE HuffmanTree WITH alphabet_size <- eofSymbol + 1
AHRLE == INSTANCE HuffmanTree WITH alphabet_size <- MaxRun + 1

VARIABLES
  eah, eahrle,  \* the encoder's coders
  dah, dahrle,  \* the decoder's
  bits,         \* the archive, or what is left of it
  ends,         \* the bit behind each token; only a cut looks at it
  at            \* bits read

allVars == <<vars, eah, eahrle, dah, dahrle, bits, ends, at>>

EntropyInit ==
  /\ Init
  /\ eah = AH!NewCoder /\ dah = AH!NewCoder
  /\ eahrle = AHRLE!NewCoder /\ dahrle = AHRLE!NewCoder
  /\ bits = <<>> /\ ends = <<>> /\ at = 0

-------------------------------------------------------------------------------
\* Behind what there is comes what a coder has written.
Added(w, coder, out) ==
  [ah |-> IF coder = "ah" THEN out.next ELSE w.ah,
   ahrle |-> IF coder = "ah" THEN w.ahrle ELSE out.next,
   bits |-> w.bits \o out.bits, ends |-> Append(w.ends, Len(w.bits) + Len(out.bits))]

\* One token through the coder it is for.
Put(w, token) ==
  Added(w, token.coder, IF token.coder = "ah" THEN AH!encode(w.ah, token.value)
                        ELSE AHRLE!encode(w.ahrle, token.value))

\* One token after the other.
Written(first, new) ==
  LET w[i \in 0 .. Len(new)] == IF i = 0 THEN first ELSE Put(w[i - 1], new[i])
  IN  w[Len(new)]

\* Fewer than a byte of zeros: flush_remaining fills up the last byte.
Padding(over, written) ==
  [j \in 1 .. IF over THEN (BITS - (Len(written) % BITS)) % BITS ELSE 0 |-> 0]

\* The tokens that are new become bits, with the padding behind them when the
\* archive is over.
Write(over) ==
  /\ \E done \in {Written([ah |-> eah, ahrle |-> eahrle, bits |-> bits, ends |-> ends],
                            SubSeq(tokens', Len(tokens) + 1, Len(tokens')))} :
       /\ eah' = done.ah /\ eahrle' = done.ahrle /\ ends' = done.ends
       /\ bits' = done.bits \o Padding(over, done.bits)
  /\ UNCHANGED <<dah, dahrle, at>>

WriteSymbol(v) == EncodeSymbol(v) /\ Write(FALSE)

WriteEnd == EncodeEnd /\ Write(TRUE) /\ spare' = (Len(bits') > Last(ends'))

\* Of the archive only the first bytes are left.
CutBytes(bytes) ==
  LET whole == {i \in DOMAIN ends : ends[i] <= bytes * BITS}
  IN  /\ bytes * BITS < Len(bits)
      /\ Cut
      /\ bits' = SubSeq(bits, 1, bytes * BITS)
      /\ readable' = Cardinality(whole)
      /\ spare' = (bytes * BITS > Max({ends[i] : i \in whole} \cup {0}))
      /\ UNCHANGED <<eah, eahrle, dah, dahrle, ends, at>>

-------------------------------------------------------------------------------
Unread == SubSeq(bits, at + 1, Len(bits))

\* The decoder of RunLength, with what its coders make of the bits.
ReadSymbol ==
  /\ pc = "symbol"
  /\ \E out \in {AH!decode(dah, Unread)} :
       /\ dah' = out.next /\ at' = at + out.used
       /\ IF out.symbol < 0 THEN Stop /\ UNCHANGED pos
          ELSE SymbolRead(out.symbol, at + out.used < Len(bits)) /\ pos' = pos + 1
  /\ UNCHANGED <<encVars, eah, eahrle, dahrle, bits, ends>>

ReadRun ==
  /\ pc = "run"
  /\ \E out \in {AHRLE!decode(dahrle, Unread)} :
       /\ dahrle' = out.next /\ at' = at + out.used
       /\ IF out.symbol < 0 THEN Stop /\ UNCHANGED pos
          ELSE RunRead(out.symbol) /\ pos' = pos + 1
  /\ UNCHANGED <<encVars, eah, eahrle, dah, bits, ends>>

Enter == (Call \/ CallAfterEof) /\ UNCHANGED <<eah, eahrle, dah, dahrle, bits, ends, at>>

-------------------------------------------------------------------------------
Reading == Enter \/ ReadSymbol \/ ReadRun

EntropyNext ==
  \/ \E v \in Value : WriteSymbol(v)
  \/ WriteEnd
  \/ \E bytes \in 0 .. Len(bits) \div BITS : CutBytes(bytes)
  \/ Reading

\* The decoder keeps running.  A step of Reading is one of Decoding and can be
\* taken when Decoding can, so that fairness is RunLength's: whether Reading is
\* enabled TLC would have to work out of the trees.
EntropySpec == EntropyInit /\ [][EntropyNext]_allVars /\ WF_vars(Decoding)

-------------------------------------------------------------------------------
\* Over real coders every step is one of RunLength's: the bits stand for the
\* tokens.  Each of the two trees of the decoder follows its own one of the
\* encoder although the tokens of both are mixed; a code, a literal or a count
\* is never read out of another's bits, of padding, or of a cut code; and the
\* bits end where RunLength says that nothing remains.
BitsAreTokens == Init /\ [][Next]_vars
==============================================================================
