------------------------------ MODULE RunLength ------------------------------
(***************************************************************************)
(* The run-length layer (src/encoders/RunLength.cpp).  After n equal       *)
(* symbols in a row the encoder stops writing them and counts; the count   *)
(* goes out as one token of a second coder when the run ends or is full.   *)
(* Nothing in the archive says which coder wrote a token: the decoder has  *)
(* to know, from the same counting, which of its two coders comes next.    *)
(*                                                                         *)
(* A token stands for the bits one of the adaptive coders writes.  The     *)
(* encoder is done before a decoder starts, and the archive may be cut in  *)
(* between: `readable' whole tokens are left, and `spare' tells whether    *)
(* some bits of the next one, or of the padding, follow them.              *)
(***************************************************************************)
EXTENDS Integers, Sequences, SequencesExt

CONSTANTS
  Value,     \* symbols (indices and escapes of the table)
  eofSymbol, \* the symbol encode_end writes
  n,         \* length of a run before it is counted (4)
  MaxRun,    \* largest count a token holds (255)
  length,    \* size of the array a decode call fills
  MaxInput   \* bound on the length of the input

ASSUME RunLengthAssumption ==
  /\ Value \subseteq Nat /\ eofSymbol \in Nat \ Value
  /\ n \in Nat \ {0} /\ MaxRun \in Nat \ {0} /\ length \in Nat \ {0}
  /\ MaxInput \in Nat

VARIABLES
  sent,       \* symbols encoded so far
  enc,        \* encoder: counter and last
  tokens,     \* the archive
  readable,   \* whole tokens a decoder can read, -1 while encoding
  spare,      \* whether bits follow them
  dec,        \* decoder: counter, last, remaining, eof
  pos,        \* tokens it has read
  pc,         \* where it is in decode_array
  data,       \* the array of the current call, up to i
  delivered   \* what earlier calls returned

encVars == <<sent, enc, tokens, readable, spare>>
decVars == <<dec, pos, pc, data, delivered>>
vars == <<sent, enc, tokens, readable, spare, dec, pos, pc, data, delivered>>

Sym(v) == [coder |-> "ah", value |-> v]
Run(k) == [coder |-> "ahrle", value |-> k]

Init ==
  /\ sent = <<>> /\ tokens = <<>> /\ readable = -1 /\ spare = FALSE
  /\ enc = [counter |-> 0, last |-> -1]
  /\ dec = [counter |-> 0, last |-> -1, remaining |-> 0, eof |-> FALSE]
  /\ pos = 0 /\ pc = "idle" /\ data = <<>> /\ delivered = <<>>

-------------------------------------------------------------------------------
(* The encoder.  One iteration of the loop of encode_array: the object keeps *)
(* nothing else between two, so the division into arrays does not matter.    *)

\* Slip: a run of exactly n symbols gets no count.
Pending_after(counter) == IF counter > n THEN <<Run(counter - n)>> ELSE <<>>

\* The run that ends here, if it was being counted.
Pending(counter) == IF counter >= n THEN <<Run(counter - n)>> ELSE <<>>

\* Slip: a full run is noticed one symbol late.
Repeat_late(counter) ==
  IF counter > MaxRun + n THEN [counter |-> 0, tokens |-> <<Run(counter - n)>>]
  ELSE [counter |-> counter, tokens |-> IF counter <= n THEN <<Sym(enc.last)>> ELSE <<>>]
\* What is written when the last symbol repeats and `counter' counts it.
Repeat(counter) ==
  IF counter >= MaxRun + n THEN [counter |-> 0, tokens |-> <<Run(counter - n)>>]
  ELSE [counter |-> counter, tokens |-> IF counter <= n THEN <<Sym(enc.last)>> ELSE <<>>]

EncodeSymbol(v) ==
  /\ readable = -1 /\ Len(sent) < MaxInput
  /\ LET out == IF v = enc.last THEN Repeat(enc.counter + 1)
                ELSE [counter |-> 1, tokens |-> Append(Pending(enc.counter), Sym(v))]
     IN  /\ enc' = [counter |-> out.counter, last |-> v]
         /\ tokens' = tokens \o out.tokens
  /\ sent' = Append(sent, v)
  /\ UNCHANGED <<readable, spare>>
  /\ UNCHANGED decVars

\* encode_end, after which the archive is whole.
EncodeEnd ==
  /\ readable = -1
  /\ tokens' = tokens \o Append(Pending(enc.counter), Sym(eofSymbol))
  /\ enc' = IF enc.counter >= n THEN [enc EXCEPT !.counter = 0] ELSE enc
  /\ readable' = Len(tokens') /\ spare' \in BOOLEAN
  /\ UNCHANGED sent
  /\ UNCHANGED decVars

\* The archive loses its end before a decoder reads it.
Cut ==
  /\ readable = Len(tokens) /\ pos = 0 /\ pc = "idle" /\ ~ dec.eof
  /\ readable' \in 0 .. Len(tokens) - 1 /\ spare' \in BOOLEAN
  /\ UNCHANGED <<sent, enc, tokens>>
  /\ UNCHANGED decVars

-------------------------------------------------------------------------------
(* The decoder: decode_array, called until it returns 0.                     *)

\* Leaves the call: what was filled goes to the caller, who stops at nothing.
Return(filled) ==
  /\ delivered' = delivered \o filled
  /\ data' = <<>>
  /\ pc' = IF filled = <<>> THEN "done" ELSE "idle"

\* Goes on with the loop, or leaves it when the array is full.
Continue(filled) ==
  IF Len(filled) < length THEN data' = filled /\ pc' = "symbol" /\ UNCHANGED delivered
  ELSE Return(filled)

\* Slip: what does not fit the second array either is forgotten.
Call_once ==
  /\ readable >= 0 /\ pc = "idle" /\ ~ dec.eof
  /\ dec' = [dec EXCEPT !.remaining = 0]
  /\ Continue([j \in 1 .. (IF dec.remaining < length THEN dec.remaining ELSE length) |-> dec.last])
  /\ UNCHANGED pos
  /\ UNCHANGED encVars

\* A call first copies what is left of a run that did not fit the last one.
Call ==
  /\ readable >= 0 /\ pc = "idle" /\ ~ dec.eof
  /\ LET copied == IF dec.remaining < length THEN dec.remaining ELSE length
     IN  /\ dec' = [dec EXCEPT !.remaining = @ - copied]
         /\ Continue([j \in 1 .. copied |-> dec.last])
  /\ UNCHANGED pos
  /\ UNCHANGED encVars

CallAfterEof ==
  /\ pc = "idle" /\ dec.eof
  /\ Return(<<>>)
  /\ UNCHANGED <<dec, pos>>
  /\ UNCHANGED encVars

\* A coder returns -1 when it runs out of bits.
NoToken == pos >= readable

\* Slip: the error is not looked at.
Stop_ignored == UNCHANGED <<dec, pc, data, delivered>>

Stop ==
  /\ dec' = [dec EXCEPT !.eof = TRUE]
  /\ Return(data)

\* What is done with a symbol of ah, up to the test of the counter.
\* in.remaining() is false when the last bit of the archive has been read.
SymbolRead(num, remaining) ==
  LET counter == IF num = dec.last THEN dec.counter + 1 ELSE 1
      goesOn == num # eofSymbol /\ remaining
  IN  \/ ~ goesOn /\ Stop
      \/ /\ goesOn /\ counter < n
         /\ dec' = [dec EXCEPT !.counter = counter, !.last = num]
         /\ Continue(Append(data, num))
      \/ /\ goesOn /\ counter >= n
         /\ dec' = [dec EXCEPT !.counter = 0]
         /\ data' = Append(data, num) /\ pc' = "run"
         /\ UNCHANGED delivered

\* ah.decode
DecodeSymbol ==
  /\ pc = "symbol"
  /\ UNCHANGED encVars
  /\ \/ NoToken /\ Stop /\ UNCHANGED pos
     \/ /\ ~ NoToken /\ pos' = pos + 1
        /\ SymbolRead(tokens[pos + 1].value, pos + 1 < readable \/ spare)

\* The copies of a run; what does not fit is left for the next call.
RunRead(len) ==
  LET num == data[Len(data)]
      room == length - Len(data)
      copied == IF len <= room THEN len ELSE room
  IN  /\ dec' = [dec EXCEPT !.last = num, !.remaining = len - copied]
      /\ Continue(data \o [j \in 1 .. copied |-> num])

\* ahrle.decode
DecodeRun ==
  /\ pc = "run"
  /\ UNCHANGED encVars
  /\ \/ NoToken /\ Stop /\ UNCHANGED pos
     \/ /\ ~ NoToken /\ pos' = pos + 1
        /\ RunRead(tokens[pos + 1].value)

-------------------------------------------------------------------------------
Encoding == (\E v \in Value : EncodeSymbol(v)) \/ EncodeEnd
Decoding == Call \/ CallAfterEof \/ DecodeSymbol \/ DecodeRun

Next == Encoding \/ Cut \/ Decoding

\* The decoder is a sequential program: it keeps running.
Spec == Init /\ [][Next]_vars /\ WF_vars(Decoding)

-------------------------------------------------------------------------------
\* The types, among them the alphabet of ahrle: a run's count, however long
\* the run, is one of its 256 symbols (the assertion of AdaptiveHuffman::encode).
TypeOK ==
  /\ sent \in Seq(Value)
  /\ enc \in [counter : 0 .. MaxRun + n - 1, last : Value \cup {-1}]
  /\ ToSet(tokens) \subseteq {Sym(v) : v \in Value \cup {eofSymbol}} \cup {Run(k) : k \in 0 .. MaxRun}
  /\ readable \in -1 .. Len(tokens) /\ spare \in BOOLEAN
  /\ dec \in [counter : 0 .. n - 1, last : Value \cup {-1}, remaining : Nat, eof : BOOLEAN]
  /\ pos \in Nat /\ pc \in {"idle", "symbol", "run", "done"}
  /\ data \in Seq(Value) /\ Len(data) <= length
  /\ delivered \in Seq(Value)

\* The decoder asks each token of the coder that wrote it, whatever the runs
\* and wherever a call ends; otherwise the two adaptive trees drift apart.
CoderAgrees ==
  pos < readable => /\ pc = "symbol" => tokens[pos + 1].coder = "ah"
                    /\ pc = "run" => tokens[pos + 1].coder = "ahrle"

\* The decoder never outputs anything but the input, in order, also from an
\* archive that was cut at any place; and when it stops on a whole archive it
\* has delivered everything: decode_array returns 0 only at the end, not
\* because a call ended inside a run.
OutputInOrder ==
  /\ IsPrefix(delivered \o data, sent)
  /\ (pc = "done" /\ readable = Len(tokens)) => delivered = sent

\* The caller's loop ends, on a whole archive and on a cut one.
DecoderStops == (readable >= 0) ~> (pc = "done")
==============================================================================
