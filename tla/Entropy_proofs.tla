---------------------------- MODULE Entropy_proofs ----------------------------
(***************************************************************************)
(* Theorems about the run-length layer: first about RunLength, where it    *)
(* works on tokens, for every alphabet, every length of a run before it is *)
(* counted, every largest count and every size of the arrays of the        *)
(* decoder's calls, and for archives cut anywhere; then about Entropy,     *)
(* where it works on the bits of its two Huffman coders, which is shown to *)
(* implement RunLength.                                                    *)
(***************************************************************************)
EXTENDS Entropy, FiniteSetTheorems, WellFoundedInduction, TLAPS

Token == {Sym(v) : v \in Value \cup {eofSymbol}} \cup {Run(k) : k \in 0 .. MaxRun}

(* What the tokens mean.  Before the first token of an archive and behind     *)
(* each there is a place: which symbol came last, how often in a row, how     *)
(* much of the input the tokens so far stand for, and which coder is next.    *)
Place == [counter : 0 .. n - 1, last : Value \cup {-1}, got : Nat, phase : {"symbol", "run"}]

Beginning == [counter |-> 0, last |-> -1, got |-> 0, phase |-> "symbol"]

\* How often the next symbol of the input comes in a row at place s.
InARow(in, s) == IF in[s.got + 1] = s.last THEN s.counter + 1 ELSE 1

\* Behind a symbol's token.
Counted(in, s) ==
  [counter |-> IF InARow(in, s) < n THEN InARow(in, s) ELSE 0,
   last |-> in[s.got + 1], got |-> s.got + 1,
   phase |-> IF InARow(in, s) < n THEN "symbol" ELSE "run"]

\* Behind a run's token.
Repeated(s, k) == [counter |-> 0, last |-> s.last, got |-> s.got + k, phase |-> "symbol"]

\* A token that stands for the next part of the input leads from s to t.
Follows(in, s, t, token) ==
  \/ /\ s.phase = "symbol" /\ s.got < Len(in)
     /\ token = Sym(in[s.got + 1]) /\ t = Counted(in, s)
  \/ /\ s.phase = "run"
     /\ \E k \in 0 .. MaxRun :
          /\ token = Run(k) /\ t = Repeated(s, k) /\ s.got + k <= Len(in)
          /\ \A j \in s.got + 1 .. s.got + k : in[j] = s.last

\* The places of an archive's first m tokens.
Trail(d, in, toks, m) ==
  /\ d \in [0 .. m -> Place] /\ d[0] = Beginning
  /\ \A i \in 1 .. m : Follows(in, d[i - 1], d[i], toks[i])
  /\ \A i \in 0 .. m : d[i].got <= Len(in)

\* The tokens lead to s.
Reaches(in, toks, s) ==
  \E d \in [0 .. Len(toks) -> Place] : Trail(d, in, toks, Len(toks)) /\ d[Len(toks)] = s

-------------------------------------------------------------------------------
(* Lemmas about places.                                                       *)

\* A symbol counted leads to a place, no further than the input.
LEMMA CountedPlace ==
  ASSUME NEW in \in Seq(Value), NEW s \in Place, s.got < Len(in)
  PROVE  Counted(in, s) \in Place /\ Counted(in, s).got <= Len(in)
  BY RunLengthAssumption DEF Counted, InARow, Place

\* A run leads to a place.
LEMMA RepeatedPlace ==
  ASSUME NEW s \in Place, NEW k \in Nat
  PROVE  Repeated(s, k) \in Place
  BY RunLengthAssumption DEF Repeated, Place

\* What a token means does not change when the input goes on.
LEMMA FollowsLonger ==
  ASSUME NEW in \in Seq(Value), NEW v \in Value, NEW s \in Place, NEW t, NEW token,
         Follows(in, s, t, token)
  PROVE  Follows(Append(in, v), s, t, token)
<1>1. s.got \in Nat
  BY DEF Place
<1>2. CASE s.phase = "symbol"
  <2>1. s.got < Len(in) /\ token = Sym(in[s.got + 1]) /\ t = Counted(in, s)
    BY <1>2 DEF Follows
  <2>2. Append(in, v)[s.got + 1] = in[s.got + 1] /\ s.got < Len(Append(in, v))
    BY <1>1, <2>1
  <2>3. Counted(Append(in, v), s) = Counted(in, s)
    BY <2>2 DEF Counted, InARow
  <2> QED BY <1>2, <2>1, <2>2, <2>3 DEF Follows
<1>3. CASE s.phase = "run"
  <2>1. PICK k \in 0 .. MaxRun :
          /\ token = Run(k) /\ t = Repeated(s, k) /\ s.got + k <= Len(in)
          /\ \A j \in s.got + 1 .. s.got + k : in[j] = s.last
    BY <1>3 DEF Follows
  <2>2. s.got + k <= Len(Append(in, v))
    BY <1>1, <2>1, RunLengthAssumption
  <2>3. ASSUME NEW j \in s.got + 1 .. s.got + k PROVE Append(in, v)[j] = s.last
    <3>1. j \in 1 .. Len(in) /\ in[j] = s.last
      BY <1>1, <2>1, <2>3, RunLengthAssumption
    <3> QED BY <3>1
  <2> QED BY <1>3, <2>1, <2>2, <2>3 DEF Follows
<1> QED BY <1>2, <1>3 DEF Place

\* Nor does where the tokens lead.
LEMMA ReachesLonger ==
  ASSUME NEW in \in Seq(Value), NEW v \in Value, NEW toks \in Seq(Token), NEW s \in Place,
         Reaches(in, toks, s)
  PROVE  Reaches(Append(in, v), toks, s)
<1> DEFINE m == Len(toks)
<1>1. PICK d \in [0 .. m -> Place] : Trail(d, in, toks, m) /\ d[m] = s
  BY DEF Reaches
<1>2. ASSUME NEW i \in 1 .. m PROVE Follows(Append(in, v), d[i - 1], d[i], toks[i])
  <2>1. d[i - 1] \in Place /\ Follows(in, d[i - 1], d[i], toks[i])
    BY <1>1 DEF Trail
  <2> QED BY <2>1, FollowsLonger
<1>3. ASSUME NEW i \in 0 .. m PROVE d[i].got <= Len(Append(in, v))
  <2>1. d[i].got \in Nat /\ d[i].got <= Len(in)
    BY <1>1 DEF Trail, Place
  <2> QED BY <2>1
<1>4. Trail(d, Append(in, v), toks, m)
  BY <1>1, <1>2, <1>3 DEF Trail
<1> QED BY <1>1, <1>4 DEF Reaches

\* One more token leads one place further.
LEMMA ReachesNext ==
  ASSUME NEW in \in Seq(Value), NEW toks \in Seq(Token), NEW s \in Place, NEW t \in Place,
         NEW token \in Token, Reaches(in, toks, s), Follows(in, s, t, token), t.got <= Len(in)
  PROVE  Reaches(in, Append(toks, token), t)
<1> DEFINE m == Len(toks)
<1>1. PICK d \in [0 .. m -> Place] : Trail(d, in, toks, m) /\ d[m] = s
  BY DEF Reaches
<1> DEFINE e == [i \in 0 .. m + 1 |-> IF i <= m THEN d[i] ELSE t]
<1>2. m \in Nat /\ Len(Append(toks, token)) = m + 1
  OBVIOUS
<1>3. e \in [0 .. m + 1 -> Place] /\ e[0] = Beginning /\ e[m + 1] = t
  BY <1>1, <1>2 DEF Trail
<1>4. ASSUME NEW i \in 1 .. m + 1 PROVE Follows(in, e[i - 1], e[i], Append(toks, token)[i])
  <2>1. CASE i <= m
    <3>1. e[i - 1] = d[i - 1] /\ e[i] = d[i] /\ Append(toks, token)[i] = toks[i]
      BY <1>2, <2>1
    <3>2. i \in 1 .. m
      BY <1>2, <2>1
    <3> QED BY <1>1, <3>1, <3>2 DEF Trail
  <2>2. CASE i = m + 1
    <3>1. e[i - 1] = s /\ e[i] = t /\ Append(toks, token)[i] = token
      BY <1>1, <1>2, <2>2
    <3> QED BY <3>1
  <2> QED BY <1>2, <2>1, <2>2
<1>5. \A i \in 0 .. m + 1 : e[i].got <= Len(in)
  BY <1>1, <1>2 DEF Trail
<1>6. Trail(e, in, Append(toks, token), m + 1)
  BY <1>3, <1>4, <1>5 DEF Trail
<1> QED BY <1>2, <1>3, <1>6 DEF Reaches

-------------------------------------------------------------------------------
(* The invariant.                                                             *)

\* Where the encoder stands: behind the last token, with the part of a run
\* that is not written yet.
EncoderAt(in, e, s) ==
  /\ s.last = e.last
  /\ e.counter < n => /\ s.phase = "symbol" /\ s.got = Len(in)
                      /\ s.counter = e.counter
  /\ e.counter >= n => /\ s.phase = "run" /\ s.got = Len(in) - (e.counter - n)
                       /\ \A j \in s.got + 1 .. Len(in) : in[j] = e.last

DecoderWaits ==
  /\ dec = [counter |-> 0, last |-> -1, remaining |-> 0, eof |-> FALSE]
  /\ pos = 0 /\ pc = "idle" /\ data = <<>> /\ delivered = <<>>

\* How much of the input is with the caller or in its array.
Output == Len(delivered) + Len(data)

\* What came out is the input.
Faithful ==
  /\ Output <= Len(sent)
  /\ \A j \in 1 .. Len(delivered) : delivered[j] = sent[j]
  /\ \A j \in 1 .. Len(data) : data[j] = sent[Len(delivered) + j]

\* The decoder at place s, before the end.
DecoderAt(s) ==
  IF pc = "run"
  THEN /\ s.phase = "run" /\ s.got = Output
       /\ data # <<>> /\ data[Len(data)] = s.last
       /\ dec.counter = 0 /\ dec.remaining = 0
  ELSE /\ s.phase = "symbol" /\ s.got = Output + dec.remaining
       /\ s.counter = dec.counter /\ s.last = dec.last
       /\ \A j \in Output + 1 .. s.got : sent[j] = dec.last
       /\ pc = "symbol" => dec.remaining = 0 /\ Len(data) < length
       /\ pc = "idle" => data = <<>>

\* The decoder on the trail of the tokens but the last, which is the end's.
Decodes(d) ==
  /\ Faithful
  /\ IF dec.eof
     THEN /\ data = <<>> /\ pc \in {"idle", "done"}
          /\ readable = Len(tokens) => Len(delivered) = Len(sent)
     ELSE /\ pc # "done"
          /\ pos <= Len(tokens) - 1 /\ pos <= readable
          /\ DecoderAt(d[pos])

\* The whole archive.
Ended(d) ==
  LET m == Len(tokens) - 1
  IN  /\ m \in Nat /\ tokens[m + 1] = Sym(eofSymbol)
      /\ Trail(d, sent, tokens, m)
      /\ d[m].phase = "symbol" /\ d[m].got = Len(sent)

Types ==
  /\ sent \in Seq(Value)
  /\ enc \in [counter : 0 .. MaxRun + n - 1, last : Value \cup {-1}]
  /\ tokens \in Seq(Token)
  /\ readable \in -1 .. Len(tokens) /\ spare \in BOOLEAN
  /\ dec \in [counter : 0 .. n - 1, last : Value \cup {-1}, remaining : Nat, eof : BOOLEAN]
  /\ pos \in Nat /\ pc \in {"idle", "symbol", "run", "done"}
  /\ data \in Seq(Value) /\ Len(data) <= length
  /\ delivered \in Seq(Value)

Progress ==
  IF readable = -1
  THEN DecoderWaits /\ \E s \in Place : Reaches(sent, tokens, s) /\ EncoderAt(sent, enc, s)
  ELSE \E d : Ended(d) /\ Decodes(d)

RunInv == Types /\ Progress

-------------------------------------------------------------------------------
(* The encoder.                                                               *)

\* Nothing is encoded and nothing is counted.
LEMMA RunInvInit == Init => RunInv
<1> SUFFICES ASSUME Init PROVE RunInv
  OBVIOUS
<1> USE RunLengthAssumption
<1>1. Types
  <2>1. tokens \in Seq(Token) /\ Len(tokens) = 0
    BY DEF Init
  <2>2. enc \in [counter : 0 .. MaxRun + n - 1, last : Value \cup {-1}]
    BY DEF Init
  <2>3. dec \in [counter : 0 .. n - 1, last : Value \cup {-1}, remaining : Nat, eof : BOOLEAN]
    BY DEF Init
  <2>4. readable \in -1 .. Len(tokens) /\ pos \in Nat
    BY <2>1 DEF Init
  <2>5. /\ data \in Seq(Value) /\ Len(data) <= length
        /\ delivered \in Seq(Value) /\ sent \in Seq(Value)
    BY DEF Init
  <2>6. spare \in BOOLEAN /\ pc \in {"idle", "symbol", "run", "done"}
    BY DEF Init
  <2> QED BY <2>1, <2>2, <2>3, <2>4, <2>5, <2>6 DEF Types
<1>2. Beginning \in Place
  BY DEF Beginning, Place
<1> DEFINE d == [i \in 0 .. 0 |-> Beginning]
<1>3. Trail(d, sent, tokens, 0)
  BY <1>2 DEF Trail, Init, Beginning
<1>4. Reaches(sent, tokens, Beginning)
  <2>1. Len(tokens) = 0
    BY DEF Init
  <2>2. d \in [0 .. 0 -> Place] /\ d[0] = Beginning
    BY <1>2
  <2> HIDE DEF d
  <2> QED BY <1>3, <2>1, <2>2 DEF Reaches
<1>5. EncoderAt(sent, enc, Beginning)
  BY DEF EncoderAt, Init, Beginning
<1> QED BY <1>1, <1>2, <1>4, <1>5 DEF RunInv, Progress, DecoderWaits, Init

\* The tokens of one symbol, and where they lead.
LEMMA EncodeSymbolKeeps ==
  ASSUME RunInv, NEW v \in Value, EncodeSymbol(v)
  PROVE  RunInv'
<1> USE RunLengthAssumption DEF RunInv
<1>1. /\ sent \in Seq(Value) /\ tokens \in Seq(Token) /\ readable = -1
      /\ enc.counter \in 0 .. MaxRun + n - 1 /\ enc.last \in Value \cup {-1}
  BY DEF Types, EncodeSymbol
<1>2. DecoderWaits /\ DecoderWaits'
  BY <1>1 DEF Progress, EncodeSymbol, decVars, DecoderWaits
<1>3. PICK s \in Place : Reaches(sent, tokens, s) /\ EncoderAt(sent, enc, s)
  BY <1>1 DEF Progress
<1>4. sent' = Append(sent, v) /\ readable' = -1
  BY <1>1 DEF EncodeSymbol
<1>5. /\ s.got \in Nat /\ s.counter \in 0 .. n - 1 /\ Len(sent') = Len(sent) + 1
      /\ sent' \in Seq(Value) /\ Len(sent) \in Nat /\ sent'[Len(sent) + 1] = v
      /\ \A j \in 1 .. Len(sent) : sent'[j] = sent[j]
  BY <1>1, <1>4 DEF Place
<1>6. Reaches(sent', tokens, s)
  BY <1>1, <1>3, <1>4, ReachesLonger
<1> SUFFICES /\ enc' \in [counter : 0 .. MaxRun + n - 1, last : Value \cup {-1}]
             /\ tokens' \in Seq(Token)
             /\ \E t \in Place : Reaches(sent', tokens', t) /\ EncoderAt(sent', enc', t)
  <2> ASSUME /\ enc' \in [counter : 0 .. MaxRun + n - 1, last : Value \cup {-1}]
             /\ tokens' \in Seq(Token)
             /\ \E t \in Place : Reaches(sent', tokens', t) /\ EncoderAt(sent', enc', t)
      PROVE  RunInv'
  <3>1. Types'
    BY <1>1, <1>5 DEF Types, EncodeSymbol, decVars
  <3>2. Progress'
    BY <1>2, <1>4 DEF Progress
  <3> QED BY <3>1, <3>2
  <2> QED OBVIOUS
<1>7. ASSUME NEW r \in Place, NEW toks \in Seq(Token), Reaches(sent', toks, r),
             r.phase = "symbol", r.got = Len(sent)
      PROVE  /\ Counted(sent', r) \in Place
             /\ Reaches(sent', Append(toks, Sym(v)), Counted(sent', r))
             /\ Append(toks, Sym(v)) \in Seq(Token)
  <2>1. Counted(sent', r) \in Place /\ Counted(sent', r).got <= Len(sent')
    BY <1>5, <1>7, CountedPlace
  <2>2. Follows(sent', r, Counted(sent', r), Sym(v))
    BY <1>5, <1>7 DEF Follows
  <2>3. Sym(v) \in Token
    BY DEF Token
  <2> QED BY <1>5, <1>7, <2>1, <2>2, <2>3, ReachesNext
<1>8. CASE v = enc.last
  <2> DEFINE c == enc.counter + 1
  <2>1. CASE c >= MaxRun + n
    <3> DEFINE k == c - n
    <3>1. enc' = [counter |-> 0, last |-> v] /\ tokens' = tokens \o <<Run(k)>>
      BY <1>8, <2>1 DEF EncodeSymbol, Repeat
    <3>2. k \in 0 .. MaxRun /\ enc.counter >= n /\ enc.counter - n = k - 1
      BY <1>1, <2>1
    <3> HIDE DEF c, k
    <3>3. /\ s.phase = "run" /\ s.last = v /\ s.got = Len(sent) - (enc.counter - n)
          /\ \A j \in s.got + 1 .. Len(sent) : sent[j] = v
      BY <1>3, <1>8, <3>2 DEF EncoderAt
    <3>4. /\ s.got + k = Len(sent) + 1
          /\ \A j \in s.got + 1 .. s.got + k : sent'[j] = s.last
      <4>1. s.got + k = Len(sent) + 1
        BY <1>1, <1>5, <3>2, <3>3
      <4>2. ASSUME NEW j \in s.got + 1 .. s.got + k PROVE sent'[j] = s.last
        <5>1. j \in s.got + 1 .. Len(sent) \/ j = Len(sent) + 1
          BY <1>5, <3>2, <4>1, <4>2
        <5> QED BY <1>5, <3>3, <5>1
      <4> QED BY <4>1, <4>2
    <3>5. Follows(sent', s, Repeated(s, k), Run(k))
      BY <1>5, <3>2, <3>3, <3>4 DEF Follows
    <3>6. Repeated(s, k) \in Place
      BY <3>2, RepeatedPlace
    <3>7. Repeated(s, k).got <= Len(sent')
      BY <1>5, <3>4 DEF Repeated
    <3>8. Run(k) \in Token /\ tokens' = Append(tokens, Run(k))
      BY <1>1, <3>1, <3>2 DEF Token
    <3>9. Reaches(sent', tokens', Repeated(s, k))
      BY <1>1, <1>5, <1>6, <3>5, <3>6, <3>7, <3>8, ReachesNext
    <3>10. EncoderAt(sent', enc', Repeated(s, k))
      BY <1>5, <3>1, <3>3, <3>4 DEF EncoderAt, Repeated
    <3> QED BY <1>1, <3>1, <3>6, <3>8, <3>9, <3>10
  <2>2. CASE c <= n
    <3>1. enc' = [counter |-> c, last |-> v] /\ tokens' = tokens \o <<Sym(v)>>
      BY <1>1, <1>8, <2>2 DEF EncodeSymbol, Repeat
    <3>2. s.phase = "symbol" /\ s.got = Len(sent) /\ s.counter = enc.counter /\ s.last = v
      BY <1>1, <1>3, <1>8, <2>2 DEF EncoderAt
    <3>3. /\ Counted(sent', s) \in Place
          /\ Reaches(sent', Append(tokens, Sym(v)), Counted(sent', s))
          /\ Append(tokens, Sym(v)) \in Seq(Token)
      BY <1>1, <1>6, <1>7, <3>2
    <3>4. EncoderAt(sent', enc', Counted(sent', s))
      BY <1>1, <1>5, <2>2, <3>1, <3>2 DEF EncoderAt, Counted, InARow
    <3>5. tokens' = Append(tokens, Sym(v)) /\ c \in 0 .. MaxRun + n - 1
      BY <1>1, <2>2, <3>1
    <3> QED BY <3>1, <3>3, <3>4, <3>5
  <2>3. CASE n < c /\ c < MaxRun + n
    <3>1. enc' = [counter |-> c, last |-> v] /\ tokens' = tokens
      BY <1>1, <1>8, <2>3 DEF EncodeSymbol, Repeat
    <3>2. EncoderAt(sent', enc', s)
      <4>1. /\ s.phase = "run" /\ s.last = v /\ s.got = Len(sent') - (c - n)
            /\ \A j \in s.got + 1 .. Len(sent) : sent[j] = v
        BY <1>1, <1>3, <1>5, <1>8, <2>3 DEF EncoderAt
      <4>2. \A j \in s.got + 1 .. Len(sent') : sent'[j] = v
        BY <1>5, <4>1
      <4> QED BY <1>1, <2>3, <3>1, <4>1, <4>2 DEF EncoderAt
    <3>3. c \in 0 .. MaxRun + n - 1
      BY <1>1, <2>3
    <3> QED BY <1>1, <1>6, <3>1, <3>2, <3>3
  <2> QED BY <1>1, <2>1, <2>2, <2>3
<1>9. CASE v # enc.last
  <2>1. enc' = [counter |-> 1, last |-> v]
        /\ tokens' = tokens \o Append(Pending(enc.counter), Sym(v))
    BY <1>9 DEF EncodeSymbol
  <2>2. PICK r \in Place, toks \in Seq(Token) :
          /\ Reaches(sent', toks, r) /\ r.phase = "symbol" /\ r.got = Len(sent)
          /\ r.last = enc.last /\ tokens' = Append(toks, Sym(v))
    <3>1. CASE enc.counter < n
      <4>1. tokens' = Append(tokens, Sym(v))
        BY <1>1, <2>1, <3>1 DEF Pending
      <4> QED BY <1>1, <1>3, <1>6, <3>1, <4>1 DEF EncoderAt
    <3>2. CASE enc.counter >= n
      <4> DEFINE k == enc.counter - n
      <4>1. k \in 0 .. MaxRun
        BY <1>1, <3>2
      <4>2. tokens' = Append(Append(tokens, Run(k)), Sym(v))
        BY <1>1, <2>1, <3>2 DEF Pending
      <4> HIDE DEF k
      <4>3. /\ s.phase = "run" /\ s.last = enc.last /\ s.got + k = Len(sent)
            /\ \A j \in s.got + 1 .. s.got + k : sent'[j] = s.last
        <5>1. /\ s.phase = "run" /\ s.last = enc.last /\ s.got + k = Len(sent)
              /\ \A j \in s.got + 1 .. Len(sent) : sent[j] = enc.last
          BY <1>1, <1>3, <1>5, <3>2 DEF EncoderAt, k
        <5> QED BY <1>5, <5>1
      <4>4. Follows(sent', s, Repeated(s, k), Run(k))
        BY <1>5, <4>1, <4>3 DEF Follows
      <4>5. Repeated(s, k) \in Place /\ Repeated(s, k).got <= Len(sent')
        <5>1. Repeated(s, k) \in Place
          BY <4>1, RepeatedPlace
        <5> QED BY <1>5, <4>3, <5>1 DEF Repeated
      <4>6. Run(k) \in Token /\ Append(tokens, Run(k)) \in Seq(Token)
        BY <1>1, <4>1 DEF Token
      <4>7. Reaches(sent', Append(tokens, Run(k)), Repeated(s, k))
        BY <1>1, <1>5, <1>6, <4>4, <4>5, <4>6, ReachesNext
      <4>8. Repeated(s, k).phase = "symbol" /\ Repeated(s, k).got = Len(sent)
            /\ Repeated(s, k).last = enc.last
        BY <4>3 DEF Repeated
      <4> QED BY <4>2, <4>5, <4>6, <4>7, <4>8
    <3> QED BY <1>1, <3>1, <3>2
  <2>3. /\ Counted(sent', r) \in Place
        /\ Reaches(sent', tokens', Counted(sent', r))
        /\ tokens' \in Seq(Token)
    BY <1>7, <2>2
  <2>4. EncoderAt(sent', enc', Counted(sent', r))
    BY <1>1, <1>5, <1>9, <2>1, <2>2 DEF EncoderAt, Counted, InARow
  <2>5. enc' \in [counter : 0 .. MaxRun + n - 1, last : Value \cup {-1}]
    BY <2>1
  <2> QED BY <2>3, <2>4, <2>5
<1> QED BY <1>8, <1>9

\* The end: the trail leads to all of the input, and its token comes last.
LEMMA EncodeEndKeeps == RunInv /\ EncodeEnd => RunInv'
<1> SUFFICES ASSUME RunInv, EncodeEnd PROVE RunInv'
  OBVIOUS
<1> USE RunLengthAssumption DEF RunInv
<1>1. /\ sent \in Seq(Value) /\ tokens \in Seq(Token) /\ readable = -1 /\ Len(sent) \in Nat
      /\ enc \in [counter : 0 .. MaxRun + n - 1, last : Value \cup {-1}]
  BY DEF Types, EncodeEnd
<1>2. DecoderWaits
  BY <1>1 DEF Progress
<1>3. PICK s \in Place : Reaches(sent, tokens, s) /\ EncoderAt(sent, enc, s)
  BY <1>1 DEF Progress
<1>4. Sym(eofSymbol) \in Token
  BY DEF Token
<1>5. PICK r \in Place, toks \in Seq(Token) :
        /\ Reaches(sent, toks, r) /\ r.phase = "symbol" /\ r.got = Len(sent)
        /\ tokens' = Append(toks, Sym(eofSymbol))
  <2>1. CASE enc.counter < n
    <3>1. tokens' = Append(tokens, Sym(eofSymbol))
      BY <1>1, <1>4, <2>1 DEF EncodeEnd, Pending
    <3> QED BY <1>1, <1>3, <2>1, <3>1 DEF EncoderAt
  <2>2. CASE enc.counter >= n
    <3> DEFINE k == enc.counter - n
    <3>1. k \in 0 .. MaxRun
      BY <1>1, <2>2
    <3>2. Run(k) \in Token /\ Append(tokens, Run(k)) \in Seq(Token)
      BY <1>1, <3>1 DEF Token
    <3>3. tokens' = Append(Append(tokens, Run(k)), Sym(eofSymbol))
      <4>1. tokens' = tokens \o Append(Pending(enc.counter), Sym(eofSymbol))
        BY DEF EncodeEnd
      <4>2. Pending(enc.counter) = <<Run(k)>>
        BY <2>2 DEF Pending
      <4> HIDE DEF k
      <4> QED BY <1>1, <4>1, <4>2
    <3>4. /\ s.phase = "run" /\ s.got = Len(sent) - k /\ s.last = enc.last
          /\ \A j \in s.got + 1 .. Len(sent) : sent[j] = enc.last
      BY <1>3, <2>2 DEF EncoderAt
    <3> HIDE DEF k
    <3>5. s.got + k = Len(sent) /\ s.got \in Nat
      BY <1>1, <3>1, <3>4 DEF Place
    <3>6. \A j \in s.got + 1 .. s.got + k : sent[j] = s.last
      BY <3>4, <3>5
    <3>7. Follows(sent, s, Repeated(s, k), Run(k))
      BY <1>1, <3>1, <3>4, <3>5, <3>6 DEF Follows
    <3>8. Repeated(s, k) \in Place
      BY <3>1, RepeatedPlace
    <3>9. Repeated(s, k).got = Len(sent) /\ Repeated(s, k).phase = "symbol"
      BY <3>5 DEF Repeated
    <3>10. Reaches(sent, Append(tokens, Run(k)), Repeated(s, k))
      BY <1>1, <1>3, <3>2, <3>7, <3>8, <3>9, ReachesNext
    <3> QED BY <3>2, <3>3, <3>8, <3>9, <3>10
  <2> QED BY <1>1, <2>1, <2>2
<1>6. /\ tokens' \in Seq(Token) /\ Len(tokens') = Len(toks) + 1 /\ Len(toks) \in Nat
      /\ tokens'[Len(toks) + 1] = Sym(eofSymbol)
      /\ \A i \in 1 .. Len(toks) : tokens'[i] = toks[i]
      /\ readable' = Len(tokens') /\ sent' = sent
  BY <1>4, <1>5 DEF EncodeEnd
<1>7. PICK d : Trail(d, sent, toks, Len(toks)) /\ d[Len(toks)] = r
  BY <1>5 DEF Reaches
<1>8. Trail(d, sent', tokens', Len(toks))
  BY <1>6, <1>7 DEF Trail
<1>9. Ended(d)'
  BY <1>5, <1>6, <1>7, <1>8 DEF Ended
<1>10. DecoderWaits'
  BY <1>2 DEF DecoderWaits, EncodeEnd, decVars
<1>11. Decodes(d)'
  <2>1. d[0] = Beginning
    BY <1>7 DEF Trail
  <2>2. Faithful' /\ Output' = 0
    BY <1>1, <1>6, <1>10 DEF Faithful, DecoderWaits, Output
  <2>3. DecoderAt(d[pos])'
    BY <1>10, <2>1, <2>2 DEF DecoderAt, DecoderWaits, Beginning
  <2> QED BY <1>6, <1>10, <2>2, <2>3 DEF Decodes, DecoderWaits
<1>12. Types'
  <2>1. enc' \in [counter : 0 .. MaxRun + n - 1, last : Value \cup {-1}]
    <3>1. enc' = [enc EXCEPT !.counter = 0] \/ enc' = enc
      BY DEF EncodeEnd
    <3>2. 0 \in 0 .. MaxRun + n - 1
      OBVIOUS
    <3> QED BY <1>1, <3>1, <3>2
  <2>2. spare' \in BOOLEAN
    BY DEF EncodeEnd
  <2>3. readable' \in -1 .. Len(tokens')
    BY <1>6
  <2> QED BY <1>1, <1>6, <2>1, <2>2, <2>3 DEF Types, EncodeEnd, decVars
<1>13. readable' # -1
  BY <1>6
<1> QED BY <1>9, <1>11, <1>12, <1>13 DEF Progress

-------------------------------------------------------------------------------
(* The decoder, on a trail d that its steps leave alone.                      *)

\* What a step of the decoder starts from.
LEMMA DecoderBegins ==
  ASSUME RunInv, readable >= 0
  PROVE  Types /\ \E d : Ended(d) /\ Decodes(d)
  BY DEF RunInv, Progress

\* An archive that was cut is read by a decoder that has not begun.
LEMMA CutKeeps == RunInv /\ Cut => RunInv'
<1> SUFFICES ASSUME RunInv, Cut PROVE RunInv'
  OBVIOUS
<1> USE RunLengthAssumption
<1>1. Types /\ tokens \in Seq(Token) /\ Len(tokens) \in Nat /\ readable \in -1 .. Len(tokens)
  BY DEF RunInv, Types
<1>2. readable >= 0 /\ readable' \in 0 .. Len(tokens) - 1
  BY <1>1 DEF Cut
<1>3. PICK d : Ended(d) /\ Decodes(d)
  BY <1>2, DecoderBegins
<1>4. Ended(d)'
  BY <1>3 DEF Ended, Cut
<1>5. Decodes(d)'
  <2>1. Faithful'
    BY <1>3 DEF Decodes, Faithful, Output, Cut, decVars
  <2>2. DecoderAt(d[pos])'
    BY <1>3 DEF Decodes, DecoderAt, Output, Cut, decVars
  <2>3. ~ dec.eof /\ pos = 0 /\ pc = "idle" /\ UNCHANGED <<dec, pos, pc, tokens>>
    BY DEF Cut, decVars
  <2> QED BY <1>2, <2>1, <2>2, <2>3 DEF Decodes
<1>6. Types'
  <2>1. readable' \in -1 .. Len(tokens')
    BY <1>1, <1>2 DEF Cut
  <2>2. spare' \in BOOLEAN
    BY DEF Cut
  <2> QED BY <1>1, <2>1, <2>2 DEF Types, Cut, decVars
<1>7. readable' # -1
  BY <1>2
<1> QED BY <1>4, <1>5, <1>6, <1>7 DEF RunInv, Progress

\* Each token leads from the place before it to the one behind it.
LEMMA TrailNext ==
  ASSUME NEW d, NEW in, NEW toks, NEW m \in Nat, Trail(d, in, toks, m), NEW p \in 0 .. m - 1
  PROVE  Follows(in, d[p], d[p + 1], toks[p + 1])
<1>1. PICK i \in 1 .. m : i = p + 1
  OBVIOUS
<1>2. i - 1 = p
  BY <1>1
<1>3. Follows(in, d[i - 1], d[i], toks[i])
  BY DEF Trail
<1> QED BY <1>1, <1>2, <1>3

DecoderTypes ==
  /\ dec \in [counter : 0 .. n - 1, last : Value \cup {-1}, remaining : Nat, eof : BOOLEAN]
  /\ pos \in Nat /\ pc \in {"idle", "symbol", "run", "done"}
  /\ data \in Seq(Value) /\ Len(data) <= length
  /\ delivered \in Seq(Value)

\* A step of the decoder leaves the archive and its trail alone.
LEMMA DecoderEnds ==
  ASSUME RunInv, readable >= 0, UNCHANGED encVars, NEW d, Ended(d), DecoderTypes', Decodes(d)'
  PROVE  RunInv'
<1>1. Types'
  BY DEF RunInv, Types, DecoderTypes, encVars
<1>2. Ended(d)'
  BY DEF Ended, encVars
<1>3. readable' # -1
  BY DEF encVars
<1> QED BY <1>1, <1>2, <1>3 DEF RunInv, Progress

\* An array that holds the next part of the input.
NextPart(filled) ==
  /\ filled \in Seq(Value)
  /\ Len(delivered) + Len(filled) <= Len(sent)
  /\ \A j \in 1 .. Len(delivered) : delivered[j] = sent[j]
  /\ \A j \in 1 .. Len(filled) : filled[j] = sent[Len(delivered) + j]

\* What is handed to the caller is the next part of the input.
LEMMA ReturnKeeps ==
  ASSUME sent \in Seq(Value), delivered \in Seq(Value), NEW filled, NextPart(filled),
         Return(filled), UNCHANGED encVars
  PROVE  /\ Faithful' /\ Output' = Len(delivered) + Len(filled)
         /\ Len(delivered') = Len(delivered) + Len(filled)
         /\ data' = <<>> /\ delivered' \in Seq(Value)
         /\ pc' = IF filled = <<>> THEN "done" ELSE "idle"
<1>1. /\ delivered' = delivered \o filled /\ data' = <<>> /\ sent' = sent
      /\ filled \in Seq(Value) /\ Len(filled) \in Nat /\ Len(delivered) \in Nat
      /\ pc' = IF filled = <<>> THEN "done" ELSE "idle"
  BY DEF Return, NextPart, encVars
<1>2. delivered' \in Seq(Value) /\ Len(delivered') = Len(delivered) + Len(filled)
  BY <1>1
<1>3. ASSUME NEW j \in 1 .. Len(delivered') PROVE delivered'[j] = sent'[j]
  <2>1. CASE j <= Len(delivered)
    <3>1. j \in 1 .. Len(delivered) /\ delivered'[j] = delivered[j]
      BY <1>1, <1>2, <2>1
    <3> QED BY <1>1, <3>1 DEF NextPart
  <2>2. CASE j > Len(delivered)
    <3> DEFINE k == j - Len(delivered)
    <3>1. k \in 1 .. Len(filled) /\ delivered'[j] = filled[k] /\ Len(delivered) + k = j
      BY <1>1, <1>2, <2>2
    <3> HIDE DEF k
    <3>2. filled[k] = sent[Len(delivered) + k]
      BY <3>1 DEF NextPart
    <3> QED BY <1>1, <3>1, <3>2
  <2> QED BY <1>1, <1>2, <2>1, <2>2
<1>4. Len(data') = 0
  BY <1>1
<1>5. Output' = Len(delivered) + Len(filled)
  BY <1>1, <1>2, <1>4 DEF Output
<1>6. Faithful'
  BY <1>1, <1>3, <1>4, <1>5 DEF Faithful, NextPart
<1> QED BY <1>1, <1>2, <1>5, <1>6

\* The loop goes on with what it filled, or hands a full array to the caller.
LEMMA ContinueKeeps ==
  ASSUME sent \in Seq(Value), delivered \in Seq(Value), NEW filled, NextPart(filled),
         Len(filled) <= length, Continue(filled), UNCHANGED encVars
  PROVE  /\ Faithful' /\ Output' = Len(delivered) + Len(filled)
         /\ data' \in Seq(Value) /\ Len(data') <= length /\ delivered' \in Seq(Value)
         /\ \/ pc' = "symbol" /\ data' = filled /\ Len(filled) < length
            \/ pc' = "idle" /\ data' = <<>>
<1> USE RunLengthAssumption
<1>1. CASE Len(filled) < length
  <2>1. data' = filled /\ pc' = "symbol" /\ delivered' = delivered /\ sent' = sent
    BY <1>1 DEF Continue, encVars
  <2> QED BY <1>1, <2>1 DEF Faithful, Output, NextPart
<1>2. CASE ~ (Len(filled) < length)
  <2>1. Return(filled)
    BY <1>2 DEF Continue
  <2>2. filled # <<>>
    BY <1>2 DEF NextPart
  <2>3. /\ Faithful' /\ Output' = Len(delivered) + Len(filled)
        /\ data' = <<>> /\ delivered' \in Seq(Value) /\ pc' = "idle"
    BY <2>1, <2>2, ReturnKeeps
  <2>4. data' \in Seq(Value) /\ Len(data') <= length
    BY <2>3
  <2> QED BY <2>3, <2>4
<1> QED BY <1>1, <1>2

\* The end of the decoder's input, whole only when nothing was missing.
LEMMA StopKeeps ==
  ASSUME RunInv, readable >= 0, NEW d, Ended(d), Decodes(d), Stop, UNCHANGED encVars,
         pos' \in Nat, readable = Len(tokens) => Output = Len(sent)
  PROVE  RunInv'
<1>1. sent \in Seq(Value) /\ delivered \in Seq(Value) /\ data \in Seq(Value)
  BY DEF RunInv, Types
<1>2. NextPart(data)
  BY <1>1 DEF Decodes, Faithful, NextPart, Output
<1>3. /\ Faithful' /\ Len(delivered') = Output
      /\ data' = <<>> /\ delivered' \in Seq(Value) /\ pc' \in {"idle", "done"}
  BY <1>1, <1>2, ReturnKeeps DEF Stop, Output
<1>4. dec' \in [counter : 0 .. n - 1, last : Value \cup {-1}, remaining : Nat, eof : BOOLEAN]
      /\ dec'.eof
  BY DEF RunInv, Types, Stop
<1>5. data' \in Seq(Value) /\ Len(data') <= length
  BY <1>3, RunLengthAssumption
<1>6. DecoderTypes'
  BY <1>3, <1>4, <1>5 DEF DecoderTypes
<1>7. Decodes(d)'
  BY <1>3, <1>4 DEF Decodes, encVars
<1> QED BY <1>6, <1>7, DecoderEnds

\* A call begins with what is left of a run.
LEMMA CallKeeps == RunInv /\ Call => RunInv'
<1> SUFFICES ASSUME RunInv, Call PROVE RunInv'
  OBVIOUS
<1> USE RunLengthAssumption
<1>1. /\ readable >= 0 /\ pc = "idle" /\ ~ dec.eof /\ pos' = pos /\ UNCHANGED encVars
  BY DEF Call
<1>2. PICK d : Ended(d) /\ Decodes(d)
  BY <1>1, DecoderBegins
<1>3. /\ sent \in Seq(Value) /\ delivered \in Seq(Value) /\ Len(delivered) \in Nat
      /\ dec \in [counter : 0 .. n - 1, last : Value \cup {-1}, remaining : Nat, eof : BOOLEAN]
      /\ pos \in Nat /\ Len(sent) \in Nat
  BY DEF RunInv, Types
<1>0. PICK s : s = d[pos]
  OBVIOUS
<1>4. /\ Faithful /\ pos <= Len(tokens) - 1 /\ pos <= readable
      /\ data = <<>> /\ Output = Len(delivered)
      /\ s.phase = "symbol" /\ s.got = Len(delivered) + dec.remaining
      /\ s.counter = dec.counter /\ s.last = dec.last
      /\ \A j \in Len(delivered) + 1 .. s.got : sent[j] = dec.last
  BY <1>0, <1>1, <1>2, <1>3 DEF Decodes, DecoderAt, Output
<1>5. s.got <= Len(sent)
  <2>1. Trail(d, sent, tokens, Len(tokens) - 1) /\ pos \in 0 .. Len(tokens) - 1
    BY <1>2, <1>3, <1>4 DEF Ended
  <2> QED BY <1>0, <2>1 DEF Trail
<1> DEFINE copied == IF dec.remaining < length THEN dec.remaining ELSE length
           filled == [j \in 1 .. copied |-> dec.last]
<1>6. copied \in Nat /\ copied <= length /\ copied <= dec.remaining
  BY <1>3
<1>7. dec' = [dec EXCEPT !.remaining = @ - copied] /\ Continue(filled)
  BY DEF Call
<1>8. copied < length => copied = dec.remaining
  BY <1>3
<1> HIDE DEF copied
<1>9. \A j \in 1 .. copied : filled[j] = sent[Len(delivered) + j]
  <2> SUFFICES ASSUME NEW j \in 1 .. copied PROVE dec.last = sent[Len(delivered) + j]
    OBVIOUS
  <2>1. Len(delivered) + j \in Len(delivered) + 1 .. s.got
    BY <1>3, <1>4, <1>6
  <2> QED BY <1>4, <2>1
<1>10. filled \in Seq(Value) /\ Len(filled) = copied
  <2>1. ASSUME NEW j \in 1 .. copied PROVE filled[j] \in Value
    <3>1. Len(delivered) + j \in 1 .. Len(sent)
      BY <1>3, <1>4, <1>5, <1>6
    <3>2. sent[Len(delivered) + j] \in Value
      BY <1>3, <3>1
    <3> QED BY <1>9, <3>2
  <2>2. filled \in [1 .. copied -> Value]
    BY <2>1
  <2> QED BY <1>6, <2>2
<1> HIDE DEF filled
<1>11. NextPart(filled)
  <2>1. Len(delivered) + Len(filled) <= Len(sent)
    BY <1>3, <1>4, <1>5, <1>6, <1>10
  <2> QED BY <1>4, <1>9, <1>10, <2>1 DEF NextPart, Faithful
<1>12. /\ Faithful' /\ Output' = Len(delivered) + copied
       /\ data' \in Seq(Value) /\ Len(data') <= length /\ delivered' \in Seq(Value)
       /\ \/ pc' = "symbol" /\ data' = filled /\ copied < length
          \/ pc' = "idle" /\ data' = <<>>
  BY <1>1, <1>3, <1>6, <1>7, <1>10, <1>11, ContinueKeeps
<1>13. /\ dec' \in [counter : 0 .. n - 1, last : Value \cup {-1}, remaining : Nat, eof : BOOLEAN]
       /\ dec'.remaining = dec.remaining - copied /\ dec'.counter = dec.counter
       /\ dec'.last = dec.last /\ ~ dec'.eof
  <2>1. dec.remaining - copied \in Nat
    BY <1>3, <1>6
  <2>2. dec' = [dec EXCEPT !.remaining = dec.remaining - copied]
    BY <1>7
  <2> QED BY <1>1, <1>3, <2>1, <2>2
<1>14. DecoderTypes'
  BY <1>1, <1>3, <1>12, <1>13 DEF DecoderTypes
<1>15. DecoderAt(s)'
  <2>1. s.got = Output' + dec'.remaining
    BY <1>3, <1>4, <1>6, <1>12, <1>13
  <2>2. \A j \in Output' + 1 .. s.got : sent'[j] = dec'.last
    BY <1>1, <1>3, <1>4, <1>6, <1>12, <1>13 DEF encVars
  <2>3. pc' = "symbol" => dec'.remaining = 0 /\ Len(data') < length
    BY <1>3, <1>8, <1>10, <1>12, <1>13
  <2>4. pc' # "run" /\ (pc' = "idle" => data' = <<>>)
    BY <1>12
  <2> QED BY <1>4, <1>13, <2>1, <2>2, <2>3, <2>4 DEF DecoderAt
<1>16. Decodes(d)'
  <2>1. pos' <= Len(tokens') - 1 /\ pos' <= readable' /\ pc' # "done"
    BY <1>1, <1>4, <1>12 DEF encVars
  <2>2. DecoderAt(d[pos])'
    BY <1>0, <1>1, <1>15
  <2> QED BY <1>12, <1>13, <2>1, <2>2 DEF Decodes
<1> QED BY <1>1, <1>2, <1>14, <1>16, DecoderEnds

\* A call after the end gives nothing.
LEMMA CallAfterEofKeeps == RunInv /\ CallAfterEof => RunInv'
<1> SUFFICES ASSUME RunInv, CallAfterEof PROVE RunInv'
  OBVIOUS
<1>1. /\ pc = "idle" /\ dec.eof /\ Return(<<>>) /\ dec' = dec /\ pos' = pos
      /\ UNCHANGED encVars
  BY DEF CallAfterEof
<1>2. readable >= 0
  <2>1. readable # -1
    BY <1>1 DEF RunInv, Progress, DecoderWaits
  <2> QED BY <2>1 DEF RunInv, Types
<1>3. PICK d : Ended(d) /\ Decodes(d)
  BY <1>2, DecoderBegins
<1>4. /\ Types /\ sent \in Seq(Value) /\ delivered \in Seq(Value) /\ Len(delivered) \in Nat
  BY DEF RunInv, Types
<1>5. NextPart(<<>>) /\ data = <<>>
  BY <1>1, <1>3, <1>4 DEF Decodes, Faithful, Output, NextPart
<1>6. /\ Faithful' /\ Len(delivered') = Len(delivered) + Len(<<>>)
      /\ data' = <<>> /\ delivered' \in Seq(Value) /\ pc' = "done"
  BY <1>1, <1>4, <1>5, ReturnKeeps
<1>7. data' \in Seq(Value) /\ Len(data') <= length
  BY <1>6, RunLengthAssumption
<1>8. DecoderTypes'
  BY <1>1, <1>4, <1>6, <1>7 DEF DecoderTypes, Types
<1>9. Decodes(d)'
  <2>1. Len(delivered') = Len(delivered)
    BY <1>4, <1>6
  <2> QED BY <1>1, <1>3, <1>6, <2>1 DEF Decodes, encVars
<1> QED BY <1>1, <1>2, <1>3, <1>8, <1>9, DecoderEnds

\* A token of ah: the place behind it is the decoder's next one.
LEMMA DecodeSymbolKeeps == RunInv /\ DecodeSymbol => RunInv'
<1> SUFFICES ASSUME RunInv, DecodeSymbol PROVE RunInv'
  OBVIOUS
<1> USE RunLengthAssumption
<1>1. pc = "symbol" /\ UNCHANGED encVars
  BY DEF DecodeSymbol
<1>2. readable >= 0
  <2>1. readable # -1
    BY <1>1 DEF RunInv, Progress, DecoderWaits
  <2> QED BY <2>1 DEF RunInv, Types
<1>3. PICK d : Ended(d) /\ Decodes(d)
  BY <1>2, DecoderBegins
<1>4. /\ sent \in Seq(Value) /\ delivered \in Seq(Value) /\ data \in Seq(Value)
      /\ Len(delivered) \in Nat /\ Len(data) \in Nat /\ Len(sent) \in Nat /\ Len(tokens) \in Nat
      /\ dec \in [counter : 0 .. n - 1, last : Value \cup {-1}, remaining : Nat, eof : BOOLEAN]
      /\ pos \in Nat /\ readable \in 0 .. Len(tokens)
  BY <1>2 DEF RunInv, Types
<1>5. PICK s : s = d[pos]
  OBVIOUS
<1>6. /\ Faithful /\ ~ dec.eof /\ pos <= Len(tokens) - 1 /\ pos <= readable
      /\ s.phase = "symbol" /\ s.got = Output
      /\ s.counter = dec.counter /\ s.last = dec.last
      /\ dec.remaining = 0 /\ Len(data) < length
  BY <1>1, <1>3, <1>4, <1>5 DEF Decodes, DecoderAt, Output
<1> DEFINE num == tokens[pos + 1].value
           remaining == pos + 1 < readable \/ spare
<1>7. CASE NoToken
  <2>1. Stop /\ pos' = pos
    BY <1>7 DEF DecodeSymbol
  <2>2. readable # Len(tokens)
    BY <1>4, <1>6, <1>7 DEF NoToken
  <2> QED BY <1>1, <1>2, <1>3, <1>4, <2>1, <2>2, StopKeeps
<1>8. CASE ~ NoToken
  <2>1. pos' = pos + 1 /\ SymbolRead(num, remaining) /\ pos + 1 <= readable
    BY <1>4, <1>8 DEF DecodeSymbol, NoToken
  <2>2. CASE pos = Len(tokens) - 1
    <3>1. num = eofSymbol
      BY <1>3, <2>2 DEF Ended, Sym
    <3>2. Stop
      BY <2>1, <3>1 DEF SymbolRead
    <3>3. Output = Len(sent)
      BY <1>3, <1>5, <1>6, <2>2 DEF Ended
    <3> QED BY <1>1, <1>2, <1>3, <1>4, <2>1, <3>2, <3>3, StopKeeps
  <2>3. CASE pos < Len(tokens) - 1
    <3>1. PICK t : t = d[pos + 1]
      OBVIOUS
    <3>2. Follows(sent, s, t, tokens[pos + 1]) /\ t.got <= Len(sent) /\ s \in Place
      <4>1. /\ Trail(d, sent, tokens, Len(tokens) - 1)
            /\ pos + 1 \in 1 .. Len(tokens) - 1 /\ pos \in 0 .. Len(tokens) - 1
        BY <1>3, <1>4, <2>3 DEF Ended
      <4> QED BY <1>5, <3>1, <4>1 DEF Trail
    <3>3. /\ s.got < Len(sent) /\ num = sent[s.got + 1] /\ t = Counted(sent, s)
      BY <1>6, <3>2 DEF Follows, Sym
    <3>4. num \in Value /\ num # eofSymbol
      BY <1>4, <1>6, <3>3 DEF Output
    <3> DEFINE filled == Append(data, num)
               counter == IF num = dec.last THEN dec.counter + 1 ELSE 1
    <3>5. /\ filled \in Seq(Value) /\ Len(filled) = Len(data) + 1 /\ filled[Len(filled)] = num
          /\ Len(filled) <= length
          /\ \A j \in 1 .. Len(data) : filled[j] = data[j]
      BY <1>4, <1>6, <3>4
    <3>6. NextPart(filled)
      BY <1>4, <1>6, <3>3, <3>5 DEF NextPart, Faithful, Output
    <3>7. counter = InARow(sent, s) /\ counter \in 1 .. n
      BY <1>4, <1>6, <3>3 DEF InARow
    <3>8. pos' \in Nat /\ pos' <= Len(tokens') - 1 /\ pos' <= readable' /\ d[pos'] = t
      BY <1>1, <1>4, <2>1, <2>3, <3>1 DEF encVars
    <3> HIDE DEF filled, counter
    <3>9. CASE ~ (num # eofSymbol /\ remaining)
      <4>1. Stop
        BY <2>1, <3>9 DEF SymbolRead
      <4>2. readable # Len(tokens)
        BY <1>4, <2>3, <3>4, <3>9
      <4> QED BY <1>1, <1>2, <1>3, <3>8, <4>1, <4>2, StopKeeps
    <3>10. CASE /\ counter < n /\ dec' = [dec EXCEPT !.counter = counter, !.last = num]
                /\ Continue(filled)
      <4>1. /\ Faithful' /\ Output' = Output + 1
            /\ data' \in Seq(Value) /\ Len(data') <= length /\ delivered' \in Seq(Value)
            /\ \/ pc' = "symbol" /\ data' = filled /\ Len(filled) < length
               \/ pc' = "idle" /\ data' = <<>>
        <5>1. Len(delivered) + Len(filled) = Output + 1
          BY <1>4, <3>5 DEF Output
        <5> QED BY <1>1, <1>4, <3>5, <3>6, <3>10, <5>1, ContinueKeeps
      <4>2. /\ dec' \in [counter : 0 .. n - 1, last : Value \cup {-1}, remaining : Nat, eof : BOOLEAN]
            /\ dec'.counter = counter /\ dec'.last = num /\ dec'.remaining = 0 /\ ~ dec'.eof
        <5>1. counter \in 0 .. n - 1
          BY <3>7, <3>10
        <5> QED BY <1>4, <1>6, <3>4, <3>10, <5>1
      <4>3. DecoderTypes'
        BY <3>8, <4>1, <4>2 DEF DecoderTypes
      <4>4. t.phase = "symbol" /\ t.got = Output + 1 /\ t.counter = counter /\ t.last = num
        BY <1>6, <3>3, <3>7, <3>10 DEF Counted
      <4>5. DecoderAt(t)'
        BY <1>4, <4>1, <4>2, <4>4 DEF DecoderAt, Output
      <4>6. Decodes(d)'
        BY <3>8, <4>1, <4>2, <4>5 DEF Decodes
      <4> QED BY <1>1, <1>2, <1>3, <4>3, <4>6, DecoderEnds
    <3>11. CASE /\ counter >= n /\ dec' = [dec EXCEPT !.counter = 0]
                /\ data' = filled /\ pc' = "run" /\ delivered' = delivered
      <4>1. /\ dec' \in [counter : 0 .. n - 1, last : Value \cup {-1}, remaining : Nat, eof : BOOLEAN]
            /\ dec'.counter = 0 /\ dec'.remaining = 0 /\ ~ dec'.eof
        <5>1. 0 \in 0 .. n - 1
          OBVIOUS
        <5> QED BY <1>4, <1>6, <3>11, <5>1
      <4>2. DecoderTypes'
        BY <1>4, <3>5, <3>8, <3>11, <4>1 DEF DecoderTypes
      <4>3. Faithful' /\ Output' = Output + 1
        <5>1. Output' = Output + 1
          <6>1. Len(delivered') = Len(delivered) /\ Len(data') = Len(data) + 1
            BY <3>5, <3>11
          <6> QED BY <1>4, <6>1 DEF Output
        <5> QED BY <1>1, <3>6, <3>11, <5>1 DEF Faithful, NextPart, encVars, Output
      <4>4. t.phase = "run" /\ t.got = Output + 1 /\ t.last = num
        BY <1>6, <3>3, <3>7, <3>11 DEF Counted
      <4>5. data' # <<>> /\ data'[Len(data')] = num
        <5>1. data' = filled
          BY <3>11
        <5>2. Len(filled) # 0
          <6>1. Len(data) \in Nat
            BY <1>4
          <6> QED BY <3>5, <6>1
        <5>3. filled # <<>> /\ filled[Len(filled)] = num
          BY <3>5, <5>2
        <5> QED BY <5>1, <5>3
      <4>6. DecoderAt(t)'
        BY <3>11, <4>1, <4>3, <4>4, <4>5 DEF DecoderAt
      <4>7. Decodes(d)'
        BY <3>8, <3>11, <4>1, <4>3, <4>6 DEF Decodes
      <4> QED BY <1>1, <1>2, <1>3, <4>2, <4>7, DecoderEnds
    <3> QED BY <2>1, <3>9, <3>10, <3>11 DEF SymbolRead, filled, counter
  <2> QED BY <1>4, <1>6, <2>2, <2>3
<1> QED BY <1>7, <1>8

\* A token of ahrle: copies of the last symbol, some perhaps for later calls.
LEMMA DecodeRunKeeps == RunInv /\ DecodeRun => RunInv'
<1> SUFFICES ASSUME RunInv, DecodeRun PROVE RunInv'
  OBVIOUS
<1> USE RunLengthAssumption
<1>1. pc = "run" /\ UNCHANGED encVars
  BY DEF DecodeRun
<1>2. readable >= 0
  <2>1. readable # -1
    BY <1>1 DEF RunInv, Progress, DecoderWaits
  <2> QED BY <2>1 DEF RunInv, Types
<1>3. PICK d : Ended(d) /\ Decodes(d)
  BY <1>2, DecoderBegins
<1>4. /\ sent \in Seq(Value) /\ delivered \in Seq(Value) /\ data \in Seq(Value)
      /\ Len(delivered) \in Nat /\ Len(data) \in Nat /\ Len(sent) \in Nat /\ Len(tokens) \in Nat
      /\ dec \in [counter : 0 .. n - 1, last : Value \cup {-1}, remaining : Nat, eof : BOOLEAN]
      /\ pos \in Nat /\ readable \in 0 .. Len(tokens) /\ Len(data) <= length
  BY <1>2 DEF RunInv, Types
<1>5. PICK s : s = d[pos]
  OBVIOUS
<1>6. /\ Faithful /\ ~ dec.eof /\ pos <= Len(tokens) - 1 /\ pos <= readable
      /\ s.phase = "run" /\ s.got = Output /\ data # <<>> /\ data[Len(data)] = s.last
      /\ dec.counter = 0 /\ dec.remaining = 0
  BY <1>1, <1>3, <1>4, <1>5 DEF Decodes, DecoderAt
<1>7. pos < Len(tokens) - 1
  <2>1. pos # Len(tokens) - 1
    BY <1>3, <1>5, <1>6 DEF Ended
  <2> QED BY <1>4, <1>6, <2>1
<1>8. CASE NoToken
  <2>1. Stop /\ pos' = pos
    BY <1>8 DEF DecodeRun
  <2>2. readable # Len(tokens)
    BY <1>4, <1>7, <1>8 DEF NoToken
  <2> QED BY <1>1, <1>2, <1>3, <1>4, <2>1, <2>2, StopKeeps
<1>9. CASE ~ NoToken
  <2>1. pos' = pos + 1 /\ RunRead(tokens[pos + 1].value) /\ pos + 1 <= readable
    BY <1>4, <1>9 DEF DecodeRun, NoToken
  <2>2. PICK t : t = d[pos + 1]
    OBVIOUS
  <2>3. Follows(sent, s, t, tokens[pos + 1])
    <3>1. /\ Trail(d, sent, tokens, Len(tokens) - 1)
          /\ Len(tokens) - 1 \in Nat /\ pos \in 0 .. Len(tokens) - 1 - 1
      BY <1>3, <1>4, <1>7 DEF Ended
    <3>2. Follows(sent, d[pos], d[pos + 1], tokens[pos + 1])
      BY <3>1, TrailNext
    <3> QED BY <1>5, <2>2, <3>1, <3>2
  <2>4. PICK k \in 0 .. MaxRun :
          /\ tokens[pos + 1] = Run(k) /\ t = Repeated(s, k) /\ s.got + k <= Len(sent)
          /\ \A j \in s.got + 1 .. s.got + k : sent[j] = s.last
    BY <1>6, <2>3 DEF Follows
  <2> DEFINE num == data[Len(data)]
             room == length - Len(data)
             copied == IF k <= room THEN k ELSE room
             filled == data \o [j \in 1 .. copied |-> num]
  <2>5. dec' = [dec EXCEPT !.last = num, !.remaining = k - copied] /\ Continue(filled)
    BY <2>1, <2>4 DEF RunRead, Run
  <2>6. num \in Value /\ num = s.last
    BY <1>4, <1>6
  <2>7. /\ copied \in Nat /\ copied <= k /\ Len(data) + copied <= length
        /\ Len(data) + copied < length => copied = k
    BY <1>4, <2>4
  <2> HIDE DEF copied, num
  <2>8. /\ filled \in Seq(Value) /\ Len(filled) = Len(data) + copied
        /\ \A j \in 1 .. Len(filled) : filled[j] = IF j <= Len(data) THEN data[j] ELSE num
    <3>1. [j \in 1 .. copied |-> num] \in Seq(Value) /\ Len([j \in 1 .. copied |-> num]) = copied
      <4>1. [j \in 1 .. copied |-> num] \in [1 .. copied -> Value]
        BY <2>6
      <4> QED BY <2>7, <4>1
    <3> QED BY <1>4, <2>7, <3>1
  <2> HIDE DEF filled
  <2>9. NextPart(filled)
    <3>1. Len(delivered) + Len(filled) <= Len(sent)
      BY <1>4, <1>6, <2>4, <2>7, <2>8 DEF Output
    <3>2. ASSUME NEW j \in 1 .. Len(filled) PROVE filled[j] = sent[Len(delivered) + j]
      <4>1. CASE j <= Len(data)
        BY <1>4, <1>6, <2>8, <4>1 DEF Faithful
      <4>2. CASE j > Len(data)
        <5>1. Len(delivered) + j \in s.got + 1 .. s.got + k
          BY <1>4, <1>6, <2>4, <2>7, <2>8, <4>2 DEF Output
        <5> QED BY <2>4, <2>6, <2>8, <4>2, <5>1
      <4> QED BY <1>4, <2>8, <4>1, <4>2
    <3> QED BY <1>6, <2>8, <3>1, <3>2 DEF NextPart, Faithful
  <2>10. /\ Faithful' /\ Output' = Output + copied
         /\ data' \in Seq(Value) /\ Len(data') <= length /\ delivered' \in Seq(Value)
         /\ \/ pc' = "symbol" /\ data' = filled /\ Len(filled) < length
            \/ pc' = "idle" /\ data' = <<>>
    <3>1. Len(delivered) + Len(filled) = Output + copied /\ Len(filled) <= length
      BY <1>4, <2>7, <2>8 DEF Output
    <3> QED BY <1>1, <1>4, <2>5, <2>9, <3>1, ContinueKeeps
  <2>11. /\ dec' \in [counter : 0 .. n - 1, last : Value \cup {-1}, remaining : Nat, eof : BOOLEAN]
         /\ dec'.counter = 0 /\ dec'.last = num /\ dec'.remaining = k - copied /\ ~ dec'.eof
    <3>1. k - copied \in Nat
      BY <2>4, <2>7
    <3> QED BY <1>4, <1>6, <2>5, <2>6, <3>1
  <2>12. pos' \in Nat /\ pos' <= Len(tokens') - 1 /\ pos' <= readable' /\ d[pos'] = t
    BY <1>1, <1>4, <1>7, <2>1, <2>2 DEF encVars
  <2>13. DecoderTypes'
    BY <2>10, <2>11, <2>12 DEF DecoderTypes
  <2>14. t.phase = "symbol" /\ t.got = Output + k /\ t.counter = 0 /\ t.last = num
    BY <1>6, <2>4, <2>6 DEF Repeated
  <2>15. DecoderAt(t)'
    <3>1. t.got = Output' + dec'.remaining
      <4>1. Output \in Nat
        BY <1>4 DEF Output
      <4> QED BY <2>4, <2>7, <2>10, <2>11, <2>14, <4>1
    <3>2. \A j \in Output' + 1 .. t.got : sent'[j] = dec'.last
      BY <1>1, <1>4, <1>6, <2>4, <2>6, <2>7, <2>10, <2>11, <2>14 DEF Output, encVars
    <3>3. pc' = "symbol" => dec'.remaining = 0 /\ Len(data') < length
      BY <2>4, <2>7, <2>8, <2>10, <2>11
    <3> QED BY <2>10, <2>11, <2>14, <3>1, <3>2, <3>3 DEF DecoderAt
  <2>16. Decodes(d)'
    BY <2>10, <2>11, <2>12, <2>15 DEF Decodes
  <2> QED BY <1>1, <1>2, <1>3, <2>13, <2>16, DecoderEnds
<1> QED BY <1>8, <1>9

-------------------------------------------------------------------------------
(* The theorems.                                                              *)

\* Every step keeps the invariant.
LEMMA RunInvStep == RunInv /\ [Next]_vars => RunInv'
<1> SUFFICES ASSUME RunInv, [Next]_vars PROVE RunInv'
  OBVIOUS
<1>1. CASE Encoding
  BY <1>1, EncodeSymbolKeeps, EncodeEndKeeps DEF Encoding
<1>2. CASE Cut
  BY <1>2, CutKeeps
<1>3. CASE Decoding
  BY <1>3, CallKeeps, CallAfterEofKeeps, DecodeSymbolKeeps, DecodeRunKeeps DEF Decoding
<1>4. CASE UNCHANGED vars
  <2>1. Types'
    BY <1>4 DEF RunInv, Types, vars
  <2>2. CASE readable = -1
    <3>1. DecoderWaits' /\ readable' = -1 /\ UNCHANGED <<sent, tokens, enc>>
      BY <1>4, <2>2 DEF RunInv, Progress, DecoderWaits, vars
    <3> QED BY <2>1, <2>2, <3>1 DEF RunInv, Progress
  <2>3. CASE readable # -1
    <3>1. PICK d : Ended(d) /\ Decodes(d)
      BY <2>3 DEF RunInv, Progress
    <3>2. Ended(d)'
      BY <1>4, <3>1 DEF Ended, vars
    <3>3. Faithful'
      BY <1>4, <3>1 DEF Decodes, Faithful, Output, vars
    <3>4. DecoderAt(d[pos]) => DecoderAt(d[pos])'
      BY <1>4 DEF DecoderAt, Output, vars
    <3>5. Decodes(d)'
      BY <1>4, <3>1, <3>3, <3>4 DEF Decodes, vars
    <3>6. readable' # -1
      BY <1>4, <2>3 DEF vars
    <3> QED BY <2>1, <3>2, <3>5, <3>6 DEF RunInv, Progress
  <2> QED BY <2>2, <2>3
<1> QED BY <1>1, <1>2, <1>3, <1>4 DEF Next

\* So it always holds.
LEMMA RunInvAlways == Spec => []RunInv
<1>1. Init => RunInv
  BY RunInvInit
<1>2. RunInv /\ [Next]_vars => RunInv'
  BY RunInvStep
<1> QED BY <1>1, <1>2, PTL DEF Spec

\* A token never leaves the alphabet of the coder it is for, and the decoder's
\* counters and arrays keep their bounds, whatever is encoded and wherever the
\* archive is cut.
THEOREM TypeCorrect == Spec => []TypeOK
<1>1. RunInv => TypeOK
  <2> SUFFICES ASSUME Types PROVE TypeOK
    BY DEF RunInv
  <2>1. ToSet(tokens) \subseteq Token
    BY DEF ToSet, Types
  <2> QED BY <2>1 DEF Types, TypeOK, Token
<1> QED BY <1>1, RunInvAlways, PTL

\* The place of the next token, also of one that is cut, says which coder wrote it.
LEMMA NextCoder ==
  ASSUME RunInv, readable >= 0, pos <= Len(tokens) - 1, pc \in {"symbol", "run"}
  PROVE  tokens[pos + 1].coder = IF pc = "symbol" THEN "ah" ELSE "ahrle"
<1>1. pos \in Nat /\ Len(tokens) \in Nat
  BY DEF RunInv, Types
<1>2. PICK d : Ended(d) /\ Decodes(d)
  BY DecoderBegins
<1>3. PICK s : s = d[pos]
  OBVIOUS
<1>4. s.phase = pc
  <2>1. DecoderAt(d[pos])
    BY <1>2 DEF Decodes
  <2> QED BY <1>3, <2>1 DEF DecoderAt
<1>5. CASE pos = Len(tokens) - 1
  <2>1. s.phase = "symbol" /\ tokens[pos + 1] = Sym(eofSymbol)
    BY <1>2, <1>3, <1>5 DEF Ended
  <2> QED BY <1>4, <2>1 DEF Sym
<1>6. CASE pos < Len(tokens) - 1
  <2>1. /\ Trail(d, sent, tokens, Len(tokens) - 1)
        /\ Len(tokens) - 1 \in Nat /\ pos \in 0 .. Len(tokens) - 1 - 1
    BY <1>1, <1>2, <1>6 DEF Ended
  <2>2. Follows(sent, d[pos], d[pos + 1], tokens[pos + 1])
    BY <2>1, TrailNext
  <2>3. \/ s.phase = "symbol" /\ \E v : tokens[pos + 1] = Sym(v)
        \/ s.phase = "run" /\ \E k : tokens[pos + 1] = Run(k)
    BY <1>3, <2>2 DEF Follows
  <2>4. CASE s.phase = "symbol"
    <3>1. PICK v : tokens[pos + 1] = Sym(v)
      BY <2>3, <2>4
    <3> QED BY <1>4, <2>4, <3>1 DEF Sym
  <2>5. CASE s.phase = "run"
    <3>1. PICK k : tokens[pos + 1] = Run(k)
      BY <2>3, <2>5
    <3> QED BY <1>4, <2>5, <3>1 DEF Run
  <2> QED BY <2>3, <2>4, <2>5
<1> QED BY <1>1, <1>5, <1>6

\* The decoder asks each token of the coder that wrote it.
THEOREM CoderAgreesCorrect == Spec => []CoderAgrees
<1>1. RunInv => CoderAgrees
  <2> SUFFICES ASSUME RunInv, pos < readable, pc \in {"symbol", "run"}
               PROVE  tokens[pos + 1].coder = IF pc = "symbol" THEN "ah" ELSE "ahrle"
    BY DEF CoderAgrees
  <2>1. pos \in Nat /\ Len(tokens) \in Nat /\ readable \in -1 .. Len(tokens)
    BY DEF RunInv, Types
  <2>2. readable >= 0 /\ pos <= Len(tokens) - 1
    BY <2>1
  <2> QED BY <2>2, NextCoder
<1> QED BY <1>1, RunInvAlways, PTL

\* The output is the input as far as it goes, from a cut archive too, and all
\* of it when the decoder stops on a whole one.
THEOREM OutputInOrderCorrect == Spec => []OutputInOrder
<1>1. RunInv => OutputInOrder
  <2> SUFFICES ASSUME RunInv PROVE OutputInOrder
    OBVIOUS
  <2>1. /\ sent \in Seq(Value) /\ delivered \in Seq(Value) /\ data \in Seq(Value)
        /\ Len(delivered) \in Nat /\ Len(data) \in Nat /\ Len(sent) \in Nat
    BY DEF RunInv, Types
  <2>2. Faithful
    BY <2>1 DEF RunInv, Progress, DecoderWaits, Decodes, Faithful, Output
  <2>3. IsPrefix(delivered \o data, sent)
    <3> DEFINE out == delivered \o data
    <3>1. out \in Seq(Value) /\ Len(out) = Output /\ Len(out) \in Nat
      BY <2>1 DEF Output
    <3>2. ASSUME NEW j \in 1 .. Len(out) PROVE out[j] = sent[j]
      <4>1. CASE j <= Len(delivered)
        BY <2>1, <2>2, <4>1 DEF Faithful
      <4>2. CASE j > Len(delivered)
        <5>1. j - Len(delivered) \in 1 .. Len(data) /\ out[j] = data[j - Len(delivered)]
          BY <2>1, <3>1, <4>2 DEF Output
        <5>2. data[j - Len(delivered)] = sent[Len(delivered) + (j - Len(delivered))]
          BY <2>2, <5>1 DEF Faithful
        <5> QED BY <2>1, <3>1, <5>1, <5>2
      <4> QED BY <2>1, <3>1, <4>1, <4>2
    <3> HIDE DEF out
    <3>3. Len(out) <= Len(sent)
      BY <2>2, <3>1 DEF Faithful
    <3>4. SubSeq(out, 1, Len(out)) = SubSeq(sent, 1, Len(out))
      BY <2>1, <3>1, <3>2, <3>3
    <3> QED BY <3>3, <3>4 DEF IsPrefix, out
  <2>4. ASSUME pc = "done", readable = Len(tokens) PROVE delivered = sent
    <3>1. readable # -1
      BY <2>4 DEF RunInv, Types
    <3>2. PICK d : Decodes(d)
      BY <3>1 DEF RunInv, Progress
    <3>3. Len(delivered) = Len(sent)
      BY <2>4, <3>2 DEF Decodes
    <3>4. \A j \in 1 .. Len(sent) : delivered[j] = sent[j]
      BY <2>2, <3>3 DEF Faithful
    <3> QED BY <2>1, <3>3, <3>4
  <2> QED BY <2>3, <2>4 DEF OutputInOrder
<1> QED BY <1>1, RunInvAlways, PTL

-------------------------------------------------------------------------------
(* The two coders.  What AdaptiveHuffman_proofs says of coders does not      *)
(* depend on its state, for which anything may stand.                        *)

AhP == INSTANCE AdaptiveHuffman_proofs
  WITH alphabet_size <- eofSymbol + 1, eof_symbol <- eofSymbol, MAX_ALPHA_SIZE <- eofSymbol + 1,
       Paddings <- {}, MaxSymbols <- 0, MaxLag <- 0,
       enc <- eah, dec <- dah, pending <- <<>>, archive <- "open", output <- -1, eof <- FALSE

AhrleP == INSTANCE AdaptiveHuffman_proofs
  WITH alphabet_size <- MaxRun + 1, eof_symbol <- MaxRun, MAX_ALPHA_SIZE <- MaxRun + 1,
       Paddings <- {}, MaxSymbols <- 0, MaxLag <- 0,
       enc <- eahrle, dec <- dahrle, pending <- <<>>, archive <- "open", output <- -1, eof <- FALSE

\* The alphabets are as its theorems suppose.
LEMMA AlphabetsFit ==
  /\ AhP!AlphabetAssumption /\ AhP!HuffmanAssumption
  /\ AhrleP!AlphabetAssumption /\ AhrleP!HuffmanAssumption
BY RunLengthAssumption DEF AhP!AlphabetAssumption, AhP!HuffmanAssumption, AhP!Symbols,
  AhrleP!AlphabetAssumption, AhrleP!HuffmanAssumption, AhrleP!Symbols

(* The operators are the same whichever way they are reached. *)

\* An update of the tree, for ah.
LEMMA SameUpdateAh ==
  ASSUME NEW h, NEW s
  PROVE  AH!update_tree(h, s) = AhP!update_tree(h, s)
BY DEF AH!update_tree, AhP!update_tree, AH!Nodes, AhP!Nodes, AH!NewNode, AhP!NewNode, AH!NIL,
       AhP!NIL, AH!NYT, AhP!NYT, AH!Symbols, AhP!Symbols, AH!invalidate_cache,
       AhP!invalidate_cache, AH!NoCode, AhP!NoCode, AH!Seen, AhP!Seen, AH!Split, AhP!Split,
       AH!slide_and_increment, AhP!slide_and_increment, AH!Walk, AhP!Walk, AH!Climb, AhP!Climb,
       AH!get_block_leader, AhP!get_block_leader, AH!MaySwap, AhP!MaySwap, AH!Heavier,
       AhP!Heavier, AH!Raise, AhP!Raise, AH!swap, AhP!swap, AH!Adopted, AhP!Adopted, AH!Block,
       AhP!Block, AH!Inner, AhP!Inner, AH!Min, AhP!Min, AH!is_leaf, AhP!is_leaf, AH!Children,
       AhP!Children

\* The code of a node, for ah.
LEMMA SamePathAh ==
  ASSUME NEW t, NEW node
  PROVE  AH!Path(t, node) = AhP!Path(t, node)
BY DEF AH!Path, AhP!Path, AH!Nodes, AhP!Nodes, AH!NIL, AhP!NIL

\* A symbol's bits from the right, for ah.
LEMMA SameShiftedAh ==
  ASSUME NEW k, NEW i
  PROVE  AH!Shifted(k, i) = AhP!Shifted(k, i)
BY DEF AH!Shifted, AhP!Shifted

\* The length of a literal, for ah.
LEMMA SameLogAh ==
  AH!log_alphabet_size = AhP!log_alphabet_size
BY SameShiftedAh DEF AH!log_alphabet_size, AhP!log_alphabet_size

\* Everything the coder does to write a symbol, for ah.
LEMMA SameEncodeAh ==
  ASSUME NEW h, NEW s
  PROVE  AH!encode(h, s) = AhP!encode(h, s)
<1>1. AH!Literal(s) = AhP!Literal(s)
  BY SameShiftedAh, SameLogAh DEF AH!Literal, AhP!Literal
<1> QED BY <1>1, SameUpdateAh, SamePathAh
        DEF AH!encode, AhP!encode, AH!Seen, AhP!Seen, AH!NIL, AhP!NIL, AH!NoCode, AhP!NoCode,
            AH!Remember, AhP!Remember

\* The number that bits stand for, for ah.
LEMMA SameNumberAh ==
  ASSUME NEW b
  PROVE  AH!Number(b) = AhP!Number(b)
BY DEF AH!Number, AhP!Number

\* The way down the tree along bits, for ah.
LEMMA SameDescendAh ==
  ASSUME NEW t, NEW b
  PROVE  AH!Descend(t, b) = AhP!Descend(t, b)
BY DEF AH!Descend, AhP!Descend, AH!is_leaf, AhP!is_leaf, AH!NIL, AhP!NIL

\* Everything the coder does to read a symbol, for ah.
LEMMA SameDecodeAh ==
  ASSUME NEW h, NEW b
  PROVE  AH!decode(h, b) = AhP!decode(h, b)
BY SameNumberAh, SameDescendAh, SameUpdateAh, SameLogAh
   DEF AH!decode, AhP!decode, AH!decode_with, AhP!decode_with, AH!is_leaf, AhP!is_leaf, AH!NIL,
       AhP!NIL, AH!NYT, AhP!NYT, AH!Min, AhP!Min

\* An update of the tree, for ahrle.
LEMMA SameUpdateAhrle ==
  ASSUME NEW h, NEW s
  PROVE  AHRLE!update_tree(h, s) = AhrleP!update_tree(h, s)
BY DEF AHRLE!update_tree, AhrleP!update_tree, AHRLE!Nodes, AhrleP!Nodes, AHRLE!NewNode,
       AhrleP!NewNode, AHRLE!NIL, AhrleP!NIL, AHRLE!NYT, AhrleP!NYT, AHRLE!Symbols,
       AhrleP!Symbols, AHRLE!invalidate_cache, AhrleP!invalidate_cache, AHRLE!NoCode,
       AhrleP!NoCode, AHRLE!Seen, AhrleP!Seen, AHRLE!Split, AhrleP!Split,
       AHRLE!slide_and_increment, AhrleP!slide_and_increment, AHRLE!Walk, AhrleP!Walk,
       AHRLE!Climb, AhrleP!Climb, AHRLE!get_block_leader, AhrleP!get_block_leader,
       AHRLE!MaySwap, AhrleP!MaySwap, AHRLE!Heavier, AhrleP!Heavier, AHRLE!Raise, AhrleP!Raise,
       AHRLE!swap, AhrleP!swap, AHRLE!Adopted, AhrleP!Adopted, AHRLE!Block, AhrleP!Block,
       AHRLE!Inner, AhrleP!Inner, AHRLE!Min, AhrleP!Min, AHRLE!is_leaf, AhrleP!is_leaf,
       AHRLE!Children, AhrleP!Children

\* The code of a node, for ahrle.
LEMMA SamePathAhrle ==
  ASSUME NEW t, NEW node
  PROVE  AHRLE!Path(t, node) = AhrleP!Path(t, node)
BY DEF AHRLE!Path, AhrleP!Path, AHRLE!Nodes, AhrleP!Nodes, AHRLE!NIL, AhrleP!NIL

\* A symbol's bits from the right, for ahrle.
LEMMA SameShiftedAhrle ==
  ASSUME NEW k, NEW i
  PROVE  AHRLE!Shifted(k, i) = AhrleP!Shifted(k, i)
BY DEF AHRLE!Shifted, AhrleP!Shifted

\* The length of a literal, for ahrle.
LEMMA SameLogAhrle ==
  AHRLE!log_alphabet_size = AhrleP!log_alphabet_size
BY SameShiftedAhrle DEF AHRLE!log_alphabet_size, AhrleP!log_alphabet_size

\* Everything the coder does to write a symbol, for ahrle.
LEMMA SameEncodeAhrle ==
  ASSUME NEW h, NEW s
  PROVE  AHRLE!encode(h, s) = AhrleP!encode(h, s)
<1>1. AHRLE!Literal(s) = AhrleP!Literal(s)
  BY SameShiftedAhrle, SameLogAhrle DEF AHRLE!Literal, AhrleP!Literal
<1> QED BY <1>1, SameUpdateAhrle, SamePathAhrle
        DEF AHRLE!encode, AhrleP!encode, AHRLE!Seen, AhrleP!Seen, AHRLE!NIL, AhrleP!NIL,
            AHRLE!NoCode, AhrleP!NoCode, AHRLE!Remember, AhrleP!Remember

\* The number that bits stand for, for ahrle.
LEMMA SameNumberAhrle ==
  ASSUME NEW b
  PROVE  AHRLE!Number(b) = AhrleP!Number(b)
BY DEF AHRLE!Number, AhrleP!Number

\* The way down the tree along bits, for ahrle.
LEMMA SameDescendAhrle ==
  ASSUME NEW t, NEW b
  PROVE  AHRLE!Descend(t, b) = AhrleP!Descend(t, b)
BY DEF AHRLE!Descend, AhrleP!Descend, AHRLE!is_leaf, AhrleP!is_leaf, AHRLE!NIL, AhrleP!NIL

\* Everything the coder does to read a symbol, for ahrle.
LEMMA SameDecodeAhrle ==
  ASSUME NEW h, NEW b
  PROVE  AHRLE!decode(h, b) = AhrleP!decode(h, b)
BY SameNumberAhrle, SameDescendAhrle, SameUpdateAhrle, SameLogAhrle
   DEF AHRLE!decode, AhrleP!decode, AHRLE!decode_with, AhrleP!decode_with, AHRLE!is_leaf,
       AhrleP!is_leaf, AHRLE!NIL, AhrleP!NIL, AHRLE!NYT, AhrleP!NYT, AHRLE!Min, AhrleP!Min

-------------------------------------------------------------------------------
(* Writers and readers: records of the two coders of one end. *)

Bit == {0, 1}

Start == [ah |-> AH!NewCoder, ahrle |-> AHRLE!NewCoder]

\* Coders with the same trees, which may differ in the codes they keep.
TwinsAh(d, e) == AhP!CoderInv(d) /\ AhP!CoderInv(e) /\ AhP!Same(d, e)
TwinsAhrle(d, e) == AhrleP!CoderInv(d) /\ AhrleP!CoderInv(e) /\ AhrleP!Same(d, e)
Twins(v, w) == TwinsAh(v.ah, w.ah) /\ TwinsAhrle(v.ahrle, w.ahrle)

Replaced(w, token, next) ==
  [ah |-> IF token.coder = "ah" THEN next ELSE w.ah,
   ahrle |-> IF token.coder = "ah" THEN w.ahrle ELSE next]

\* What is written for a token, and the coders behind it.
Out(w, token) ==
  IF token.coder = "ah" THEN AH!encode(w.ah, token.value) ELSE AHRLE!encode(w.ahrle, token.value)
Code(w, token) == Out(w, token).bits
After(w, token) == Replaced(w, token, Out(w, token).next)

\* What the coder that the token is for reads.
In(v, token, b) ==
  IF token.coder = "ah" THEN AH!decode(v.ah, b) ELSE AHRLE!decode(v.ahrle, b)

Agrees(b, p) == \A j \in 1 .. Len(p) : j <= Len(b) => b[j] = p[j]

\* In the beginning the two ends are alike.
LEMMA StartTwins == Twins(Start, Start)
<1>1. AhP!CoderInv(AhP!NewCoder) /\ AhrleP!CoderInv(AhrleP!NewCoder)
  BY AhP!NewCoderInv, AhrleP!NewCoderInv, AlphabetsFit
<1>2. AH!NewCoder = AhP!NewCoder
  BY DEF AH!NewCoder, AhP!NewCoder, AH!Nodes, AhP!Nodes, AH!NewNode, AhP!NewNode, AH!NIL,
       AhP!NIL, AH!NYT, AhP!NYT, AH!Symbols, AhP!Symbols, AH!invalidate_cache,
       AhP!invalidate_cache, AH!NoCode, AhP!NoCode
<1>3. AHRLE!NewCoder = AhrleP!NewCoder
  BY DEF AHRLE!NewCoder, AhrleP!NewCoder, AHRLE!Nodes, AhrleP!Nodes, AHRLE!NewNode,
       AhrleP!NewNode, AHRLE!NIL, AhrleP!NIL, AHRLE!NYT, AhrleP!NYT, AHRLE!Symbols,
       AhrleP!Symbols, AHRLE!invalidate_cache, AhrleP!invalidate_cache, AHRLE!NoCode,
       AhrleP!NoCode
<1> QED BY <1>1, <1>2, <1>3 DEF Twins, TwinsAh, TwinsAhrle, Start, AhP!Same, AhrleP!Same

\* A symbol through ah: what is read of its code is the symbol, or -1 when the
\* code is cut, and the two trees are alike again.
LEMMA SymbolPassesAh ==
  ASSUME NEW d, NEW e, TwinsAh(d, e), NEW s \in 0 .. eofSymbol
  PROVE  LET out == AH!encode(e, s)
         IN  /\ TwinsAh(out.next, out.next) /\ out.bits \in Seq(Bit) /\ Len(out.bits) >= 1
             /\ \A b \in Seq(Bit) : Agrees(b, out.bits) =>
                  IF Len(out.bits) <= Len(b)
                  THEN /\ AH!decode(d, b).symbol = s /\ AH!decode(d, b).used = Len(out.bits)
                       /\ TwinsAh(AH!decode(d, b).next, out.next)
                  ELSE AH!decode(d, b).symbol = -1
<1>1. s \in AhP!Symbols
  BY RunLengthAssumption DEF AhP!Symbols
<1>2. AhP!CoderInv(d) /\ AhP!CoderInv(e) /\ AhP!Same(d, e)
  BY DEF TwinsAh
<1>3. /\ AhP!CoderInv(AhP!encode(e, s).next)
      /\ AhP!encode(e, s).bits \in Seq(AhP!Bits) /\ Len(AhP!encode(e, s).bits) >= 1
      /\ \A b \in Seq(AhP!Bits) : AhP!Agree(b, AhP!encode(e, s).bits) =>
           IF Len(AhP!encode(e, s).bits) <= Len(b)
           THEN /\ AhP!decode(d, b).symbol = s /\ AhP!decode(d, b).used = Len(AhP!encode(e, s).bits)
                /\ AhP!CoderInv(AhP!decode(d, b).next)
                /\ AhP!Same(AhP!decode(d, b).next, AhP!encode(e, s).next)
           ELSE AhP!decode(d, b).symbol = AhP!NIL
  BY <1>1, <1>2, AhP!SymbolPasses, AlphabetsFit
<1>4. AhP!Bits = Bit /\ AhP!NIL = -1
  BY DEF AhP!Bits, Bit, AhP!NIL
<1>5. \A b, p : AhP!Agree(b, p) <=> Agrees(b, p)
  BY DEF AhP!Agree, Agrees
<1>6. \A h : AhP!Same(h, h)
  BY DEF AhP!Same
<1> QED BY <1>3, <1>4, <1>5, <1>6, SameEncodeAh, SameDecodeAh DEF TwinsAh

\* A count through ahrle, in the same way.
LEMMA SymbolPassesAhrle ==
  ASSUME NEW d, NEW e, TwinsAhrle(d, e), NEW s \in 0 .. MaxRun
  PROVE  LET out == AHRLE!encode(e, s)
         IN  /\ TwinsAhrle(out.next, out.next) /\ out.bits \in Seq(Bit) /\ Len(out.bits) >= 1
             /\ \A b \in Seq(Bit) : Agrees(b, out.bits) =>
                  IF Len(out.bits) <= Len(b)
                  THEN /\ AHRLE!decode(d, b).symbol = s /\ AHRLE!decode(d, b).used = Len(out.bits)
                       /\ TwinsAhrle(AHRLE!decode(d, b).next, out.next)
                  ELSE AHRLE!decode(d, b).symbol = -1
<1>1. s \in AhrleP!Symbols
  BY RunLengthAssumption DEF AhrleP!Symbols
<1>2. AhrleP!CoderInv(d) /\ AhrleP!CoderInv(e) /\ AhrleP!Same(d, e)
  BY DEF TwinsAhrle
<1>3. /\ AhrleP!CoderInv(AhrleP!encode(e, s).next)
      /\ AhrleP!encode(e, s).bits \in Seq(AhrleP!Bits) /\ Len(AhrleP!encode(e, s).bits) >= 1
      /\ \A b \in Seq(AhrleP!Bits) : AhrleP!Agree(b, AhrleP!encode(e, s).bits) =>
           IF Len(AhrleP!encode(e, s).bits) <= Len(b)
           THEN /\ AhrleP!decode(d, b).symbol = s
                /\ AhrleP!decode(d, b).used = Len(AhrleP!encode(e, s).bits)
                /\ AhrleP!CoderInv(AhrleP!decode(d, b).next)
                /\ AhrleP!Same(AhrleP!decode(d, b).next, AhrleP!encode(e, s).next)
           ELSE AhrleP!decode(d, b).symbol = AhrleP!NIL
  BY <1>1, <1>2, AhrleP!SymbolPasses, AlphabetsFit
<1>4. AhrleP!Bits = Bit /\ AhrleP!NIL = -1
  BY DEF AhrleP!Bits, Bit, AhrleP!NIL
<1>5. \A b, p : AhrleP!Agree(b, p) <=> Agrees(b, p)
  BY DEF AhrleP!Agree, Agrees
<1>6. \A h : AhrleP!Same(h, h)
  BY DEF AhrleP!Same
<1> QED BY <1>3, <1>4, <1>5, <1>6, SameEncodeAhrle, SameDecodeAhrle DEF TwinsAhrle

\* Any token, through the coder it is for.
LEMMA TokenPasses ==
  ASSUME NEW v, NEW w, Twins(v, w), NEW token \in Token
  PROVE  /\ Twins(w, w) => Twins(After(w, token), After(w, token))
         /\ Code(w, token) \in Seq(Bit) /\ Len(Code(w, token)) >= 1
         /\ \A b \in Seq(Bit) : Agrees(b, Code(w, token)) =>
              IF Len(Code(w, token)) <= Len(b)
              THEN /\ In(v, token, b).symbol = token.value
                   /\ In(v, token, b).used = Len(Code(w, token))
                   /\ Twins(Replaced(v, token, In(v, token, b).next), After(w, token))
              ELSE In(v, token, b).symbol = -1
<1>1. CASE \E s \in Value \cup {eofSymbol} : token = Sym(s)
  <2>1. PICK s \in Value \cup {eofSymbol} : token = Sym(s)
    BY <1>1
  <2>2. s \in 0 .. eofSymbol
    BY EntropyAssumption, RunLengthAssumption
  <2>3. token.coder = "ah" /\ token.value = s
    BY <2>1 DEF Sym
  <2>4. TwinsAh(v.ah, w.ah) /\ TwinsAhrle(v.ahrle, w.ahrle)
    BY DEF Twins
  <2> DEFINE out == AH!encode(w.ah, s)
             in(b) == AH!decode(v.ah, b)
  <2>5. /\ TwinsAh(out.next, out.next) /\ out.bits \in Seq(Bit) /\ Len(out.bits) >= 1
        /\ \A b \in Seq(Bit) : Agrees(b, out.bits) =>
             IF Len(out.bits) <= Len(b)
             THEN in(b).symbol = s /\ in(b).used = Len(out.bits) /\ TwinsAh(in(b).next, out.next)
             ELSE in(b).symbol = -1
    BY <2>2, <2>4, SymbolPassesAh
  <2>6. /\ Code(w, token) = out.bits /\ \A b : In(v, token, b) = in(b)
        /\ After(w, token).ah = out.next /\ After(w, token).ahrle = w.ahrle
        /\ \A next : Replaced(v, token, next).ah = next /\ Replaced(v, token, next).ahrle = v.ahrle
    BY <2>3 DEF Code, Out, In, After, Replaced
  <2> HIDE DEF out, in
  <2> QED BY <2>3, <2>4, <2>5, <2>6 DEF Twins
<1>2. CASE \E k \in 0 .. MaxRun : token = Run(k)
  <2>1. PICK k \in 0 .. MaxRun : token = Run(k)
    BY <1>2
  <2>3. token.coder # "ah" /\ token.value = k
    BY <2>1 DEF Run
  <2>4. TwinsAh(v.ah, w.ah) /\ TwinsAhrle(v.ahrle, w.ahrle)
    BY DEF Twins
  <2> DEFINE out == AHRLE!encode(w.ahrle, k)
             in(b) == AHRLE!decode(v.ahrle, b)
  <2>5. /\ TwinsAhrle(out.next, out.next) /\ out.bits \in Seq(Bit) /\ Len(out.bits) >= 1
        /\ \A b \in Seq(Bit) : Agrees(b, out.bits) =>
             IF Len(out.bits) <= Len(b)
             THEN in(b).symbol = k /\ in(b).used = Len(out.bits) /\ TwinsAhrle(in(b).next, out.next)
             ELSE in(b).symbol = -1
    BY <2>4, SymbolPassesAhrle
  <2>6. /\ Code(w, token) = out.bits /\ \A b : In(v, token, b) = in(b)
        /\ After(w, token).ah = w.ah /\ After(w, token).ahrle = out.next
        /\ \A next : Replaced(v, token, next).ah = v.ah /\ Replaced(v, token, next).ahrle = next
    BY <2>3 DEF Code, Out, In, After, Replaced
  <2> HIDE DEF out, in
  <2> QED BY <2>3, <2>4, <2>5, <2>6 DEF Twins
<1> QED BY <1>1, <1>2 DEF Token

-------------------------------------------------------------------------------
(* The archive.  Between the tokens are the coders that the writer was, t,   *)
(* and the places of their bits, e.                                          *)

Coded(t, e, toks, m, b) ==
  /\ e \in [0 .. m -> Nat] /\ e[0] = 0 /\ t[0] = Start
  /\ \A i \in 0 .. m : Twins(t[i], t[i])
  /\ \A i \in 1 .. m :
       /\ t[i] = After(t[i - 1], toks[i]) /\ e[i] = e[i - 1] + Len(Code(t[i - 1], toks[i]))
       /\ \A j \in 1 .. Len(Code(t[i - 1], toks[i])) :
            e[i - 1] + j <= Len(b) => b[e[i - 1] + j] = Code(t[i - 1], toks[i])[j]
  /\ \A i, j \in 0 .. m : i < j => e[i] < e[j]

\* The writer w behind the tokens toks, and what it has written.
Wrote(w, t, e, toks) ==
  /\ Coded(t, e, toks, Len(toks), w.bits)
  /\ t[Len(toks)] = [ah |-> w.ah, ahrle |-> w.ahrle]
  /\ w.bits \in Seq(Bit) /\ e[Len(toks)] = Len(w.bits)
  /\ w.ends \in Seq(Nat) /\ Len(w.ends) = Len(toks)
  /\ \A i \in 1 .. Len(toks) : w.ends[i] = e[i]

Writer(w, toks) == \E t, e : Wrote(w, t, e, toks)

\* Only the bits up to the last token's end matter, and of these those that are
\* there.
LEMMA CodedOther ==
  ASSUME NEW t, NEW e, NEW toks, NEW m \in Nat, NEW b \in Seq(Bit), Coded(t, e, toks, m, b),
         NEW p, \A i \in 1 .. m : p[i] = toks[i],
         NEW c \in Seq(Bit), \A x \in 1 .. e[m] : x <= Len(c) => x <= Len(b) /\ c[x] = b[x]
  PROVE  Coded(t, e, p, m, c)
<1>1. /\ e \in [0 .. m -> Nat] /\ e[0] = 0 /\ t[0] = Start
      /\ \A i \in 0 .. m : Twins(t[i], t[i])
      /\ \A i, j \in 0 .. m : i < j => e[i] < e[j]
  BY DEF Coded
<1>2. ASSUME NEW i \in 1 .. m
      PROVE  /\ t[i] = After(t[i - 1], p[i]) /\ e[i] = e[i - 1] + Len(Code(t[i - 1], p[i]))
             /\ \A j \in 1 .. Len(Code(t[i - 1], p[i])) :
                  e[i - 1] + j <= Len(c) => c[e[i - 1] + j] = Code(t[i - 1], p[i])[j]
  <2>1. /\ t[i] = After(t[i - 1], p[i]) /\ e[i] = e[i - 1] + Len(Code(t[i - 1], p[i]))
        /\ \A j \in 1 .. Len(Code(t[i - 1], p[i])) :
             e[i - 1] + j <= Len(b) => b[e[i - 1] + j] = Code(t[i - 1], p[i])[j]
    BY <1>2 DEF Coded
  <2>2. e[i - 1] \in Nat /\ e[i] \in Nat /\ e[m] \in Nat /\ (i = m \/ e[i] < e[m])
    BY <1>1, <1>2
  <2> DEFINE d == Code(t[i - 1], p[i])
  <2>3. ASSUME NEW j \in 1 .. Len(d), e[i - 1] + j <= Len(c) PROVE c[e[i - 1] + j] = d[j]
    <3> HIDE DEF d
    <3>1. Len(d) = e[i] - e[i - 1] /\ Len(d) \in Int
      BY <2>1, <2>2 DEF d
    <3>2. e[i - 1] + j \in 1 .. e[m]
      BY <2>2, <2>3, <3>1
    <3>3. e[i - 1] + j <= Len(b) /\ c[e[i - 1] + j] = b[e[i - 1] + j]
      BY <2>3, <3>2
    <3>4. \A x \in 1 .. Len(d) : e[i - 1] + x <= Len(b) => b[e[i - 1] + x] = d[x]
      BY <2>1 DEF d
    <3> QED BY <2>3, <3>3, <3>4
  <2> QED BY <2>1, <2>3
<1> QED BY <1>1, <1>2 DEF Coded

\* One token more.
LEMMA PutKeeps ==
  ASSUME NEW w, NEW toks \in Seq(Token), NEW token \in Token, Writer(w, toks)
  PROVE  Writer(Put(w, token), Append(toks, token))
<1> DEFINE m == Len(toks)
           q == Append(toks, token)
           x == Put(w, token)
<1>1. PICK t, e : Wrote(w, t, e, toks)
  BY DEF Writer
<1>2. /\ Coded(t, e, toks, m, w.bits) /\ t[m] = [ah |-> w.ah, ahrle |-> w.ahrle]
      /\ w.bits \in Seq(Bit) /\ e[m] = Len(w.bits)
      /\ w.ends \in Seq(Nat) /\ Len(w.ends) = m /\ \A i \in 1 .. m : w.ends[i] = e[i]
  BY <1>1 DEF Wrote
<1>3. /\ e \in [0 .. m -> Nat] /\ e[0] = 0 /\ t[0] = Start
      /\ \A i \in 0 .. m : Twins(t[i], t[i])
      /\ \A i, j \in 0 .. m : i < j => e[i] < e[j]
  BY <1>2 DEF Coded
<1>4. m \in Nat /\ Len(q) = m + 1 /\ q[m + 1] = token /\ \A i \in 1 .. m : q[i] = toks[i]
  OBVIOUS
<1> DEFINE c == Code(t[m], token)
           u == [i \in 0 .. m + 1 |-> IF i <= m THEN t[i] ELSE After(t[m], token)]
           f == [i \in 0 .. m + 1 |-> IF i <= m THEN e[i] ELSE e[m] + Len(c)]
<1>5. /\ Twins(t[m], t[m]) /\ c \in Seq(Bit) /\ Len(c) >= 1
      /\ Twins(After(t[m], token), After(t[m], token))
  <2>1. Twins(t[m], t[m])
    BY <1>3, <1>4
  <2> QED BY <2>1, TokenPasses
<1>6. /\ Out(t[m], token) = Out(w, token)
      /\ After(t[m], token) = [ah |-> x.ah, ahrle |-> x.ahrle]
      /\ x.bits = w.bits \o c /\ x.ends = Append(w.ends, Len(w.bits) + Len(c))
  <2>1. t[m].ah = w.ah /\ t[m].ahrle = w.ahrle
    BY <1>2
  <2>2. Out(t[m], token) = Out(w, token)
    BY <2>1 DEF Out
  <2>3. x = Added(w, token.coder, Out(w, token))
    BY DEF Put, Out
  <2>4. After(t[m], token) = [ah |-> x.ah, ahrle |-> x.ahrle]
    BY <2>1, <2>2, <2>3 DEF After, Replaced, Added
  <2>5. c = Out(w, token).bits
    BY <2>2 DEF Code
  <2>6. x.bits = w.bits \o c /\ x.ends = Append(w.ends, Len(w.bits) + Len(c))
    <3> HIDE DEF x, c
    <3> QED BY <2>3, <2>5 DEF Added
  <2> QED BY <2>2, <2>4, <2>6
<1> HIDE DEF c, x, q
<1>7. /\ x.bits \in Seq(Bit) /\ Len(x.bits) = Len(w.bits) + Len(c)
      /\ \A i \in 1 .. Len(w.bits) : x.bits[i] = w.bits[i]
      /\ \A i \in 1 .. Len(c) : x.bits[e[m] + i] = c[i]
  BY <1>2, <1>5, <1>6
<1>8. /\ \A i \in 0 .. m : u[i] = t[i] /\ f[i] = e[i]
      /\ u[m + 1] = After(t[m], token) /\ f[m + 1] = e[m] + Len(c)
      /\ f \in [0 .. m + 1 -> Nat]
  <2>1. e[m] \in Nat /\ Len(c) \in Nat
    BY <1>3, <1>4, <1>5
  <2> QED BY <1>3, <1>4, <2>1
<1> HIDE DEF u, f
<1>9. Coded(t, e, q, m, x.bits)
  <2>1. \A y \in 1 .. e[m] : y <= Len(x.bits) => y <= Len(w.bits) /\ x.bits[y] = w.bits[y]
    BY <1>2, <1>7
  <2> QED BY <1>2, <1>4, <1>7, <2>1, CodedOther
<1>10. Coded(u, f, q, m + 1, x.bits)
  <2>1. u[0] = Start /\ f[0] = 0
    BY <1>3, <1>4, <1>8
  <2>2. ASSUME NEW i \in 0 .. m + 1 PROVE Twins(u[i], u[i])
    <3>1. i \in 0 .. m \/ i = m + 1
      BY <1>4
    <3> QED BY <1>3, <1>5, <1>8, <3>1
  <2>3. ASSUME NEW i \in 0 .. m + 1, NEW j \in 0 .. m + 1, i < j PROVE f[i] < f[j]
    <3>1. i \in 0 .. m
      BY <1>4, <2>3
    <3>2. CASE j \in 0 .. m
      BY <1>3, <1>8, <2>3, <3>1, <3>2
    <3>3. CASE j = m + 1
      <4>1. e[i] <= e[m] /\ e[i] \in Nat /\ e[m] \in Nat
        BY <1>3, <1>4, <3>1
      <4>2. Len(c) \in Nat /\ Len(c) >= 1
        BY <1>5
      <4> QED BY <1>8, <3>1, <3>3, <4>1, <4>2
    <3> QED BY <1>4, <3>2, <3>3
  <2>4. ASSUME NEW i \in 1 .. m + 1
        PROVE  /\ u[i] = After(u[i - 1], q[i]) /\ f[i] = f[i - 1] + Len(Code(u[i - 1], q[i]))
               /\ \A j \in 1 .. Len(Code(u[i - 1], q[i])) :
                    f[i - 1] + j <= Len(x.bits) => x.bits[f[i - 1] + j] = Code(u[i - 1], q[i])[j]
    <3>1. CASE i \in 1 .. m
      <4>1. i - 1 \in 0 .. m /\ i \in 0 .. m
        BY <1>4, <3>1
      <4>2. u[i] = t[i] /\ f[i] = e[i] /\ u[i - 1] = t[i - 1] /\ f[i - 1] = e[i - 1]
        BY <1>8, <4>1
      <4> QED BY <1>9, <3>1, <4>2 DEF Coded
    <3>2. CASE i = m + 1
      <4>1. i - 1 = m /\ m \in 0 .. m
        BY <1>4, <3>2
      <4>2. u[i - 1] = t[m] /\ f[i - 1] = e[m] /\ q[i] = token
        BY <1>4, <1>8, <3>2, <4>1
      <4>3. Code(u[i - 1], q[i]) = c
        BY <4>2 DEF c
      <4> QED BY <1>7, <1>8, <3>2, <4>2, <4>3
    <3> QED BY <1>4, <3>1, <3>2
  <2> QED BY <1>8, <2>1, <2>2, <2>3, <2>4 DEF Coded
<1>11. /\ x.ends \in Seq(Nat) /\ Len(x.ends) = m + 1
       /\ \A i \in 1 .. m + 1 : x.ends[i] = f[i]
  <2>1. Len(w.bits) + Len(c) \in Nat /\ Len(w.bits) + Len(c) = f[m + 1]
    BY <1>2, <1>5, <1>8
  <2>2. x.ends \in Seq(Nat) /\ Len(x.ends) = m + 1 /\ x.ends[m + 1] = f[m + 1]
    BY <1>2, <1>6, <2>1
  <2>3. ASSUME NEW i \in 1 .. m PROVE x.ends[i] = f[i]
    <3>1. x.ends[i] = w.ends[i]
      BY <1>2, <1>6, <2>1
    <3>2. i \in 0 .. m
      OBVIOUS
    <3> QED BY <1>2, <1>8, <3>1, <3>2
  <2> QED BY <1>4, <2>2, <2>3
<1>12. f[m + 1] = Len(x.bits) /\ u[m + 1] = [ah |-> x.ah, ahrle |-> x.ahrle]
  BY <1>2, <1>6, <1>7, <1>8
<1>13. Wrote(x, u, f, q)
  BY <1>4, <1>7, <1>10, <1>11, <1>12 DEF Wrote
<1> QED BY <1>13 DEF Writer, x, q

\* One element more.
LEMMA OneMore ==
  ASSUME NEW S, NEW s \in Seq(S), NEW a \in S
  PROVE  Append(s, a) \in Seq(S) /\ s \o <<a>> = Append(s, a)
OBVIOUS

\* A sequence that is written out.
LEMMA Elements ==
  ASSUME NEW S, NEW s \in Seq(S)
  PROVE  /\ \A i \in 1 .. Len(s) : s[i] \in S
         /\ Len(s) = 0 => s = <<>>
         /\ Len(s) = 1 => s = <<s[1]>>
         /\ Len(s) = 2 => s = <<s[1]>> \o <<s[2]>>
<1>1. \A i \in 1 .. Len(s) : s[i] \in S
  OBVIOUS
<1>2. Len(s) = 0 => s = <<>>
  OBVIOUS
<1>3. ASSUME Len(s) = 1 PROVE s = <<s[1]>>
  <2>1. 1 \in 1 .. Len(s)
    BY <1>3
  <2> DEFINE x == s[1]
  <2>2. x \in S /\ s[1] = x
    BY <1>1, <2>1
  <2> HIDE DEF x
  <2>3. <<x>> \in Seq(S) /\ Len(<<x>>) = 1 /\ <<x>>[1] = x
    BY <2>2
  <2>4. \A i \in 1 .. 1 : s[i] = <<x>>[i]
    BY <2>2, <2>3
  <2>5. s = <<x>>
    BY <1>3, <2>3, <2>4
  <2> QED BY <2>5 DEF x
<1>4. ASSUME Len(s) = 2 PROVE s = <<s[1]>> \o <<s[2]>>
  <2>1. 1 \in 1 .. Len(s) /\ 2 \in 1 .. Len(s)
    BY <1>4
  <2> DEFINE x == s[1]
             y == s[2]
  <2>2. x \in S /\ s[1] = x /\ y \in S /\ s[2] = y
    BY <1>1, <2>1
  <2> HIDE DEF x, y
  <2> DEFINE r == <<x>> \o <<y>>
  <2>3. r \in Seq(S) /\ Len(r) = 2 /\ r[1] = x /\ r[2] = y
    BY <2>2
  <2> HIDE DEF r
  <2>4. \A i \in 1 .. 2 : s[i] = r[i]
    BY <2>2, <2>3
  <2>5. s = r
    BY <1>4, <2>3, <2>4
  <2> QED BY <2>5 DEF x, y, r
<1> QED BY <1>1, <1>2, <1>3, <1>4

\* A step of the encoder writes at most two tokens.
LEMMA WrittenKeeps ==
  ASSUME NEW w, NEW toks \in Seq(Token), Writer(w, toks), NEW more \in Seq(Token), Len(more) <= 2
  PROVE  Writer(Written(w, more), toks \o more)
<1> DEFINE N == Len(more)
           Fits(g) == g = [i \in 0 .. N |-> IF i = 0 THEN w ELSE Put(g[i - 1], more[i])]
           one == Put(w, more[1])
           two == Put(one, more[2])
           h == [i \in 0 .. N |-> IF i = 0 THEN w ELSE IF i = 1 THEN one ELSE two]
           g == CHOOSE g : Fits(g)
<1>1. N \in Nat /\ N <= 2
  OBVIOUS
<1>2. Fits(h)
  <2>1. ASSUME NEW i \in 0 .. N PROVE h[i] = IF i = 0 THEN w ELSE Put(h[i - 1], more[i])
    <3>1. i = 0 \/ i = 1 \/ i = 2
      BY <1>1
    <3> HIDE DEF one, two
    <3>2. CASE i = 0
      BY <3>2
    <3>3. CASE i = 1
      <4>1. h[i] = one /\ h[0] = w /\ i - 1 = 0
        BY <1>1, <3>3
      <4> QED BY <3>3, <4>1 DEF one
    <3>4. CASE i = 2
      <4>1. h[i] = two /\ h[1] = one /\ i - 1 = 1
        BY <1>1, <3>4
      <4> QED BY <3>4, <4>1 DEF two
    <3> QED BY <3>1, <3>2, <3>3, <3>4
  <2> DEFINE k == [i \in 0 .. N |-> IF i = 0 THEN w ELSE Put(h[i - 1], more[i])]
  <2>2. \A i \in 0 .. N : h[i] = k[i]
    BY <2>1
  <2>3. h = [i \in 0 .. N |-> h[i]] /\ k = [i \in 0 .. N |-> k[i]]
    OBVIOUS
  <2>4. h = k
    <3> HIDE DEF h, k
    <3> QED BY <2>2, <2>3
  <2> QED BY <2>4
<1>3. Fits(g)
  <2> HIDE DEF Fits, h
  <2> QED BY <1>2
<1>4. Written(w, more) = g[N]
  BY DEF Written, g
<1>5. ASSUME NEW i \in 0 .. N PROVE g[i] = IF i = 0 THEN w ELSE Put(g[i - 1], more[i])
  <2> HIDE DEF g
  <2> QED BY <1>3
<1> HIDE DEF g, h, Fits
<1> HIDE DEF N, one, two
<1>6. N = Len(more)
  BY DEF N
<1>7. CASE N = 0
  <2>1. more = <<>>
    BY <1>6, <1>7, Elements
  <2>2. toks \o more = toks
    BY <2>1
  <2>3. g[N] = w
    BY <1>1, <1>5, <1>7
  <2> QED BY <1>4, <2>2, <2>3
<1>8. ASSUME N >= 1
      PROVE  /\ more[1] \in Token /\ g[1] = one
             /\ Append(toks, more[1]) \in Seq(Token) /\ toks \o <<more[1]>> = Append(toks, more[1])
             /\ Writer(one, Append(toks, more[1]))
  <2>1. 1 \in 1 .. Len(more) /\ 1 \in 0 .. N /\ 0 \in 0 .. N /\ 1 - 1 = 0
    BY <1>1, <1>6, <1>8
  <2>2. more[1] \in Token
    BY <2>1, Elements
  <2>3. g[0] = w /\ g[1] = Put(g[1 - 1], more[1])
    BY <1>5, <2>1
  <2>4. g[1] = one
    BY <2>1, <2>3 DEF one
  <2>5. Writer(one, Append(toks, more[1]))
    BY <2>2, PutKeeps DEF one
  <2> QED BY <2>2, <2>4, <2>5, OneMore
<1>9. CASE N = 1
  <2>1. more = <<more[1]>>
    BY <1>6, <1>9, Elements
  <2>2. N >= 1
    BY <1>9
  <2>3. toks \o more = Append(toks, more[1])
    BY <1>8, <2>1, <2>2
  <2> QED BY <1>4, <1>8, <1>9, <2>2, <2>3
<1>10. CASE N = 2
  <2>1. N >= 1 /\ 2 \in 1 .. Len(more) /\ 2 \in 0 .. N /\ 2 - 1 = 1
    BY <1>6, <1>10
  <2>2. more[2] \in Token
    BY <2>1, Elements
  <2>3. g[2] = Put(g[2 - 1], more[2])
    BY <1>5, <2>1
  <2>4. g[N] = Put(one, more[2])
    BY <1>8, <1>10, <2>1, <2>3
  <2> DEFINE q == Append(toks, more[1])
  <2>5. q \in Seq(Token) /\ Writer(one, q) /\ toks \o <<more[1]>> = q
    BY <1>8, <2>1
  <2> HIDE DEF q
  <2>6. Writer(Put(one, more[2]), Append(q, more[2])) /\ Append(q, more[2]) = q \o <<more[2]>>
    BY <2>2, <2>5, PutKeeps, OneMore
  <2>7. toks \o more = Append(q, more[2])
    <3>1. more[1] \in Token
      BY <1>8, <2>1
    <3>2. more = <<more[1]>> \o <<more[2]>>
      BY <1>6, <1>10, Elements
    <3>3. toks \o (<<more[1]>> \o <<more[2]>>) = (toks \o <<more[1]>>) \o <<more[2]>>
      BY <2>2, <3>1
    <3> QED BY <2>5, <2>6, <3>2, <3>3
  <2> QED BY <1>4, <2>4, <2>6, <2>7
<1> QED BY <1>1, <1>7, <1>9, <1>10

-------------------------------------------------------------------------------
(* The invariant: in RunLength's tokens is what the bits say. *)

TheWriter == [ah |-> eah, ahrle |-> eahrle, bits |-> bits, ends |-> ends]
Reader == [ah |-> dah, ahrle |-> dahrle]

\* The archive, from which the decoder has read as many tokens as RunLength says.
Archived(t, e) ==
  /\ Coded(t, e, tokens, Len(tokens), bits)
  /\ ends \in Seq(Nat) /\ Len(ends) = Len(tokens)
  /\ \A i \in 1 .. Len(tokens) : ends[i] = e[i]
  /\ \A i \in 0 .. Len(tokens) : i <= readable <=> e[i] <= Len(bits)
  /\ spare = (Len(bits) > e[readable])
  /\ ~ dec.eof => at = e[pos] /\ Twins(Reader, t[pos])

BitsInv ==
  /\ bits \in Seq(Bit)
  /\ IF readable = -1 THEN Writer(TheWriter, tokens) /\ at = 0 /\ Reader = Start
     ELSE \E t, e : Archived(t, e)

EntropyInv == RunInv /\ BitsInv

-------------------------------------------------------------------------------
(* The encoder. *)

\* Nothing is written.
LEMMA EntropyInvInit == EntropyInit => EntropyInv
<1> SUFFICES ASSUME EntropyInit PROVE EntropyInv
  OBVIOUS
<1>1. Init
  BY DEF EntropyInit
<1>2. RunInv
  BY <1>1, RunInvInit
<1>3. bits = <<>> /\ ends = <<>> /\ at = 0 /\ readable = -1 /\ tokens = <<>>
  BY <1>1 DEF EntropyInit, Init
<1>4. /\ Reader = Start
      /\ TheWriter = [ah |-> Start.ah, ahrle |-> Start.ahrle, bits |-> <<>>, ends |-> <<>>]
  BY DEF EntropyInit, Reader, TheWriter, Start
<1> DEFINE t == [i \in 0 .. 0 |-> Start]
           e == [i \in 0 .. 0 |-> 0]
<1>5. /\ e \in [0 .. 0 -> Nat] /\ e[0] = 0 /\ t[0] = Start
      /\ Start = [ah |-> Start.ah, ahrle |-> Start.ahrle]
  BY DEF Start
<1>6. Len(tokens) = 0 /\ bits \in Seq(Bit) /\ Len(bits) = 0 /\ ends \in Seq(Nat) /\ Len(ends) = 0
  BY <1>3
<1> HIDE DEF t, e
<1>7. Coded(t, e, tokens, 0, bits)
  <2>1. \A i \in 0 .. 0 : Twins(t[i], t[i])
    BY <1>5, StartTwins
  <2> QED BY <1>5, <2>1 DEF Coded
<1>8. /\ TheWriter.bits = bits /\ TheWriter.ends = ends
      /\ [ah |-> TheWriter.ah, ahrle |-> TheWriter.ahrle] = Start
  BY <1>3, <1>4, <1>5
<1>9. Wrote(TheWriter, t, e, tokens)
  <2> HIDE DEF TheWriter
  <2> QED BY <1>5, <1>6, <1>7, <1>8 DEF Wrote
<1>10. Writer(TheWriter, tokens)
  BY <1>9 DEF Writer
<1> QED BY <1>2, <1>3, <1>4, <1>6, <1>10 DEF EntropyInv, BitsInv

\* What is pending is at most a run.
LEMMA PendingTokens ==
  ASSUME NEW c \in 0 .. MaxRun + n - 1, NEW s \in Token
  PROVE  /\ Append(Pending(c), s) \in Seq(Token)
         /\ Len(Append(Pending(c), s)) <= 2 /\ Len(Append(Pending(c), s)) >= 1
<1>1. Pending(c) \in Seq(Token) /\ Len(Pending(c)) <= 1
  <2>1. CASE c >= n
    <3>1. c - n \in 0 .. MaxRun
      BY <2>1, RunLengthAssumption
    <3>2. Pending(c) = <<Run(c - n)>> /\ Run(c - n) \in Token
      BY <2>1, <3>1 DEF Pending, Token
    <3> QED BY <3>2
  <2>2. CASE ~ (c >= n)
    <3>1. Pending(c) = <<>>
      BY <2>2 DEF Pending
    <3> QED BY <3>1
  <2> QED BY <2>1, <2>2
<1> QED BY <1>1

\* What is behind a sequence that something is appended to.
LEMMA Behind ==
  ASSUME NEW S, NEW s \in Seq(S), NEW q \in Seq(S)
  PROVE  SubSeq(s \o q, Len(s) + 1, Len(s \o q)) = q
<1> DEFINE r == SubSeq(s \o q, Len(s) + 1, Len(s \o q))
<1>1. s \o q \in Seq(S) /\ Len(s \o q) = Len(s) + Len(q) /\ Len(s) \in Nat /\ Len(q) \in Nat
  OBVIOUS
<1>2. \A i \in 1 .. Len(q) : (s \o q)[Len(s) + i] = q[i]
  OBVIOUS
<1>3. r \in Seq(S) /\ Len(r) = Len(q)
  BY <1>1
<1>4. ASSUME NEW i \in 1 .. Len(q) PROVE r[i] = q[i]
  <2>1. r[i] = (s \o q)[Len(s) + 1 + i - 1]
    BY <1>1
  <2> QED BY <1>1, <1>2, <2>1
<1> HIDE DEF r
<1>5. r = q
  BY <1>3, <1>4
<1> QED BY <1>5 DEF r

\* There is no padding before the end.
LEMMA NoPadding ==
  ASSUME NEW w \in Seq(Bit)
  PROVE  w \o Padding(FALSE, w) = w
<1>1. Padding(FALSE, w) = [j \in 1 .. 0 |-> 0]
  BY DEF Padding
<1>2. [j \in 1 .. 0 |-> 0] = <<>>
  OBVIOUS
<1>3. w \o <<>> = w
  OBVIOUS
<1> QED BY <1>1, <1>2, <1>3, Zenon

\* At the end the padding is bits.
LEMMA PaddingBits ==
  ASSUME NEW w \in Seq(Bit)
  PROVE  Padding(TRUE, w) \in Seq(Bit)
<1> DEFINE k == (BITS - (Len(w) % BITS)) % BITS
<1>1. k \in Nat
  BY EntropyAssumption
<1>2. Padding(TRUE, w) = [j \in 1 .. k |-> 0]
  BY DEF Padding
<1> HIDE DEF k
<1>3. [j \in 1 .. k |-> 0] \in [1 .. k -> Bit]
  BY DEF Bit
<1>4. \A f \in [1 .. k -> Bit] : f \in Seq(Bit)
  BY <1>1
<1> QED BY <1>2, <1>3, <1>4

\* The tokens of a symbol go behind the others.
LEMMA WriteSymbolKeeps ==
  ASSUME EntropyInv, NEW v \in Value, WriteSymbol(v)
  PROVE  EntropyInv'
<1>1. /\ EncodeSymbol(v) /\ RunInv /\ RunInv' /\ readable = -1 /\ readable' = -1
      /\ dah' = dah /\ dahrle' = dahrle /\ at' = at
  <2>1. EncodeSymbol(v) /\ RunInv
    BY DEF WriteSymbol, EntropyInv
  <2>2. RunInv'
    BY <2>1, EncodeSymbolKeeps
  <2> QED BY <2>1, <2>2 DEF WriteSymbol, Write, EncodeSymbol
<1>2. Writer(TheWriter, tokens) /\ at = 0 /\ Reader = Start
  BY <1>1 DEF EntropyInv, BitsInv
<1>3. tokens \in Seq(Token) /\ tokens' \in Seq(Token)
  BY <1>1 DEF RunInv, Types
<1>4. PICK q : tokens' = tokens \o q /\ q \in Seq(Token) /\ Len(q) <= 2
  <2>1. enc.counter \in 0 .. MaxRun + n - 1 /\ enc.last \in Value \cup {-1}
    BY <1>1 DEF RunInv, Types
  <2>2. ASSUME v = enc.last
        PROVE  \E q : tokens' = tokens \o q /\ q \in Seq(Token) /\ Len(q) <= 2
    <3> DEFINE q == Repeat(enc.counter + 1).tokens
    <3>1. tokens' = tokens \o q
      BY <1>1, <2>2 DEF EncodeSymbol
    <3>2. q \in Seq(Token) /\ Len(q) <= 2
      <4>1. CASE enc.counter + 1 >= MaxRun + n
        <5>1. (enc.counter + 1) - n \in 0 .. MaxRun
          BY <2>1, <4>1, RunLengthAssumption
        <5>2. q = <<Run((enc.counter + 1) - n)>> /\ Run((enc.counter + 1) - n) \in Token
          BY <4>1, <5>1 DEF Repeat, Token
        <5> HIDE DEF q
        <5> QED BY <5>2
      <4>2. CASE ~ (enc.counter + 1 >= MaxRun + n) /\ enc.counter + 1 <= n
        <5>1. q = <<Sym(v)>> /\ Sym(v) \in Token
          BY <2>2, <4>2 DEF Repeat, Token
        <5> HIDE DEF q
        <5> QED BY <5>1
      <4>3. CASE ~ (enc.counter + 1 >= MaxRun + n) /\ ~ (enc.counter + 1 <= n)
        <5>1. q = <<>>
          BY <4>3 DEF Repeat
        <5> HIDE DEF q
        <5> QED BY <5>1
      <4> QED BY <4>1, <4>2, <4>3
    <3> HIDE DEF q
    <3> QED BY <3>1, <3>2
  <2>3. ASSUME v # enc.last
        PROVE  \E q : tokens' = tokens \o q /\ q \in Seq(Token) /\ Len(q) <= 2
    <3> DEFINE q == Append(Pending(enc.counter), Sym(v))
    <3>1. tokens' = tokens \o q
      BY <1>1, <2>3 DEF EncodeSymbol
    <3>2. Sym(v) \in Token
      BY DEF Token
    <3>3. q \in Seq(Token) /\ Len(q) <= 2
      BY <2>1, <3>2, PendingTokens
    <3> HIDE DEF q
    <3> QED BY <3>1, <3>3
  <2> QED BY <2>2, <2>3
<1> DEFINE done == Written(TheWriter, q)
<1>5. /\ eah' = done.ah /\ eahrle' = done.ahrle /\ ends' = done.ends
      /\ bits' = done.bits \o Padding(FALSE, done.bits)
  <2>1. SubSeq(tokens', Len(tokens) + 1, Len(tokens')) = q
    BY <1>3, <1>4, Behind
  <2> QED BY <2>1 DEF WriteSymbol, Write, TheWriter, done
<1>6. Writer(done, tokens')
  BY <1>2, <1>3, <1>4, WrittenKeeps
<1> HIDE DEF done
<1>7. done.bits \in Seq(Bit)
  BY <1>6 DEF Writer, Wrote
<1>8. bits' = done.bits
  BY <1>5, <1>7, NoPadding
<1>9. Writer(TheWriter', tokens')
  <2>1. /\ TheWriter'.ah = done.ah /\ TheWriter'.ahrle = done.ahrle
        /\ TheWriter'.bits = done.bits /\ TheWriter'.ends = done.ends
    BY <1>5, <1>8 DEF TheWriter
  <2> HIDE DEF TheWriter
  <2> QED BY <1>6, <2>1 DEF Writer, Wrote
<1>10. Reader' = Start /\ at' = 0
  BY <1>1, <1>2 DEF Reader
<1> QED BY <1>1, <1>7, <1>8, <1>9, <1>10 DEF EntropyInv, BitsInv

\* The tokens of the end go behind the others, and the padding behind their bits.
LEMMA WriteEndKeeps == EntropyInv /\ WriteEnd => EntropyInv'
<1> SUFFICES ASSUME EntropyInv, WriteEnd PROVE EntropyInv'
  OBVIOUS
<1>1. /\ EncodeEnd /\ RunInv /\ RunInv' /\ readable = -1 /\ readable' = Len(tokens')
      /\ dah' = dah /\ dahrle' = dahrle /\ at' = at /\ dec' = dec /\ pos' = pos
  <2>1. EncodeEnd /\ RunInv
    BY DEF WriteEnd, EntropyInv
  <2>2. RunInv'
    BY <2>1, EncodeEndKeeps
  <2> QED BY <2>1, <2>2 DEF WriteEnd, Write, EncodeEnd, decVars
<1>2. Writer(TheWriter, tokens) /\ at = 0 /\ Reader = Start /\ pos = 0
  BY <1>1 DEF EntropyInv, BitsInv, RunInv, Progress, DecoderWaits
<1>3. tokens \in Seq(Token) /\ tokens' \in Seq(Token)
  BY <1>1 DEF RunInv, Types
<1> DEFINE q == Append(Pending(enc.counter), Sym(eofSymbol))
<1>4. tokens' = tokens \o q /\ q \in Seq(Token) /\ Len(q) <= 2 /\ Len(q) >= 1
  <2>1. enc.counter \in 0 .. MaxRun + n - 1
    BY <1>1 DEF RunInv, Types
  <2>2. Sym(eofSymbol) \in Token
    BY DEF Token
  <2>3. tokens' = tokens \o q
    BY <1>1 DEF EncodeEnd
  <2> QED BY <2>1, <2>2, <2>3, PendingTokens
<1> HIDE DEF q
<1> DEFINE done == Written(TheWriter, q)
<1>5. /\ ends' = done.ends /\ bits' = done.bits \o Padding(TRUE, done.bits)
      /\ spare' = (Len(bits') > Last(ends'))
  <2>1. SubSeq(tokens', Len(tokens) + 1, Len(tokens')) = q
    BY <1>3, <1>4, Behind
  <2> QED BY <2>1 DEF WriteEnd, Write, TheWriter, done
<1>6. Writer(done, tokens')
  BY <1>2, <1>3, <1>4, WrittenKeeps
<1> HIDE DEF done
<1>7. PICK t, e : Wrote(done, t, e, tokens')
  BY <1>6 DEF Writer
<1> DEFINE m == Len(tokens')
<1>8. m \in Nat /\ m >= 1
  BY <1>3, <1>4
<1>9. /\ Coded(t, e, tokens', m, done.bits) /\ done.bits \in Seq(Bit) /\ e[m] = Len(done.bits)
      /\ ends' \in Seq(Nat) /\ Len(ends') = m /\ \A i \in 1 .. m : ends'[i] = e[i]
  BY <1>5, <1>7 DEF Wrote
<1>10. bits' \in Seq(Bit) /\ Len(bits') >= e[m]
       /\ \A x \in 1 .. e[m] : x <= Len(done.bits) /\ bits'[x] = done.bits[x]
  <2> DEFINE zeros == Padding(TRUE, done.bits)
  <2>1. zeros \in Seq(Bit)
    BY <1>9, PaddingBits
  <2> HIDE DEF zeros
  <2>2. bits' = done.bits \o zeros
    BY <1>5 DEF zeros
  <2> QED BY <1>9, <2>1, <2>2
<1>11. Coded(t, e, tokens', m, bits')
  BY <1>8, <1>9, <1>10, CodedOther
<1>12. /\ e \in [0 .. m -> Nat] /\ e[0] = 0 /\ t[0] = Start
       /\ \A i \in 0 .. m : i < m => e[i] < e[m]
  BY <1>8, <1>9 DEF Coded
<1>13. \A i \in 0 .. m : i <= readable' <=> e[i] <= Len(bits')
  <2> SUFFICES ASSUME NEW i \in 0 .. m PROVE i <= m /\ e[i] <= Len(bits')
    BY <1>1
  <2>1. e[i] \in Nat /\ e[m] \in Nat /\ (i = m \/ e[i] < e[m]) /\ Len(bits') \in Nat
    BY <1>8, <1>10, <1>12
  <2> QED BY <1>10, <2>1
<1>14. spare' = (Len(bits') > e[readable'])
  <2>1. Last(ends') = e[m]
    BY <1>8, <1>9 DEF Last
  <2> QED BY <1>1, <1>5, <2>1
<1>15. at' = e[pos'] /\ Twins(Reader', t[pos'])
  <2>1. Reader' = Start /\ at' = 0 /\ pos' = 0
    BY <1>1, <1>2 DEF Reader
  <2> QED BY <1>12, <2>1, StartTwins
<1>16. Archived(t, e)'
  BY <1>9, <1>11, <1>13, <1>14, <1>15 DEF Archived
<1>17. readable' # -1
  BY <1>1, <1>8
<1> QED BY <1>1, <1>10, <1>16, <1>17 DEF EntropyInv, BitsInv

-------------------------------------------------------------------------------
(* The cut. *)

\* How many tokens are whole in the first b bits.
LEMMA WholeTokens ==
  ASSUME NEW m \in Nat, NEW e \in [0 .. m -> Nat], e[0] = 0,
         \A i, j \in 0 .. m : i < j => e[i] < e[j], NEW b \in Nat,
         NEW whole, \A i : i \in whole <=> i \in 1 .. m /\ e[i] <= b,
         NEW S, \A y : y \in S <=> y = 0 \/ \E i \in whole : y = e[i]
  PROVE  /\ Cardinality(whole) \in 0 .. m
         /\ \A i \in 0 .. m : i <= Cardinality(whole) <=> e[i] <= b
         /\ Max(S) = e[Cardinality(whole)]
<1> DEFINE U == {i \in Nat : i > m \/ e[i] > b}
<1>1. PICK x \in U : \A y \in U : ~ (y < x)
  <2>1. m + 1 \in U /\ U \subseteq Nat
    OBVIOUS
  <2> HIDE DEF U
  <2>2. \E x \in U : \A y \in U : ~ (<<y, x>> \in OpToRel(<, Nat))
    BY <2>1, NatLessThanWellFounded, WFMin
  <2> QED BY <2>1, <2>2 DEF OpToRel
<1>2. x # 0 /\ x \in Nat /\ x <= m + 1
  <2>1. x # 0
    OBVIOUS
  <2>2. m + 1 \in U /\ x \in Nat
    OBVIOUS
  <2>3. ~ (m + 1 < x)
    BY <1>1, <2>2
  <2> QED BY <2>1, <2>2, <2>3
<1>3. PICK k \in 0 .. m : x = k + 1
  <2>1. x - 1 \in 0 .. m /\ x = (x - 1) + 1
    BY <1>2
  <2> QED BY <2>1
<1>4. ASSUME NEW i \in 0 .. m PROVE i <= k <=> e[i] <= b
  <2>1. ASSUME i <= k PROVE e[i] <= b
    <3>1. i < x /\ i \in Nat
      BY <1>3, <2>1
    <3>2. i \notin U
      BY <1>1, <3>1
    <3>3. e[i] \in Nat
      OBVIOUS
    <3> QED BY <3>1, <3>2, <3>3
  <2>2. ASSUME ~ (i <= k) PROVE ~ (e[i] <= b)
    <3>1. x \in 0 .. m /\ e[x] > b
      BY <1>3, <2>2
    <3>2. x = i \/ x < i
      BY <1>3, <2>2
    <3>3. e[x] = e[i] \/ e[x] < e[i]
      BY <3>1, <3>2
    <3>4. e[i] \in Nat /\ e[x] \in Nat
      BY <3>1
    <3> QED BY <3>1, <3>3, <3>4
  <2> QED BY <2>1, <2>2
<1> HIDE DEF U
<1>5. whole = 1 .. k
  <2>1. \A i \in 1 .. m : i \in 0 .. m /\ (i <= k <=> i \in 1 .. k)
    OBVIOUS
  <2>2. 1 .. k \subseteq 1 .. m
    OBVIOUS
  <2> QED BY <1>4, <2>1, <2>2
<1>6. Cardinality(whole) = k
  <2>1. 1 \in Int /\ k \in Int
    OBVIOUS
  <2>2. Cardinality(1 .. k) = IF 1 > k THEN 0 ELSE k - 1 + 1
    BY <2>1, FS_Interval
  <2>3. (IF 1 > k THEN 0 ELSE k - 1 + 1) = k
    OBVIOUS
  <2> QED BY <1>5, <2>2, <2>3
<1>7. Max(S) = e[k]
  <2>1. e[k] \in S /\ e[k] \in Nat
    <3>1. CASE k = 0
      BY <3>1
    <3>2. CASE k # 0
      <4>1. k \in whole
        BY <1>5, <3>2
      <4> QED BY <4>1
    <3> QED BY <3>1, <3>2
  <2>2. ASSUME NEW y \in S PROVE y \in Nat /\ e[k] >= y
    <3>1. CASE y = 0
      BY <2>1, <3>1
    <3>2. CASE y # 0
      <4>1. PICK i \in whole : y = e[i]
        BY <3>2
      <4>2. i \in 0 .. m /\ (i = k \/ i < k)
        BY <1>5, <4>1
      <4>3. e[i] \in Nat /\ (e[i] = e[k] \/ e[i] < e[k])
        BY <4>2
      <4> QED BY <2>1, <4>1, <4>3
    <3> QED BY <3>1, <3>2
  <2>3. \A x1 \in S : (\A y \in S : x1 >= y) <=> x1 = e[k]
    <3>1. ASSUME NEW x1 \in S, \A y \in S : x1 >= y PROVE x1 = e[k]
      BY <2>1, <2>2, <3>1
    <3> QED BY <2>2, <3>1
  <2>4. (CHOOSE x1 \in S : \A y \in S : x1 >= y) = e[k]
    BY <2>1, <2>3
  <2> QED BY <2>4 DEF Max
<1> QED BY <1>4, <1>6, <1>7

\* Of the archive some bytes are left, and with them the tokens that RunLength
\* says.
LEMMA CutBytesKeeps ==
  ASSUME EntropyInv, NEW bytes \in 0 .. Len(bits) \div BITS, CutBytes(bytes)
  PROVE  EntropyInv'
<1> DEFINE b == bytes * BITS
           m == Len(tokens)
<1>1. /\ Cut /\ RunInv /\ RunInv' /\ readable = m /\ pos = 0 /\ pos' = pos /\ tokens' = tokens
      /\ dah' = dah /\ dahrle' = dahrle /\ at' = at /\ ends' = ends /\ dec' = dec /\ ~ dec.eof
      /\ tokens \in Seq(Token) /\ m \in Nat /\ bits \in Seq(Bit) /\ b \in Nat /\ b < Len(bits)
      /\ bits' = SubSeq(bits, 1, b)
  <2>1. Cut /\ RunInv /\ bits \in Seq(Bit)
    BY DEF CutBytes, EntropyInv, BitsInv
  <2>2. RunInv'
    BY <2>1, CutKeeps
  <2>3. tokens \in Seq(Token) /\ m \in Nat
    BY <2>1 DEF RunInv, Types
  <2>4. bytes \in Nat /\ b \in Nat
    <3>1. Len(bits) \in Nat /\ BITS \in Nat \ {0}
      BY <2>1, EntropyAssumption
    <3>2. bytes \in Nat
      OBVIOUS
    <3> QED BY <3>1, <3>2
  <2> QED BY <2>1, <2>2, <2>3, <2>4 DEF CutBytes, Cut, decVars
<1>2. PICK t, e : Archived(t, e)
  BY <1>1 DEF EntropyInv, BitsInv
<1>3. /\ Coded(t, e, tokens, m, bits) /\ ends \in Seq(Nat) /\ Len(ends) = m
      /\ \A i \in 1 .. m : ends[i] = e[i]
      /\ at = e[pos] /\ Twins(Reader, t[pos])
  BY <1>1, <1>2 DEF Archived
<1>4. e \in [0 .. m -> Nat] /\ e[0] = 0 /\ \A i, j \in 0 .. m : i < j => e[i] < e[j]
  BY <1>3 DEF Coded
<1> DEFINE whole == {i \in 1 .. m : e[i] <= b}
<1>5. {i \in DOMAIN ends : ends[i] <= b} = whole
  <2>1. DOMAIN ends = 1 .. m
    BY <1>1, <1>3
  <2> QED BY <1>3, <2>1
<1> DEFINE S == {ends[i] : i \in whole} \cup {0}
<1>6. \A y : y \in S <=> y = 0 \/ \E i \in whole : y = e[i]
  BY <1>3
<1> HIDE DEF b, m
<1>7. readable' = Cardinality(whole) /\ spare' = (b > Max(S))
  <2> HIDE DEF whole
  <2> QED BY <1>5 DEF CutBytes, b
<1> HIDE DEF S
<1>8. /\ readable' \in 0 .. m
      /\ \A i \in 0 .. m : i <= readable' <=> e[i] <= b
      /\ spare' = (b > e[readable'])
  <2>1. \A i : i \in whole <=> i \in 1 .. m /\ e[i] <= b
    OBVIOUS
  <2> HIDE DEF whole
  <2>2. m \in Nat /\ b \in Nat
    BY <1>1 DEF m
  <2>3. /\ Cardinality(whole) \in 0 .. m
        /\ \A i \in 0 .. m : i <= Cardinality(whole) <=> e[i] <= b
        /\ Max(S) = e[Cardinality(whole)]
    <3>1. e \in [0 .. m -> Nat] /\ e[0] = 0 /\ \A i, j \in 0 .. m : i < j => e[i] < e[j]
      BY <1>4
    <3> QED BY <1>6, <2>1, <2>2, <3>1, WholeTokens
  <2> QED BY <1>7, <2>3
<1>9. bits' \in Seq(Bit) /\ Len(bits') = b /\ \A x \in 1 .. b : bits'[x] = bits[x]
  BY <1>1
<1>10. Coded(t, e, tokens, m, bits')
  <2>1. \A x \in 1 .. e[m] : x <= Len(bits') => x <= Len(bits) /\ bits'[x] = bits[x]
    <3>1. e[m] \in Nat /\ Len(bits) \in Nat
      BY <1>1, <1>4
    <3> QED BY <1>1, <1>9, <3>1
  <2> QED BY <1>1, <1>3, <1>9, <2>1, CodedOther
<1>11. Archived(t, e)'
  <2>1. Reader' = Reader /\ m = Len(tokens')
    BY <1>1 DEF Reader, m
  <2> QED BY <1>1, <1>3, <1>8, <1>9, <1>10, <2>1 DEF Archived
<1>12. readable' # -1
  BY <1>1, <1>8
<1> QED BY <1>1, <1>9, <1>11, <1>12 DEF EntropyInv, BitsInv

-------------------------------------------------------------------------------
(* The decoder. *)

\* Behind what has been read comes the next token's code, as much as there is.
LEMMA TokenComes ==
  ASSUME EntropyInv, pc \in {"symbol", "run"}
  PROVE  /\ readable >= 0 /\ ~ dec.eof /\ pos \in 0 .. Len(tokens) - 1 /\ pos <= readable
         /\ readable \in 0 .. Len(tokens)
         /\ tokens \in Seq(Token) /\ tokens[pos + 1] \in Token
         /\ tokens[pos + 1].coder = IF pc = "symbol" THEN "ah" ELSE "ahrle"
<1>1. /\ RunInv /\ pos \in Nat /\ readable \in -1 .. Len(tokens) /\ Len(tokens) \in Nat
      /\ tokens \in Seq(Token)
  BY DEF EntropyInv, RunInv, Types
<1>2. readable >= 0
  <2>1. readable # -1
    BY <1>1 DEF RunInv, Progress, DecoderWaits
  <2> QED BY <1>1, <2>1
<1>3. PICK d : Ended(d) /\ Decodes(d)
  BY <1>1, <1>2, DecoderBegins
<1>4. ~ dec.eof /\ pos <= Len(tokens) - 1 /\ pos <= readable
  BY <1>3 DEF Decodes
<1>5. tokens[pos + 1] \in Token
  <2>1. pos + 1 \in 1 .. Len(tokens)
    BY <1>1, <1>4
  <2> QED BY <1>1, <2>1
<1>6. tokens[pos + 1].coder = IF pc = "symbol" THEN "ah" ELSE "ahrle"
  BY <1>1, <1>2, <1>4, NextCoder
<1> QED BY <1>1, <1>2, <1>4, <1>5, <1>6

\* What is left of a sequence.
LEMMA RestOf ==
  ASSUME NEW S, NEW s \in Seq(S), NEW k \in Nat, k <= Len(s)
  PROVE  /\ SubSeq(s, k + 1, Len(s)) \in Seq(S)
         /\ Len(SubSeq(s, k + 1, Len(s))) = Len(s) - k
         /\ \A j \in 1 .. Len(s) - k : SubSeq(s, k + 1, Len(s))[j] = s[k + j]
<1>1. Len(s) \in Nat
  OBVIOUS
<1>2. SubSeq(s, k + 1, Len(s)) \in Seq(S)
  BY <1>1
<1>3. Len(SubSeq(s, k + 1, Len(s))) = Len(s) - k
  <2>1. CASE k + 1 <= Len(s)
    BY <1>1, <2>1
  <2>2. CASE k = Len(s)
    BY <1>1, <2>2
  <2> QED BY <1>1, <2>1, <2>2
<1>4. ASSUME NEW j \in 1 .. Len(s) - k PROVE SubSeq(s, k + 1, Len(s))[j] = s[k + j]
  <2>1. SubSeq(s, k + 1, Len(s))[j] = s[(k + 1) + j - 1] /\ (k + 1) + j - 1 = k + j
    BY <1>1, <1>3
  <2> QED BY <2>1
<1> QED BY <1>2, <1>3, <1>4

\* What the coder reads is the token, and with its code all that RunLength says
\* of the archive; or the code is cut, and the coder says so.
LEMMA TokenIsRead ==
  ASSUME EntropyInv, pc \in {"symbol", "run"},
         NEW token, token = tokens[pos + 1], NEW out, out = In(Reader, token, Unread)
  PROVE  \E t, e :
           /\ Archived(t, e)
           /\ IF NoToken THEN out.symbol = -1
              ELSE /\ out.symbol = token.value
                   /\ at + out.used = e[pos + 1]
                   /\ at + out.used < Len(bits) <=> (pos + 1 < readable \/ spare)
                   /\ Twins(Replaced(Reader, token, out.next), t[pos + 1])
<1>1. /\ readable >= 0 /\ ~ dec.eof /\ pos \in 0 .. Len(tokens) - 1 /\ pos <= readable
      /\ readable \in 0 .. Len(tokens)
      /\ tokens \in Seq(Token) /\ token \in Token /\ bits \in Seq(Bit)
  BY TokenComes DEF EntropyInv, BitsInv
<1>2. PICK t, e : Archived(t, e)
  BY <1>1 DEF EntropyInv, BitsInv
<1> DEFINE m == Len(tokens)
           c == Code(t[pos], token)
<1>3. /\ at = e[pos] /\ Twins(Reader, t[pos]) /\ spare = (Len(bits) > e[readable])
      /\ \A i \in 0 .. m : i <= readable <=> e[i] <= Len(bits)
      /\ Coded(t, e, tokens, m, bits)
  BY <1>1, <1>2 DEF Archived
<1>4. /\ e \in [0 .. m -> Nat] /\ \A i, j \in 0 .. m : i < j => e[i] < e[j]
  BY <1>3 DEF Coded
<1>5. /\ t[pos + 1] = After(t[pos], token) /\ e[pos + 1] = e[pos] + Len(c)
      /\ \A j \in 1 .. Len(c) : e[pos] + j <= Len(bits) => bits[e[pos] + j] = c[j]
  <2>1. PICK i \in 1 .. m : i = pos + 1
    BY <1>1
  <2>2. i - 1 = pos
    BY <1>1, <2>1
  <2>3. /\ t[i] = After(t[i - 1], tokens[i]) /\ e[i] = e[i - 1] + Len(Code(t[i - 1], tokens[i]))
        /\ \A j \in 1 .. Len(Code(t[i - 1], tokens[i])) :
             e[i - 1] + j <= Len(bits) => bits[e[i - 1] + j] = Code(t[i - 1], tokens[i])[j]
    BY <1>3 DEF Coded
  <2> QED BY <2>1, <2>2, <2>3
<1>6. c \in Seq(Bit) /\ Len(c) >= 1
      /\ \A b \in Seq(Bit) : Agrees(b, c) =>
           IF Len(c) <= Len(b)
           THEN /\ In(Reader, token, b).symbol = token.value /\ In(Reader, token, b).used = Len(c)
                /\ Twins(Replaced(Reader, token, In(Reader, token, b).next), After(t[pos], token))
           ELSE In(Reader, token, b).symbol = -1
  BY <1>1, <1>3, TokenPasses
<1> HIDE DEF c, m
<1>7. m \in Nat /\ pos \in 0 .. m /\ pos + 1 \in 0 .. m /\ readable \in 0 .. m
  BY <1>1 DEF m
<1>8. /\ e[pos] \in Nat /\ e[pos + 1] \in Nat /\ e[readable] \in Nat /\ Len(bits) \in Nat
      /\ Len(c) \in Nat /\ e[pos] <= Len(bits)
  BY <1>1, <1>3, <1>4, <1>6, <1>7
<1>9. Unread \in Seq(Bit) /\ Len(Unread) = Len(bits) - e[pos]
      /\ \A j \in 1 .. Len(Unread) : Unread[j] = bits[e[pos] + j]
  <2>1. Unread = SubSeq(bits, e[pos] + 1, Len(bits))
    BY <1>3 DEF Unread
  <2>2. /\ SubSeq(bits, e[pos] + 1, Len(bits)) \in Seq(Bit)
        /\ Len(SubSeq(bits, e[pos] + 1, Len(bits))) = Len(bits) - e[pos]
        /\ \A j \in 1 .. Len(bits) - e[pos] :
             SubSeq(bits, e[pos] + 1, Len(bits))[j] = bits[e[pos] + j]
    BY <1>1, <1>8, RestOf
  <2> QED BY <2>1, <2>2
<1>10. Agrees(Unread, c)
  <2> SUFFICES ASSUME NEW j \in 1 .. Len(c), j <= Len(Unread) PROVE Unread[j] = c[j]
    BY DEF Agrees
  <2>1. j \in 1 .. Len(Unread) /\ e[pos] + j <= Len(bits)
    BY <1>8, <1>9
  <2> QED BY <1>5, <1>9, <2>1
<1>11. NoToken <=> ~ (Len(c) <= Len(Unread))
  <2>1. pos + 1 <= readable <=> e[pos + 1] <= Len(bits)
    BY <1>3, <1>7
  <2>2. NoToken <=> ~ (pos + 1 <= readable)
    BY <1>1, <1>7 DEF NoToken
  <2>3. Len(c) <= Len(Unread) <=> e[pos + 1] <= Len(bits)
    BY <1>5, <1>8, <1>9
  <2> QED BY <2>1, <2>2, <2>3
<1>12. CASE NoToken
  <2>1. out.symbol = -1
    BY <1>6, <1>9, <1>10, <1>11, <1>12
  <2> QED BY <1>2, <1>12, <2>1
<1>13. CASE ~ NoToken
  <2>1. out.symbol = token.value /\ out.used = Len(c)
        /\ Twins(Replaced(Reader, token, out.next), t[pos + 1])
    BY <1>5, <1>6, <1>9, <1>10, <1>11, <1>13
  <2>2. at + out.used = e[pos + 1]
    BY <1>3, <1>5, <2>1
  <2>3. e[pos + 1] < Len(bits) <=> (pos + 1 < readable \/ spare)
    <3>1. pos + 1 <= readable
      BY <1>1, <1>7, <1>13 DEF NoToken
    <3>2. CASE pos + 1 = readable
      <4>1. e[pos + 1] = e[readable] /\ ~ (pos + 1 < readable)
        BY <1>1, <3>2
      <4>2. spare <=> Len(bits) > e[readable]
        BY <1>3
      <4> QED BY <1>8, <4>1, <4>2
    <3>3. CASE pos + 1 < readable
      <4>1. e[pos + 1] < e[readable] /\ e[readable] <= Len(bits)
        <5>1. readable <= readable
          BY <1>7
        <5> QED BY <1>3, <1>4, <1>7, <3>3, <5>1
      <4> QED BY <1>8, <3>3, <4>1
    <3> QED BY <1>1, <1>7, <3>1, <3>2, <3>3
  <2> QED BY <1>2, <1>13, <2>1, <2>2, <2>3
<1> QED BY <1>12, <1>13

\* The value of a token is a natural number.
LEMMA TokenValue == \A token \in Token : token.value \in Nat
<1> SUFFICES ASSUME NEW token \in Token PROVE token.value \in Nat
  OBVIOUS
<1>1. CASE \E s \in Value \cup {eofSymbol} : token = Sym(s)
  BY <1>1, RunLengthAssumption DEF Sym
<1>2. CASE \E k \in 0 .. MaxRun : token = Run(k)
  BY <1>2, RunLengthAssumption DEF Run
<1> QED BY <1>1, <1>2 DEF Token

\* A reading decoder stays on the archive, or has stopped.
LEMMA ReadKeeps ==
  ASSUME EntropyInv, RunInv', readable >= 0, UNCHANGED encVars, bits' = bits, ends' = ends,
         NEW t, NEW e, Archived(t, e),
         ~ dec'.eof => at' = e[pos'] /\ Twins(Reader', t[pos'])
  PROVE  EntropyInv'
<1>1. Archived(t, e)'
  BY DEF Archived, encVars
<1>2. bits' \in Seq(Bit) /\ readable' # -1
  <2>1. readable' = readable
    BY DEF encVars
  <2> QED BY <2>1 DEF EntropyInv, BitsInv, RunInv, Types
<1> QED BY <1>1, <1>2 DEF EntropyInv, BitsInv

\* A symbol out of the bits is the next token, which is a symbol.
LEMMA ReadSymbolKeeps ==
  ASSUME EntropyInv, ReadSymbol
  PROVE  DecodeSymbol /\ EntropyInv'
<1> DEFINE token == tokens[pos + 1]
           out == AH!decode(dah, Unread)
<1>1. /\ pc = "symbol" /\ dah' = out.next /\ at' = at + out.used
      /\ IF out.symbol < 0 THEN Stop /\ UNCHANGED pos
         ELSE SymbolRead(out.symbol, at + out.used < Len(bits)) /\ pos' = pos + 1
      /\ UNCHANGED encVars /\ UNCHANGED <<eah, eahrle, dahrle, bits, ends>>
  BY DEF ReadSymbol, encVars
<1>2. /\ readable >= 0 /\ token.coder = "ah" /\ token \in Token
      /\ pos \in 0 .. Len(tokens) - 1
  BY <1>1, TokenComes
<1>3. out = In(Reader, token, Unread)
  BY <1>2 DEF In, Reader
<1> HIDE DEF token, out
<1>4. PICK t, e :
        /\ Archived(t, e)
        /\ IF NoToken THEN out.symbol = -1
           ELSE /\ out.symbol = token.value
                /\ at + out.used = e[pos + 1]
                /\ at + out.used < Len(bits) <=> (pos + 1 < readable \/ spare)
                /\ Twins(Replaced(Reader, token, out.next), t[pos + 1])
  BY <1>1, <1>3, TokenIsRead DEF token
<1>5. CASE NoToken
  <2>1. Stop /\ UNCHANGED pos
    BY <1>1, <1>4, <1>5
  <2>2. DecodeSymbol
    BY <1>1, <1>5, <2>1 DEF DecodeSymbol
  <2>3. dec'.eof
    BY <2>1 DEF EntropyInv, RunInv, Types, Stop
  <2>4. RunInv'
    BY <2>2, DecodeSymbolKeeps DEF EntropyInv
  <2> QED BY <1>1, <1>2, <1>4, <2>2, <2>3, <2>4, ReadKeeps
<1>6. CASE ~ NoToken
  <2>1. /\ out.symbol = token.value /\ at + out.used = e[pos + 1]
        /\ at + out.used < Len(bits) <=> (pos + 1 < readable \/ spare)
        /\ Twins(Replaced(Reader, token, out.next), t[pos + 1])
    BY <1>4, <1>6
  <2>2. ~ (out.symbol < 0)
    BY <1>2, <2>1, TokenValue
  <2>3. pos' = pos + 1 /\ SymbolRead(token.value, pos + 1 < readable \/ spare)
    <3>1. (at + out.used < Len(bits)) = (pos + 1 < readable \/ spare)
      BY <2>1
    <3> QED BY <1>1, <2>1, <2>2, <3>1
  <2>4. DecodeSymbol
    BY <1>1, <1>6, <2>3 DEF DecodeSymbol, token
  <2>5. RunInv'
    BY <2>4, DecodeSymbolKeeps DEF EntropyInv
  <2>6. at' = e[pos'] /\ Twins(Reader', t[pos'])
    <3>1. Reader' = Replaced(Reader, token, out.next)
      BY <1>1, <1>2 DEF Reader, Replaced
    <3> QED BY <1>1, <2>1, <2>3, <3>1
  <2> QED BY <1>1, <1>2, <1>4, <2>4, <2>5, <2>6, ReadKeeps
<1> QED BY <1>5, <1>6

\* And a count is the next token, which is a run.
LEMMA ReadRunKeeps ==
  ASSUME EntropyInv, ReadRun
  PROVE  DecodeRun /\ EntropyInv'
<1> DEFINE token == tokens[pos + 1]
           out == AHRLE!decode(dahrle, Unread)
<1>1. /\ pc = "run" /\ dahrle' = out.next /\ at' = at + out.used
      /\ IF out.symbol < 0 THEN Stop /\ UNCHANGED pos
         ELSE RunRead(out.symbol) /\ pos' = pos + 1
      /\ UNCHANGED encVars /\ UNCHANGED <<eah, eahrle, dah, bits, ends>>
  BY DEF ReadRun, encVars
<1>2. /\ readable >= 0 /\ token.coder # "ah" /\ token \in Token
      /\ pos \in 0 .. Len(tokens) - 1
  BY <1>1, TokenComes
<1>3. out = In(Reader, token, Unread)
  BY <1>2 DEF In, Reader
<1> HIDE DEF token, out
<1>4. PICK t, e :
        /\ Archived(t, e)
        /\ IF NoToken THEN out.symbol = -1
           ELSE /\ out.symbol = token.value
                /\ at + out.used = e[pos + 1]
                /\ at + out.used < Len(bits) <=> (pos + 1 < readable \/ spare)
                /\ Twins(Replaced(Reader, token, out.next), t[pos + 1])
  BY <1>1, <1>3, TokenIsRead DEF token
<1>5. CASE NoToken
  <2>1. Stop /\ UNCHANGED pos
    BY <1>1, <1>4, <1>5
  <2>2. DecodeRun
    BY <1>1, <1>5, <2>1 DEF DecodeRun
  <2>3. dec'.eof
    BY <2>1 DEF EntropyInv, RunInv, Types, Stop
  <2>4. RunInv'
    BY <2>2, DecodeRunKeeps DEF EntropyInv
  <2> QED BY <1>1, <1>2, <1>4, <2>2, <2>3, <2>4, ReadKeeps
<1>6. CASE ~ NoToken
  <2>1. /\ out.symbol = token.value /\ at + out.used = e[pos + 1]
        /\ Twins(Replaced(Reader, token, out.next), t[pos + 1])
    BY <1>4, <1>6
  <2>2. ~ (out.symbol < 0)
    BY <1>2, <2>1, TokenValue
  <2>3. pos' = pos + 1 /\ RunRead(token.value)
    BY <1>1, <2>1, <2>2
  <2>4. DecodeRun
    BY <1>1, <1>6, <2>3 DEF DecodeRun, token
  <2>5. RunInv'
    BY <2>4, DecodeRunKeeps DEF EntropyInv
  <2>6. at' = e[pos'] /\ Twins(Reader', t[pos'])
    <3>1. Reader' = Replaced(Reader, token, out.next)
      BY <1>1, <1>2 DEF Reader, Replaced
    <3> QED BY <1>1, <2>1, <2>3, <3>1
  <2> QED BY <1>1, <1>2, <1>4, <2>4, <2>5, <2>6, ReadKeeps
<1> QED BY <1>5, <1>6

\* A call of the decoder reads nothing.
LEMMA EnterKeeps == EntropyInv /\ Enter => EntropyInv'
<1> SUFFICES ASSUME EntropyInv, Enter PROVE EntropyInv'
  OBVIOUS
<1>1. /\ RunInv /\ UNCHANGED encVars /\ pos' = pos /\ dec'.eof = dec.eof
      /\ dah' = dah /\ dahrle' = dahrle /\ bits' = bits /\ ends' = ends /\ at' = at
  <2>1. dec'.eof = dec.eof
    BY DEF EntropyInv, RunInv, Types, Enter, Call, CallAfterEof
  <2> QED BY <2>1 DEF EntropyInv, Enter, Call, CallAfterEof
<1>2. readable >= 0
  <2>1. readable >= 0 \/ dec.eof
    BY DEF Enter, Call, CallAfterEof
  <2>2. readable # -1
    BY <1>1, <2>1 DEF RunInv, Progress, DecoderWaits
  <2> QED BY <1>1, <2>2 DEF RunInv, Types
<1>3. RunInv'
  BY <1>1, CallKeeps, CallAfterEofKeeps DEF Enter
<1>4. PICK t, e : Archived(t, e)
  BY <1>2 DEF EntropyInv, BitsInv
<1>5. ~ dec'.eof => at' = e[pos'] /\ Twins(Reader', t[pos'])
  <2>1. Reader' = Reader
    BY <1>1 DEF Reader
  <2> QED BY <1>1, <1>4, <2>1 DEF Archived
<1> QED BY <1>1, <1>2, <1>3, <1>4, <1>5, ReadKeeps

-------------------------------------------------------------------------------
(* The theorems. *)

\* Every step keeps the invariant and is a step of RunLength.
LEMMA EntropyStep == EntropyInv /\ [EntropyNext]_allVars => EntropyInv' /\ [Next]_vars
<1> SUFFICES ASSUME EntropyInv, [EntropyNext]_allVars PROVE EntropyInv' /\ [Next]_vars
  OBVIOUS
<1>1. ASSUME NEW v \in Value, WriteSymbol(v) PROVE EntropyInv' /\ Next
  BY <1>1, WriteSymbolKeeps DEF WriteSymbol, Next, Encoding
<1>2. CASE WriteEnd
  BY <1>2, WriteEndKeeps DEF WriteEnd, Next, Encoding
<1>3. ASSUME NEW bytes \in 0 .. Len(bits) \div BITS, CutBytes(bytes) PROVE EntropyInv' /\ Next
  BY <1>3, CutBytesKeeps DEF CutBytes, Next
<1>4. CASE Reading
  BY <1>4, EnterKeeps, ReadSymbolKeeps, ReadRunKeeps DEF Reading, Enter, Next, Decoding
<1>5. CASE UNCHANGED allVars
  <2>1. UNCHANGED vars /\ UNCHANGED <<eah, eahrle, dah, dahrle, bits, ends, at>>
    BY <1>5 DEF allVars
  <2>2. RunInv'
    BY <2>1, RunInvStep DEF EntropyInv
  <2>3. BitsInv'
    BY <2>1 DEF EntropyInv, BitsInv, Archived, TheWriter, Reader, vars
  <2> QED BY <2>1, <2>2, <2>3 DEF EntropyInv
<1> QED BY <1>1, <1>2, <1>3, <1>4, <1>5 DEF EntropyNext

\* Over its two Huffman coders the run-length layer does what it does over
\* tokens: whatever the symbols, however long the runs and wherever the archive
\* is cut, each decoder's tree follows its encoder's, no code is read out of
\* another's bits or of padding, and the end of the bits is where it should be.
THEOREM BitsAreTokensCorrect == EntropySpec => BitsAreTokens
<1>1. EntropyInit => EntropyInv /\ Init
  BY EntropyInvInit DEF EntropyInit
<1>2. EntropyInv /\ [EntropyNext]_allVars => EntropyInv' /\ [Next]_vars
  BY EntropyStep
<1> QED BY <1>1, <1>2, PTL DEF EntropySpec, BitsAreTokens

\* With its fairness, so that all that is said of RunLength is true of it.
THEOREM EntropyImplementsRunLength == EntropySpec => Spec
BY BitsAreTokensCorrect, PTL DEF EntropySpec, BitsAreTokens, Spec
==============================================================================
