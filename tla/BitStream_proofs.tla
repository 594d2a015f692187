---------------------------- MODULE BitStream_proofs ----------------------------
(***************************************************************************)
(* Theorems about BitStream, for every size of the buffers and every       *)
(* number of bits in a byte.                                               *)
(***************************************************************************)
EXTENDS BitStream, SequenceTheorems, TLAPS

\* How many bits come before bit j of the byte with k bytes before it.
Nth(k, j) == k * BITS + j

Places == 0 .. BITS - 1

-------------------------------------------------------------------------------
(* Counting bits.  Past these lemmas no product is looked at.                 *)

\* A number of bits is a number.
LEMMA NthNat == ASSUME NEW k \in Nat, NEW j \in Nat PROVE Nth(k, j) \in Nat /\ Nth(0, 0) = 0
  BY StreamAssumption DEF Nth

\* The next bit, and behind a byte's last bit the next byte's first.
LEMMA NthNext ==
  ASSUME NEW k \in Nat, NEW j \in Nat
  PROVE  Nth(k, j + 1) = Nth(k, j) + 1 /\ Nth(k, BITS) = Nth(k + 1, 0) /\ Nth(k, j) = Nth(k, 0) + j
  BY StreamAssumption DEF Nth

\* Bytes come one behind the other.
LEMMA NthByte ==
  ASSUME NEW k \in Nat, NEW m \in Nat, k < m
  PROVE  Nth(k, 0) + BITS <= Nth(m, 0)
<1>1. PICK e \in Nat : m = k + 1 + e
  <2>1. m - k - 1 \in Nat /\ m = k + 1 + (m - k - 1)
    OBVIOUS
  <2> QED BY <2>1
<1>2. e * BITS \in Nat
  BY StreamAssumption
<1>3. m * BITS = k * BITS + BITS + e * BITS
  BY <1>1, StreamAssumption
<1> QED BY <1>2, <1>3, StreamAssumption DEF Nth

\* A bit of an earlier byte comes before every byte that follows.
LEMMA NthLess ==
  ASSUME NEW k \in Nat, NEW m \in Nat, NEW j \in Places, k < m
  PROVE  Nth(k, j) < Nth(m, 0) /\ Nth(k, 0) <= Nth(k, j)
<1>1. j \in Nat /\ j < BITS
  BY StreamAssumption DEF Places
<1>2. Nth(k, 0) + BITS <= Nth(m, 0) /\ Nth(k, j) = Nth(k, 0) + j
  BY <1>1, NthByte, NthNext
<1>3. Nth(k, 0) \in Nat /\ Nth(m, 0) \in Nat
  BY NthNat
<1> QED BY <1>1, <1>2, <1>3, StreamAssumption

\* A number of bits determines the byte and the bit in it.
LEMMA NthOne ==
  ASSUME NEW k \in Nat, NEW m \in Nat, NEW j \in Places, NEW i \in Places, Nth(k, j) = Nth(m, i)
  PROVE  k = m /\ j = i
<1>1. j \in Nat /\ i \in Nat
  BY StreamAssumption DEF Places
<1>2. Nth(k, 0) + j = Nth(m, 0) + i /\ Nth(k, 0) \in Nat /\ Nth(m, 0) \in Nat
  <2>1. Nth(k, j) = Nth(k, 0) + j /\ Nth(m, i) = Nth(m, 0) + i
    BY <1>1, NthNext
  <2> QED BY <2>1, NthNat
<1>3. ~ (k < m)
  <2> SUFFICES ASSUME k < m PROVE FALSE
    OBVIOUS
  <2>1. Nth(k, 0) + BITS <= Nth(m, 0)
    BY NthByte
  <2> QED BY <1>1, <1>2, <2>1, StreamAssumption DEF Places
<1>4. ~ (m < k)
  <2> SUFFICES ASSUME m < k PROVE FALSE
    OBVIOUS
  <2>1. Nth(m, 0) + BITS <= Nth(k, 0)
    BY NthByte
  <2> QED BY <1>1, <1>2, <2>1, StreamAssumption DEF Places
<1>5. k = m
  BY <1>3, <1>4
<1>6. Nth(k, 0) = Nth(m, 0)
  BY <1>5
<1>7. j = i
  BY <1>1, <1>2, <1>6
<1> QED BY <1>5, <1>7

\* The length of a file in bytes, as size computes it.
LEMMA NthSize ==
  ASSUME NEW count \in Nat, NEW m \in Nat, count <= Nth(m, 0), Nth(m, 0) < count + BITS
  PROVE  m = IF count % BITS > 0 THEN count \div BITS + 1 ELSE count \div BITS
<1> DEFINE q == count \div BITS
           r == count % BITS
<1>1. q \in Nat /\ r \in Places /\ count = q * BITS + r
  BY StreamAssumption DEF Places
<1> HIDE DEF q, r
<1>2. count = Nth(q, 0) + r /\ r \in Nat /\ r < BITS
  BY <1>1, StreamAssumption DEF Nth, Places
<1>3. Nth(q, 0) \in Nat /\ Nth(m, 0) \in Nat /\ Nth(q + 1, 0) = Nth(q, 0) + BITS
  <2>1. Nth(q, BITS) = Nth(q, 0) + BITS
    BY <1>1, StreamAssumption DEF Nth
  <2> QED BY <1>1, <2>1, NthNat, NthNext
<1>4. ~ (m < q)
  <2> SUFFICES ASSUME m < q PROVE FALSE
    OBVIOUS
  <2>1. Nth(m, 0) + BITS <= Nth(q, 0)
    BY <1>1, NthByte
  <2> QED BY <1>2, <1>3, <2>1, StreamAssumption
<1>5. CASE r > 0
  <2>1. m # q
    BY <1>2, <1>3, <1>5
  <2>2. ~ (q + 1 < m)
    <3> SUFFICES ASSUME q + 1 < m PROVE FALSE
      OBVIOUS
    <3>1. Nth(q + 1, 0) + BITS <= Nth(m, 0)
      BY <1>1, NthByte
    <3> QED BY <1>2, <1>3, <3>1, StreamAssumption
  <2> QED BY <1>1, <1>4, <1>5, <2>1, <2>2 DEF q, r
<1>6. CASE r = 0
  <2>1. ~ (q < m)
    <3> SUFFICES ASSUME q < m PROVE FALSE
      OBVIOUS
    <3>1. Nth(q, 0) + BITS <= Nth(m, 0)
      BY <1>1, NthByte
    <3> QED BY <1>2, <1>3, <1>6, <3>1, StreamAssumption
  <2> QED BY <1>1, <1>4, <1>6, <2>1 DEF q, r
<1> QED BY <1>2, <1>5, <1>6

\* The smaller of two numbers, for the amount that a refill gets.
LEMMA MinOfTwo ==
  ASSUME NEW a \in Int, NEW b \in Int
  PROVE  Min({a, b}) = IF a <= b THEN a ELSE b
  BY DEF Min

-------------------------------------------------------------------------------
(* The invariant.                                                             *)

\* Bit j of byte k (from 0) of a file that holds the bits `bits'.
At(bits, k, j) == IF Nth(k, j) < Len(bits) THEN bits[Nth(k, j) + 1] ELSE 0

\* The file holds the first of the bits.
Filed == \A k \in 1 .. Len(file), j \in Places : file[k][j] = At(written, k - 1, j)

\* The buffer goes on where the file ends, up to the byte that is being
\* filled; after the last flush the file holds all.
Collected ==
  IF flushed
  THEN Len(written) <= Nth(Len(file), 0) /\ Nth(Len(file), 0) < Len(written) + BITS
  ELSE /\ Len(written) = Nth(Len(file) + byte_pos, pos)
       /\ \A i \in 0 .. byte_pos, j \in Places : bitset[i][j] = At(written, Len(file) + i, j)

\* Between two buffers.
AtBorder == in_byte_pos = 0 /\ in_pos = 0

\* The reader's buffer is the part of the file that was taken last, and the
\* reader stands in it behind the bits it has returned.
Loaded ==
  /\ ~ flushed => AtBorder /\ taken = 0 /\ read_bytes = 0 /\ read = <<>> /\ good /\ ~ ended
  /\ read_bytes <= taken
  /\ \A i \in 0 .. read_bytes - 1 : in_bitset[i] = file[taken - read_bytes + i + 1]
  /\ AtBorder => Len(read) = Nth(taken, 0)
  /\ ~ AtBorder => /\ in_byte_pos < read_bytes
                   /\ Len(read) = Nth(taken - read_bytes + in_byte_pos, in_pos)
  /\ ~ good => taken = Len(file)
  /\ ended => AtBorder /\ taken = Len(file)

\* What was returned is what was written, or zeros behind it.
Returned ==
  \A i \in 1 .. Len(read) : read[i] = IF i <= Len(written) THEN written[i] ELSE 0

BitInv == TypeOK /\ Filed /\ Collected /\ Loaded /\ Returned

-------------------------------------------------------------------------------
(* The writer.                                                                *)

\* Both buffers are empty at first.
LEMMA BitInvInit == Init => BitInv
<1> SUFFICES ASSUME Init PROVE BitInv
  OBVIOUS
<1> USE StreamAssumption DEF Init
<1>1. ZeroByte \in Byte /\ ZeroBuffer \in [0 .. SIZE - 1 -> Byte]
  BY DEF ZeroByte, ZeroBuffer, Byte, Bit
<1>2. Nth(0, 0) = 0
  BY NthNat
<1>3. TypeOK
  <2>1. written \in Seq(Bit) /\ read \in Seq(Bit) /\ file \in Seq(Byte)
    OBVIOUS
  <2>2. /\ byte_pos \in 0 .. SIZE - 1 /\ pos \in 0 .. BITS - 1
        /\ in_byte_pos \in 0 .. SIZE - 1 /\ in_pos \in 0 .. BITS - 1
        /\ bit_count = Len(written) /\ read_bytes \in 0 .. SIZE /\ taken \in 0 .. Len(file)
    OBVIOUS
  <2>3. flushed \in BOOLEAN /\ good \in BOOLEAN /\ ended \in BOOLEAN
    OBVIOUS
  <2> QED BY <1>1, <2>1, <2>2, <2>3 DEF TypeOK
<1>4. Filed
  BY DEF Filed
<1>5. Collected
  <2>1. Len(file) + byte_pos = 0 /\ pos = 0 /\ Len(written) = 0
    OBVIOUS
  <2>2. ASSUME NEW i \in 0 .. byte_pos, NEW j \in Places
        PROVE  bitset[i][j] = At(written, Len(file) + i, j)
    <3>1. i = 0 /\ j \in Nat
      BY <2>1 DEF Places
    <3>2. bitset[i][j] = 0
      BY <3>1 DEF ZeroBuffer, ZeroByte, Places
    <3>3. Nth(Len(file) + i, j) \in Nat
      BY <2>1, <3>1, NthNat
    <3> QED BY <2>1, <3>2, <3>3 DEF At
  <2> QED BY <1>2, <2>1, <2>2 DEF Collected
<1>6. Loaded
  BY <1>2 DEF Loaded, AtBorder
<1>7. Returned
  BY DEF Returned
<1> QED BY <1>3, <1>4, <1>5, <1>6, <1>7 DEF BitInv

\* One more bit changes the place it goes to and no other.
LEMMA AtAppend ==
  ASSUME NEW bits \in Seq(Bit), NEW bit \in Bit, NEW m \in Nat, NEW p \in Places,
         Len(bits) = Nth(m, p), NEW k \in Nat, NEW j \in Places
  PROVE  /\ At(bits, m, p) = 0
         /\ At(Append(bits, bit), k, j) = IF k = m /\ j = p THEN bit ELSE At(bits, k, j)
<1>1. j \in Nat /\ p \in Nat
  BY StreamAssumption DEF Places
<1>2. Nth(k, j) \in Nat /\ Nth(m, p) \in Nat
  BY <1>1, NthNat
<1>3. At(bits, m, p) = 0
  BY <1>2 DEF At
<1>4. Len(Append(bits, bit)) = Len(bits) + 1 /\ Append(bits, bit)[Len(bits) + 1] = bit
      /\ \A i \in 1 .. Len(bits) : Append(bits, bit)[i] = bits[i]
  OBVIOUS
<1>5. CASE k = m /\ j = p
  BY <1>2, <1>3, <1>4, <1>5 DEF At
<1>6. CASE ~ (k = m /\ j = p)
  <2>1. Nth(k, j) # Nth(m, p)
    BY <1>6, NthOne
  <2>2. CASE Nth(k, j) < Nth(m, p)
    BY <1>2, <1>4, <1>6, <2>2 DEF At
  <2>3. CASE Nth(k, j) > Nth(m, p)
    BY <1>2, <1>4, <1>6, <2>3 DEF At
  <2> QED BY <1>2, <2>1, <2>2, <2>3
<1> QED BY <1>3, <1>5, <1>6

\* Behind the last bit there is nothing yet.
LEMMA AtBehind ==
  ASSUME NEW bits \in Seq(Bit), NEW m \in Nat, Len(bits) = Nth(m, 0), NEW j \in Places
  PROVE  At(bits, m, j) = 0
<1>1. j \in Nat
  BY StreamAssumption DEF Places
<1>2. Nth(m, j) = Nth(m, 0) + j /\ Nth(m, 0) \in Nat
  BY <1>1, NthNext, NthNat
<1> QED BY <1>1, <1>2 DEF At

\* The reader has not begun.
LEMMA ReaderWaits ==
  ASSUME BitInv, ~ flushed, UNCHANGED inVars
  PROVE  Loaded' /\ Returned'
<1>1. /\ AtBorder /\ taken = 0 /\ read_bytes = 0 /\ read = <<>> /\ good /\ ~ ended
  BY DEF BitInv, Loaded
<1>2. /\ AtBorder' /\ taken' = 0 /\ read_bytes' = 0 /\ read' = <<>> /\ good' /\ ~ ended'
  BY <1>1 DEF inVars, AtBorder
<1>3. Len(read') = 0 /\ Nth(0, 0) = 0
  BY <1>2, NthNat
<1> QED BY <1>2, <1>3 DEF Loaded, Returned

\* A written bit: in the middle of a byte, at its end, at the end of the buffer.
LEMMA WriteBitKeeps == ASSUME BitInv, NEW bit \in Bit, write_bit(bit) PROVE BitInv'
<1> USE StreamAssumption
<1>0. PICK m : m = Len(file)
  OBVIOUS
<1> DEFINE filled == [bitset EXCEPT ![byte_pos] = Or(@, pos, bit)]
           byteEnds == pos + 1 > BITS - 1
           bufferEnds == byteEnds /\ byte_pos + 1 >= SIZE
<1>1. /\ ~ flushed /\ flushed' = flushed /\ UNCHANGED inVars
      /\ written' = Append(written, bit) /\ bit_count' = bit_count + 1
      /\ pos' = (IF byteEnds THEN 0 ELSE pos + 1)
      /\ byte_pos' = (IF bufferEnds THEN 0 ELSE IF byteEnds THEN byte_pos + 1 ELSE byte_pos)
      /\ file' = (IF bufferEnds THEN file \o Bytes(filled, SIZE) ELSE file)
      /\ bitset' = (IF byteEnds THEN Cleared(filled, byte_pos') ELSE filled)
  BY DEF write_bit
<1>2. /\ written \in Seq(Bit) /\ file \in Seq(Byte) /\ m \in Nat /\ m = Len(file)
      /\ bitset \in [0 .. SIZE - 1 -> Byte] /\ in_bitset \in [0 .. SIZE - 1 -> Byte]
      /\ byte_pos \in 0 .. SIZE - 1 /\ pos \in 0 .. BITS - 1
      /\ bit_count = Len(written) /\ Len(written) \in Nat /\ byte_pos \in Nat /\ pos \in Nat
      /\ m + byte_pos \in Nat /\ pos \in Places
  BY <1>0 DEF BitInv, TypeOK, Places
<1>3. /\ Len(written) = Nth(m + byte_pos, pos)
      /\ \A i \in 0 .. byte_pos, j \in Places : bitset[i][j] = At(written, m + i, j)
  BY <1>0, <1>1 DEF BitInv, Collected
<1>4. /\ written' \in Seq(Bit) /\ Len(written') = Len(written) + 1
  BY <1>1, <1>2
<1>5. ASSUME NEW k \in Nat, NEW j \in Places
      PROVE  At(written', k, j) = IF k = m + byte_pos /\ j = pos THEN bit ELSE At(written, k, j)
  <2>1. At(Append(written, bit), k, j) =
          IF k = m + byte_pos /\ j = pos THEN bit ELSE At(written, k, j)
    <3>1. PICK b \in Nat : b = m + byte_pos
      BY <1>2
    <3>2. written \in Seq(Bit) /\ pos \in Places /\ Len(written) = Nth(b, pos)
      BY <1>2, <1>3, <3>1
    <3> QED BY <3>1, <3>2, AtAppend
  <2> QED BY <1>1, <2>1
<1>6. filled \in [0 .. SIZE - 1 -> Byte]
  <2>1. bitset[byte_pos] \in Byte
    BY <1>2
  <2>2. Or(bitset[byte_pos], pos, bit) \in Byte
    BY <1>2, <2>1 DEF Or, Byte, Bit
  <2> QED BY <1>2, <2>2
<1>7. ASSUME NEW i \in 0 .. byte_pos, NEW j \in Places
      PROVE  filled[i][j] = At(written', m + i, j)
  <2>0. m + i \in Nat /\ i \in 0 .. SIZE - 1
    BY <1>2
  <2>1. CASE i = byte_pos /\ j = pos
    <3>1. bitset[byte_pos][pos] = 0
      <4>1. At(written, m + byte_pos, pos) = 0
        BY <1>2, <1>3, AtAppend
      <4>2. byte_pos \in 0 .. byte_pos
        BY <1>2
      <4> QED BY <1>2, <1>3, <4>1, <4>2
    <3>2. bitset[byte_pos] \in Byte /\ filled[byte_pos] = Or(bitset[byte_pos], pos, bit)
      BY <1>2
    <3>3. filled[byte_pos][pos] = bit
      BY <1>2, <3>1, <3>2 DEF Or, Byte, Bit, Places
    <3>4. At(written', m + i, j) = bit
      BY <1>5, <2>0, <2>1
    <3> QED BY <2>1, <3>3, <3>4
  <2>2. CASE ~ (i = byte_pos /\ j = pos)
    <3>1. filled[i][j] = bitset[i][j]
      <4>1. CASE i # byte_pos
        BY <1>2, <2>0, <4>1
      <4>2. CASE i = byte_pos
        <5>1. bitset[byte_pos] \in Byte /\ filled[byte_pos] = Or(bitset[byte_pos], pos, bit)
          BY <1>2
        <5> QED BY <2>2, <4>2, <5>1 DEF Or, Byte, Places
      <4> QED BY <4>1, <4>2
    <3>2. m + i = m + byte_pos => i = byte_pos
      BY <1>2
    <3>3. At(written', m + i, j) = At(written, m + i, j)
      BY <1>5, <2>0, <2>2, <3>2
    <3> QED BY <1>3, <3>1, <3>3
  <2> QED BY <2>1, <2>2
<1> HIDE DEF filled
<1>8. ZeroByte \in Byte /\ \A j \in Places : ZeroByte[j] = 0
  BY DEF ZeroByte, Byte, Bit, Places
<1>9. \A k \in 1 .. m, j \in Places : file[k][j] = At(written', k - 1, j)
  <2> SUFFICES ASSUME NEW k \in 1 .. m, NEW j \in Places PROVE file[k][j] = At(written', k - 1, j)
    OBVIOUS
  <2>1. k - 1 \in Nat /\ k - 1 # m + byte_pos
    BY <1>2
  <2>2. file[k][j] = At(written, k - 1, j)
    BY <1>2 DEF BitInv, Filed
  <2> QED BY <1>5, <2>1, <2>2
<1>10. byteEnds => Len(written') = Nth(m + byte_pos + 1, 0)
  <2> SUFFICES ASSUME byteEnds PROVE Len(written') = Nth(m + byte_pos + 1, 0)
    OBVIOUS
  <2>1. pos + 1 = BITS
    BY <1>2
  <2>2. Nth(m + byte_pos, pos + 1) = Nth(m + byte_pos, pos) + 1
        /\ Nth(m + byte_pos, BITS) = Nth(m + byte_pos + 1, 0)
    BY <1>2, NthNext
  <2> QED BY <1>3, <1>4, <2>1, <2>2
<1>11. CASE ~ byteEnds
  <2>1. /\ pos' = pos + 1 /\ byte_pos' = byte_pos /\ file' = file /\ bitset' = filled
        /\ pos' \in 0 .. BITS - 1
    BY <1>1, <1>2, <1>11
  <2>2. Len(written') = Nth(m + byte_pos, pos + 1)
    BY <1>2, <1>3, <1>4, NthNext
  <2>3. Collected'
    BY <1>1, <1>2, <1>7, <2>1, <2>2 DEF Collected
  <2>4. Filed'
    BY <1>2, <1>9, <2>1 DEF Filed
  <2>5. TypeOK'
    BY <1>1, <1>2, <1>4, <1>6, <2>1 DEF BitInv, TypeOK, inVars
  <2> QED BY <1>1, <2>3, <2>4, <2>5, ReaderWaits DEF BitInv
<1>12. CASE byteEnds /\ ~ bufferEnds
  <2>1. /\ pos' = 0 /\ byte_pos' = byte_pos + 1 /\ file' = file /\ Len(file') = m
        /\ bitset' = [filled EXCEPT ![byte_pos + 1] = ZeroByte]
        /\ byte_pos + 1 \in 0 .. SIZE - 1 /\ pos' \in 0 .. BITS - 1
    <3>1. pos' = 0 /\ byte_pos' = byte_pos + 1 /\ file' = file /\ bitset' = Cleared(filled, byte_pos + 1)
      BY <1>1, <1>12
    <3> QED BY <1>2, <1>12, <3>1 DEF Cleared
  <2>2. bitset' \in [0 .. SIZE - 1 -> Byte]
    BY <1>6, <1>8, <2>1
  <2>3. Len(written') = Nth(Len(file') + byte_pos', pos')
    BY <1>2, <1>10, <1>12, <2>1
  <2>4. ASSUME NEW i \in 0 .. byte_pos', NEW j \in Places
        PROVE  bitset'[i][j] = At(written', Len(file') + i, j)
    <3>1. CASE i = byte_pos + 1
      <4>1. bitset'[i][j] = 0
        BY <1>6, <1>8, <2>1, <3>1
      <4>2. At(written', m + byte_pos + 1, j) = 0
        <5>1. m + byte_pos + 1 \in Nat
          BY <1>2
        <5> QED BY <1>4, <1>10, <1>12, <5>1, AtBehind
      <4>3. Len(file') + i = m + byte_pos + 1
        BY <1>2, <2>1, <3>1
      <4> QED BY <4>1, <4>2, <4>3
    <3>2. CASE i # byte_pos + 1
      <4>1. i \in 0 .. byte_pos /\ i \in 0 .. SIZE - 1 /\ bitset'[i] = filled[i]
        BY <1>2, <1>6, <2>1, <3>2
      <4> QED BY <1>7, <2>1, <4>1
    <3> QED BY <3>1, <3>2
  <2>5. Collected'
    BY <1>1, <2>3, <2>4 DEF Collected
  <2>6. Filed'
    BY <1>2, <1>9, <2>1 DEF Filed
  <2>7. TypeOK'
    BY <1>1, <1>2, <1>4, <2>1, <2>2 DEF BitInv, TypeOK, inVars
  <2> QED BY <1>1, <2>5, <2>6, <2>7, ReaderWaits DEF BitInv
<1>13. CASE bufferEnds
  <2>1. /\ pos' = 0 /\ byte_pos' = 0 /\ file' = file \o Bytes(filled, SIZE)
        /\ bitset' = [filled EXCEPT ![0] = ZeroByte]
        /\ byte_pos + 1 = SIZE /\ 0 \in 0 .. SIZE - 1 /\ 0 \in 0 .. BITS - 1
    BY <1>1, <1>2, <1>13 DEF Cleared
  <2>2. bitset' \in [0 .. SIZE - 1 -> Byte]
    BY <1>6, <1>8, <2>1
  <2>3. Bytes(filled, SIZE) \in Seq(Byte) /\ Len(Bytes(filled, SIZE)) = SIZE
        /\ \A i \in 1 .. SIZE : Bytes(filled, SIZE)[i] = filled[i - 1]
    <3>1. Bytes(filled, SIZE) \in [1 .. SIZE -> Byte]
      BY <1>6 DEF Bytes
    <3> QED BY <3>1 DEF Bytes
  <2>4. /\ file' \in Seq(Byte) /\ Len(file') = m + SIZE
        /\ \A k \in 1 .. m : file'[k] = file[k]
        /\ \A i \in 1 .. SIZE : file'[m + i] = filled[i - 1]
    BY <1>2, <2>1, <2>3
  <2>5. Len(written') = Nth(Len(file') + byte_pos', pos')
    <3>1. m + byte_pos + 1 = Len(file') + byte_pos'
      <4>1. byte_pos + 1 = SIZE /\ byte_pos' = 0
        BY <2>1
      <4>2. Len(file') = m + SIZE
        BY <2>4
      <4>3. m \in Nat /\ byte_pos \in Nat /\ SIZE \in Nat
        BY <1>2
      <4> QED BY <4>1, <4>2, <4>3
    <3> QED BY <1>10, <1>13, <2>1, <3>1
  <2>6. ASSUME NEW i \in 0 .. byte_pos', NEW j \in Places
        PROVE  bitset'[i][j] = At(written', Len(file') + i, j)
    <3>1. i = 0 /\ bitset'[i][j] = 0
      BY <1>6, <1>8, <2>1
    <3>2. At(written', m + byte_pos + 1, j) = 0
      <4>1. m + byte_pos + 1 \in Nat
        BY <1>2
      <4> QED BY <1>4, <1>10, <1>13, <4>1, AtBehind
    <3>3. Len(file') + i = m + byte_pos + 1
      <4>1. byte_pos + 1 = SIZE
        BY <2>1
      <4>2. Len(file') = m + SIZE
        BY <2>4
      <4>3. m \in Nat /\ byte_pos \in Nat /\ SIZE \in Nat
        BY <1>2
      <4> QED BY <3>1, <4>1, <4>2, <4>3
    <3> QED BY <3>1, <3>2, <3>3
  <2>7. Collected'
    BY <1>1, <2>5, <2>6 DEF Collected
  <2>8. ASSUME NEW k \in 1 .. Len(file'), NEW j \in Places
        PROVE  file'[k][j] = At(written', k - 1, j)
    <3>1. CASE k <= m
      BY <1>2, <1>9, <2>4, <3>1
    <3>2. CASE k > m
      <4>1. PICK i \in 1 .. SIZE : k = m + i
        <5>1. k - m \in 1 .. SIZE /\ k = m + (k - m)
          BY <1>2, <2>4, <3>2
        <5> QED BY <5>1
      <4>2. i - 1 \in 0 .. byte_pos /\ m + (i - 1) = k - 1
        BY <1>2, <2>1, <4>1
      <4>3. filled[i - 1][j] = At(written', m + (i - 1), j)
        BY <1>7, <4>2
      <4> QED BY <2>4, <4>1, <4>2, <4>3
    <3> QED BY <1>2, <2>4, <3>1, <3>2
  <2>9. Filed'
    BY <2>8 DEF Filed
  <2>10. TypeOK'
    <3>1. taken' \in 0 .. Len(file')
      BY <1>1, <1>2, <2>4 DEF BitInv, TypeOK, inVars
    <3> QED BY <1>1, <1>2, <1>4, <2>1, <2>2, <2>4, <3>1 DEF BitInv, TypeOK, inVars
  <2> QED BY <1>1, <2>7, <2>9, <2>10, ReaderWaits DEF BitInv
<1> QED BY <1>11, <1>12, <1>13

\* The last flush: the byte that was begun goes out with the zeros behind it.
LEMMA FlushKeeps == BitInv /\ flush_remaining => BitInv'
<1> SUFFICES ASSUME BitInv, flush_remaining PROVE BitInv'
  OBVIOUS
<1> USE StreamAssumption
<1>1. /\ ~ flushed /\ flushed' = TRUE /\ UNCHANGED inVars /\ pos' = 0 /\ byte_pos' = 0
      /\ UNCHANGED <<written, bitset, bit_count>>
      /\ file' = file \o Bytes(bitset, IF pos > 0 THEN byte_pos + 1 ELSE byte_pos)
  BY DEF flush_remaining
<1>2. PICK m \in Nat, more \in Nat :
        m = Len(file) /\ more = IF pos > 0 THEN byte_pos + 1 ELSE byte_pos
  BY DEF BitInv, TypeOK
<1>3. /\ written \in Seq(Bit) /\ file \in Seq(Byte) /\ Len(written) \in Nat
      /\ bitset \in [0 .. SIZE - 1 -> Byte]
      /\ byte_pos \in 0 .. SIZE - 1 /\ byte_pos \in Nat /\ pos \in Places /\ pos \in Nat /\ pos < BITS
  BY DEF BitInv, TypeOK, Places
<1>4. /\ Len(written) = Nth(m + byte_pos, pos)
      /\ \A i \in 0 .. byte_pos, j \in Places : bitset[i][j] = At(written, m + i, j)
  BY <1>1, <1>2 DEF BitInv, Collected
<1>5. more <= SIZE /\ more <= byte_pos + 1
  BY <1>2, <1>3
<1>6. /\ Bytes(bitset, more) \in Seq(Byte) /\ Len(Bytes(bitset, more)) = more
      /\ \A i \in 1 .. more : Bytes(bitset, more)[i] = bitset[i - 1]
  <2>1. Bytes(bitset, more) \in [1 .. more -> Byte]
    BY <1>3, <1>5 DEF Bytes
  <2> QED BY <2>1 DEF Bytes
<1>7. file' = file \o Bytes(bitset, more)
  BY <1>1, <1>2
<1>8. /\ file' \in Seq(Byte) /\ Len(file') = m + more
      /\ \A k \in 1 .. m : file'[k] = file[k]
      /\ \A i \in 1 .. more : file'[m + i] = bitset[i - 1]
  <2>1. PICK more_bytes \in Seq(Byte) : more_bytes = Bytes(bitset, more)
    BY <1>6
  <2>2. Len(more_bytes) = more /\ \A i \in 1 .. more : more_bytes[i] = bitset[i - 1]
    BY <1>6, <2>1
  <2>3. file \in Seq(Byte) /\ Len(file) = m /\ file' = file \o more_bytes
    BY <1>2, <1>3, <1>7, <2>1
  <2>4. file' \in Seq(Byte) /\ Len(file') = m + more
    <3>1. Len(more_bytes) = more
      BY <2>2
    <3> QED BY <2>3, <3>1, ConcatProperties
  <2>5. \A k \in 1 .. m : file'[k] = file[k]
    BY <2>2, <2>3
  <2>6. ASSUME NEW i \in 1 .. more PROVE file'[m + i] = bitset[i - 1]
    <3>1. file'[m + i] = more_bytes[i]
      BY <2>2, <2>3
    <3> QED BY <2>2, <3>1
  <2> QED BY <2>4, <2>5, <2>6
<1>9. Filed'
  <2>1. ASSUME NEW k \in 1 .. m + more, NEW j \in Places PROVE file'[k][j] = At(written, k - 1, j)
    <3>1. CASE k <= m
      BY <1>2, <1>8, <2>1, <3>1 DEF BitInv, Filed
    <3>2. CASE k > m
      <4>1. PICK i \in 1 .. more : k = m + i
        <5>1. k - m \in 1 .. more /\ k = m + (k - m)
          BY <2>1, <3>2
        <5> QED BY <5>1
      <4>2. i - 1 \in 0 .. byte_pos /\ m + (i - 1) = k - 1
        BY <1>3, <1>5, <4>1
      <4> QED BY <1>4, <1>8, <4>1, <4>2
    <3> QED BY <2>1, <3>1, <3>2
  <2> QED BY <1>1, <1>8, <2>1 DEF Filed
<1>10. Len(written) <= Nth(m + more, 0) /\ Nth(m + more, 0) < Len(written) + BITS
  <2>1. PICK b \in Nat : b = m + byte_pos
    BY <1>3
  <2>2. Len(written) = Nth(b, 0) + pos /\ Nth(b, 0) \in Nat /\ Nth(b + 1, 0) = Nth(b, 0) + BITS
    <3>1. Nth(b, pos) = Nth(b, 0) + pos /\ Nth(b, BITS) = Nth(b + 1, 0) /\ Nth(b, 0) \in Nat
      BY <1>3, <2>1, NthNext, NthNat
    <3>2. Nth(b, BITS) = Nth(b, 0) + BITS
      BY <2>1, NthNext
    <3> QED BY <1>4, <2>1, <3>1, <3>2
  <2>3. CASE pos > 0
    <3>1. m + more = b + 1
      BY <1>2, <1>3, <2>1, <2>3
    <3> QED BY <1>3, <2>2, <2>3, <3>1
  <2>4. CASE pos = 0
    <3>1. m + more = b
      BY <1>2, <1>3, <2>1, <2>4
    <3> QED BY <1>3, <2>2, <2>4, <3>1
  <2> QED BY <1>3, <2>3, <2>4
<1>11. Collected'
  BY <1>1, <1>8, <1>10 DEF Collected
<1>12. TypeOK'
  <2>1. taken' \in 0 .. Len(file')
    BY <1>1, <1>2, <1>8 DEF BitInv, TypeOK, inVars
  <2>2. 0 \in 0 .. SIZE - 1 /\ 0 \in 0 .. BITS - 1
    OBVIOUS
  <2>3. \A b \in {bitset', in_bitset'} : b \in [0 .. SIZE - 1 -> Byte]
    BY <1>1 DEF BitInv, TypeOK, inVars
  <2> QED BY <1>1, <1>8, <2>1, <2>2, <2>3 DEF BitInv, TypeOK, inVars
<1> QED BY <1>1, <1>9, <1>11, <1>12, ReaderWaits DEF BitInv

-------------------------------------------------------------------------------
(* The reader.                                                                *)

\* After a refill, or without one in the middle of a buffer.
LEMMA RefillLoads ==
  ASSUME BitInv, flushed, UNCHANGED outVars,
         IF AtBorder THEN Refill ELSE UNCHANGED <<in_bitset, read_bytes, taken, good>>
  PROVE  /\ read_bytes' \in 0 .. SIZE /\ taken' \in 0 .. Len(file) /\ read_bytes' <= taken'
         /\ in_bitset' \in [0 .. SIZE - 1 -> Byte] /\ good' \in BOOLEAN
         /\ \A i \in 0 .. read_bytes' - 1 : in_bitset'[i] = file[taken' - read_bytes' + i + 1]
         /\ Len(read) = Nth(taken' - read_bytes' + in_byte_pos, in_pos)
         /\ read_bytes' > 0 => in_byte_pos < read_bytes'
         /\ ~ good' => taken' = Len(file)
         /\ read_bytes' = 0 => AtBorder /\ taken' = Len(file) /\ taken' = taken
<1> USE StreamAssumption
<1>1. /\ file \in Seq(Byte) /\ Len(file) \in Nat /\ taken \in 0 .. Len(file)
      /\ in_bitset \in [0 .. SIZE - 1 -> Byte] /\ read_bytes \in 0 .. SIZE
      /\ in_byte_pos \in 0 .. SIZE - 1 /\ in_pos \in 0 .. BITS - 1 /\ good \in BOOLEAN
  BY DEF BitInv, TypeOK
<1>2. CASE ~ AtBorder
  <2>1. /\ read_bytes' = read_bytes /\ taken' = taken /\ good' = good /\ in_bitset' = in_bitset
    BY <1>2
  <2>2. in_byte_pos < read_bytes /\ read_bytes > 0
    BY <1>1, <1>2 DEF BitInv, Loaded
  <2> QED BY <1>1, <1>2, <2>1, <2>2 DEF BitInv, Loaded
<1>3. CASE AtBorder
  <2>1. PICK l : l = IF good THEN Min({SIZE, Len(file) - taken}) ELSE 0
    OBVIOUS
  <2>2. /\ read_bytes' = l /\ taken' = taken + l /\ good' = (l = SIZE)
        /\ in_bitset' = [i \in 0 .. SIZE - 1 |-> IF i < l THEN file[taken + i + 1] ELSE in_bitset[i]]
    BY <1>3, <2>1 DEF Refill
  <2>3. l = IF good THEN (IF SIZE <= Len(file) - taken THEN SIZE ELSE Len(file) - taken) ELSE 0
    BY <1>1, <2>1, MinOfTwo
  <2>4. l \in 0 .. SIZE /\ taken + l \in 0 .. Len(file)
    BY <1>1, <2>3
  <2>5. l # SIZE => taken + l = Len(file)
    BY <1>1, <2>3 DEF BitInv, Loaded
  <2>6. in_bitset' \in [0 .. SIZE - 1 -> Byte]
    <3>1. ASSUME NEW i \in 0 .. SIZE - 1, i < l PROVE file[taken + i + 1] \in Byte
      <4>1. taken + i + 1 \in 1 .. Len(file)
        BY <1>1, <2>4, <3>1
      <4> QED BY <1>1, <4>1
    <3> QED BY <1>1, <2>2, <3>1
  <2>7. in_byte_pos = 0 /\ in_pos = 0 /\ Len(read) = Nth(taken, 0)
    BY <1>3 DEF AtBorder, BitInv, Loaded
  <2>8. taken' - read_bytes' = taken /\ taken' - read_bytes' + in_byte_pos = taken
    BY <1>1, <2>2, <2>4, <2>7
  <2>9. \A i \in 0 .. read_bytes' - 1 : in_bitset'[i] = file[taken' - read_bytes' + i + 1]
    BY <2>2, <2>4, <2>8
  <2>10. read_bytes' = 0 => taken' = Len(file) /\ taken' = taken
    BY <1>1, <2>2, <2>4, <2>5
  <2>11. ~ good' => taken' = Len(file)
    BY <2>2, <2>5
  <2> QED BY <1>1, <1>3, <2>2, <2>4, <2>6, <2>7, <2>8, <2>9, <2>10, <2>11
<1> QED BY <1>2, <1>3

\* Where the buffer that was read last begins in the file.
LEMMA StartOf ==
  ASSUME NEW t \in Nat, NEW r \in Nat, r <= t, NEW s, s = t - r
  PROVE  s \in Nat /\ t = s + r
OBVIOUS

\* A byte of the buffer that was read.
LEMMA BelowBytes ==
  ASSUME NEW a \in Nat, NEW r \in Nat, a < r
  PROVE  a \in 0 .. r - 1
OBVIOUS

\* Behind the last byte that was read the next one is still to be taken.
LEMMA LastByte ==
  ASSUME NEW a \in Nat, NEW r \in Nat, NEW s \in Nat, NEW t, NEW k,
         a < r, ~ (a + 1 < r), t = s + r, k = s + a
  PROVE  k + 1 = t
OBVIOUS

\* A bit is read out of the buffer, or the end is met.
LEMMA ReadBitKeeps == BitInv /\ read_bit => BitInv'
<1> SUFFICES ASSUME BitInv, read_bit PROVE BitInv'
  OBVIOUS
<1> USE StreamAssumption
<1>1. /\ flushed /\ ~ ended /\ UNCHANGED outVars
      /\ IF AtBorder THEN Refill ELSE UNCHANGED <<in_bitset, read_bytes, taken, good>>
  BY DEF read_bit, AtBorder
<1>2. PICK start : start = taken' - read_bytes'
  OBVIOUS
<1>3. /\ read_bytes' \in 0 .. SIZE /\ taken' \in 0 .. Len(file) /\ read_bytes' <= taken'
      /\ in_bitset' \in [0 .. SIZE - 1 -> Byte] /\ good' \in BOOLEAN
      /\ \A i \in 0 .. read_bytes' - 1 : in_bitset'[i] = file[start + i + 1]
      /\ Len(read) = Nth(start + in_byte_pos, in_pos)
      /\ read_bytes' > 0 => in_byte_pos < read_bytes'
      /\ ~ good' => taken' = Len(file)
      /\ read_bytes' = 0 => AtBorder /\ taken' = Len(file) /\ taken' = taken
  BY <1>1, <1>2, RefillLoads
<1>4. /\ file \in Seq(Byte) /\ Len(file) \in Nat /\ written \in Seq(Bit) /\ read \in Seq(Bit)
      /\ in_byte_pos \in 0 .. SIZE - 1 /\ in_pos \in Places /\ in_byte_pos \in Nat /\ in_pos \in Nat
      /\ taken' \in Nat /\ read_bytes' \in Nat /\ start \in Nat
      /\ taken' = start + read_bytes' /\ taken' <= Len(file)
  <2>1. /\ file \in Seq(Byte) /\ Len(file) \in Nat /\ written \in Seq(Bit) /\ read \in Seq(Bit)
        /\ in_byte_pos \in 0 .. SIZE - 1 /\ in_pos \in Places /\ in_byte_pos \in Nat /\ in_pos \in Nat
    BY DEF BitInv, TypeOK, Places
  <2>2. taken' \in Nat /\ read_bytes' \in Nat /\ read_bytes' <= taken' /\ taken' <= Len(file)
    BY <1>3, <2>1
  <2>3. start \in Nat /\ taken' = start + read_bytes'
    BY <1>2, <2>2, StartOf, Zenon
  <2> QED BY <2>1, <2>2, <2>3
<1>5. UNCHANGED <<written, bitset, byte_pos, pos, bit_count, file, flushed>>
  BY <1>1 DEF outVars
<1>6. Filed' /\ Collected'
  BY <1>5 DEF BitInv, Filed, Collected
<1>7. CASE read_bytes' = 0
  <2>1. ended' /\ ended' = TRUE /\ UNCHANGED <<in_byte_pos, in_pos, read>>
    BY <1>7 DEF read_bit
  <2>2. AtBorder /\ taken' = Len(file) /\ taken' = taken
    BY <1>3, <1>7
  <2>3. Loaded'
    <3>1. AtBorder' /\ Len(read') = Nth(taken', 0)
      BY <2>1, <2>2 DEF AtBorder, BitInv, Loaded
    <3> QED BY <1>1, <1>3, <1>4, <1>5, <1>7, <2>1, <2>2, <3>1 DEF Loaded
  <2>4. Returned'
    BY <1>5, <2>1 DEF BitInv, Returned
  <2>5. TypeOK'
    BY <1>3, <1>5, <2>1 DEF BitInv, TypeOK
  <2> QED BY <1>6, <2>3, <2>4, <2>5 DEF BitInv
<1>8. CASE read_bytes' # 0
  <2>1. PICK bit : bit = in_bitset'[in_byte_pos][in_pos]
    OBVIOUS
  <2>2. read' = Append(read, bit) /\ Advance /\ ended' = ended
    BY <1>8, <2>1 DEF read_bit
  <2>3. in_byte_pos < read_bytes'
    BY <1>3, <1>4, <1>8
  <2>4. PICK k \in Nat : k = start + in_byte_pos
    BY <1>4
  <2>5. bit = At(written, k, in_pos)
    <3>1. in_bitset'[in_byte_pos] = file[k + 1]
      <4>1. in_byte_pos \in 0 .. read_bytes' - 1
        <5>1. in_byte_pos \in Nat /\ read_bytes' \in Nat
          BY <1>4
        <5> QED BY <2>3, <5>1, BelowBytes, Zenon
      <4>2. in_bitset'[in_byte_pos] = file[start + in_byte_pos + 1]
        BY <1>3, <4>1
      <4> QED BY <2>4, <4>2
    <3>2. k + 1 \in 1 .. Len(file) /\ k + 1 - 1 = k
      BY <1>4, <2>3, <2>4
    <3>3. file[k + 1][in_pos] = At(written, k + 1 - 1, in_pos)
      BY <1>4, <3>2 DEF BitInv, Filed
    <3> QED BY <2>1, <3>1, <3>2, <3>3
  <2>6. bit \in Bit
    BY <1>3, <1>4, <2>1 DEF Byte, Places
  <2>7. read' \in Seq(Bit) /\ Len(read') = Nth(k, in_pos) + 1
    <3>1. Len(read) = Nth(k, in_pos)
      BY <1>3, <2>4
    <3> QED BY <1>4, <2>2, <2>6, <3>1
  <2>8. Returned'
    <3> SUFFICES ASSUME NEW i \in 1 .. Len(read')
                 PROVE  read'[i] = IF i <= Len(written) THEN written[i] ELSE 0
      BY <1>5 DEF Returned
    <3>1. Len(read) = Nth(k, in_pos) /\ Len(read') = Len(read) + 1 /\ Len(read) \in Nat
      BY <1>3, <1>4, <2>2, <2>4, <2>6
    <3>2. CASE i <= Len(read)
      <4>1. i \in 1 .. Len(read) /\ read'[i] = read[i]
        BY <1>4, <2>2, <2>6, <3>1, <3>2
      <4> QED BY <4>1 DEF BitInv, Returned
    <3>3. CASE i > Len(read)
      <4>1. i = Nth(k, in_pos) + 1 /\ read'[i] = bit /\ Nth(k, in_pos) \in Nat
        BY <1>4, <2>2, <2>6, <3>1, <3>3
      <4>2. Nth(k, in_pos) < Len(written) <=> i <= Len(written)
        BY <1>4, <4>1
      <4> QED BY <2>5, <4>1, <4>2 DEF At
    <3> QED BY <3>1, <3>2, <3>3
  <2>9. CASE in_pos + 1 <= BITS - 1
    <3>1. in_byte_pos' = in_byte_pos /\ in_pos' = in_pos + 1 /\ in_pos' \in 0 .. BITS - 1
      <4>1. (in_pos + 1) % BITS = in_pos + 1
        BY <1>4, <2>9
      <4> QED BY <1>4, <2>2, <2>9, <4>1 DEF Advance
    <3>2. Len(read') = Nth(k, in_pos')
      BY <1>4, <2>4, <2>7, <3>1, NthNext
    <3>3. ~ AtBorder'
      BY <1>4, <3>1 DEF AtBorder
    <3>4. Len(read') = Nth(taken' - read_bytes' + in_byte_pos', in_pos')
      BY <1>2, <2>4, <3>1, <3>2
    <3>5. Loaded'
      BY <1>1, <1>2, <1>3, <1>5, <2>2, <2>3, <3>1, <3>3, <3>4 DEF Loaded
    <3>6. TypeOK'
      BY <1>3, <1>5, <2>2, <2>7, <3>1 DEF BitInv, TypeOK
    <3> QED BY <1>6, <2>8, <3>5, <3>6 DEF BitInv
  <2>10. CASE in_pos + 1 > BITS - 1
    <3>1. in_pos + 1 = BITS /\ in_pos' = 0
      <4>1. in_pos + 1 = BITS
        BY <1>4, <2>10 DEF Places
      <4>2. BITS % BITS = 0
        OBVIOUS
      <4>3. in_pos' = (in_pos + 1) % BITS
        BY <2>2 DEF Advance
      <4> QED BY <4>1, <4>2, <4>3
    <3>2. Len(read') = Nth(k + 1, 0)
      <4>1. Nth(k, in_pos + 1) = Nth(k, in_pos) + 1 /\ Nth(k, BITS) = Nth(k + 1, 0)
        BY <1>4, <2>4, NthNext
      <4> QED BY <2>7, <3>1, <4>1
    <3>3. CASE in_byte_pos + 1 < read_bytes'
      <4>1. in_byte_pos' = in_byte_pos + 1 /\ in_byte_pos' \in 0 .. SIZE - 1
        BY <1>3, <1>4, <2>2, <2>10, <3>3 DEF Advance
      <4>2. ~ AtBorder'
        BY <1>4, <4>1 DEF AtBorder
      <4>3. taken' - read_bytes' + in_byte_pos' = k + 1
        BY <1>2, <1>4, <2>4, <4>1
      <4>4. Loaded'
        BY <1>1, <1>2, <1>3, <1>5, <2>2, <3>1, <3>2, <3>3, <4>1, <4>2, <4>3 DEF Loaded
      <4>5. TypeOK'
        BY <1>3, <1>5, <2>2, <2>7, <3>1, <4>1 DEF BitInv, TypeOK
      <4> QED BY <1>6, <2>8, <4>4, <4>5 DEF BitInv
    <3>4. CASE ~ (in_byte_pos + 1 < read_bytes')
      <4>1. in_byte_pos' = 0 /\ AtBorder'
        BY <2>2, <2>10, <3>1, <3>4 DEF Advance, AtBorder
      <4>2. k + 1 = taken'
        <5>1. /\ in_byte_pos \in Nat /\ read_bytes' \in Nat /\ start \in Nat
              /\ taken' = start + read_bytes'
          BY <1>4
        <5> QED BY <2>3, <2>4, <3>4, <5>1, LastByte, Zenon
      <4>3. Loaded'
        BY <1>1, <1>2, <1>3, <1>5, <2>2, <3>2, <4>1, <4>2 DEF Loaded
      <4>4. TypeOK'
        <5>1. 0 \in 0 .. SIZE - 1 /\ 0 \in 0 .. BITS - 1
          OBVIOUS
        <5> QED BY <1>3, <1>5, <2>2, <2>7, <3>1, <4>1, <5>1 DEF BitInv, TypeOK
      <4> QED BY <1>6, <2>8, <4>3, <4>4 DEF BitInv
    <3> QED BY <3>3, <3>4
  <2> QED BY <1>4, <2>9, <2>10
<1> QED BY <1>7, <1>8

-------------------------------------------------------------------------------
(* The theorems.                                                              *)

\* Every step keeps the invariant.
LEMMA BitInvStep == BitInv /\ [Next]_vars => BitInv'
<1> SUFFICES ASSUME BitInv, [Next]_vars PROVE BitInv'
  OBVIOUS
<1>1. CASE UNCHANGED vars
  <2>1. UNCHANGED outVars /\ UNCHANGED inVars
    BY <1>1 DEF vars
  <2>2. TypeOK'
    BY <2>1 DEF BitInv, TypeOK, outVars, inVars
  <2>3. Filed' /\ Collected'
    BY <2>1 DEF BitInv, Filed, Collected, outVars
  <2>4. Loaded' /\ Returned'
    BY <2>1 DEF BitInv, Loaded, Returned, AtBorder, outVars, inVars
  <2> QED BY <2>2, <2>3, <2>4 DEF BitInv
<1> QED BY <1>1, WriteBitKeeps, FlushKeeps, ReadBitKeeps DEF Next

\* So it always holds.
LEMMA BitInvAlways == Spec => []BitInv
<1>1. Init => BitInv
  BY BitInvInit
<1>2. BitInv /\ [Next]_vars => BitInv'
  BY BitInvStep
<1> QED BY <1>1, <1>2, PTL DEF Spec

\* The reader never gets behind the file, nor the file a byte behind the bits.
LEMMA Within ==
  ASSUME BitInv
  PROVE  /\ Len(read) \in Nat /\ Len(written) \in Nat
         /\ Len(read) < Len(written) + BITS
         /\ flushed => Len(written) <= Nth(Len(file), 0) /\ Nth(Len(file), 0) < Len(written) + BITS
<1> USE StreamAssumption
<1>1. /\ Len(read) \in Nat /\ Len(written) \in Nat /\ Len(file) \in Nat
      /\ taken \in 0 .. Len(file) /\ read_bytes \in 0 .. SIZE
      /\ in_byte_pos \in Nat /\ in_pos \in Places
  BY DEF BitInv, TypeOK, Places
<1>2. CASE ~ flushed
  BY <1>1, <1>2 DEF BitInv, Loaded
<1>3. CASE flushed
  <2>1. Len(written) <= Nth(Len(file), 0) /\ Nth(Len(file), 0) < Len(written) + BITS
    BY <1>3 DEF BitInv, Collected
  <2>2. Nth(Len(file), 0) \in Nat
    BY <1>1, NthNat
  <2>3. Len(read) <= Nth(Len(file), 0)
    <3>1. CASE AtBorder
      <4>1. Len(read) = Nth(taken, 0) /\ taken \in Nat
        BY <1>1, <3>1 DEF BitInv, Loaded
      <4>2. CASE taken = Len(file)
        BY <2>2, <4>1, <4>2
      <4>3. CASE taken < Len(file)
        <5>1. Nth(taken, 0) + BITS <= Nth(Len(file), 0) /\ Nth(taken, 0) \in Nat
          BY <1>1, <4>1, <4>3, NthByte, NthNat
        <5> QED BY <2>2, <4>1, <5>1
      <4> QED BY <1>1, <4>2, <4>3
    <3>2. CASE ~ AtBorder
      <4>1. PICK k : k = taken - read_bytes + in_byte_pos
        OBVIOUS
      <4>2. Len(read) = Nth(k, in_pos) /\ k \in Nat /\ k < Len(file)
        BY <1>1, <3>2, <4>1 DEF BitInv, Loaded
      <4>3. Nth(k, in_pos) < Nth(Len(file), 0)
        BY <1>1, <4>2, NthLess
      <4> QED BY <1>1, <2>2, <4>2, <4>3
    <3> QED BY <3>1, <3>2
  <2> QED BY <1>1, <2>1, <2>2, <2>3
<1> QED BY <1>2, <1>3

\* The bits come back as they were written, across every buffer border, with
\* fewer zeros behind them than a byte has bits.
THEOREM BitsInOrderCorrect == Spec => []BitsInOrder
<1>1. BitInv => BitsInOrder
  BY Within DEF BitInv, Returned, BitsInOrder
<1> QED BY <1>1, BitInvAlways, PTL

\* The end is told behind the last bit and not before, and it is where size
\* says it is.
THEOREM EndNoticedCorrect == Spec => []EndNoticed
<1>1. BitInv => EndNoticed
  <2> SUFFICES ASSUME BitInv PROVE EndNoticed
    OBVIOUS
  <2>1. /\ Len(read) \in Nat /\ Len(written) \in Nat /\ Len(file) \in Nat /\ bit_count = Len(written)
    BY DEF BitInv, TypeOK
  <2>2. flushed => Len(written) <= Nth(Len(file), 0) /\ Nth(Len(file), 0) < Len(written) + BITS
    BY Within
  <2>3. ended => Len(read) >= Len(written)
    <3> SUFFICES ASSUME ended PROVE Len(read) >= Len(written)
      OBVIOUS
    <3>1. flushed /\ Len(read) = Nth(Len(file), 0)
      BY DEF BitInv, Loaded
    <3> QED BY <2>1, <2>2, <3>1
  <2>4. flushed /\ Len(read) < Len(written) => remaining
    <3> SUFFICES ASSUME flushed, ~ remaining PROVE Len(read) >= Len(written)
      BY <2>1
    <3>1. ~ good /\ AtBorder
      BY DEF remaining, AtBorder
    <3>2. Len(read) = Nth(Len(file), 0)
      BY <3>1 DEF BitInv, Loaded
    <3> QED BY <2>1, <2>2, <3>2
  <2>5. flushed => size = Len(file)
    BY <2>1, <2>2, NthSize DEF size
  <2> QED BY <2>3, <2>4, <2>5 DEF EndNoticed
<1> QED BY <1>1, BitInvAlways, PTL
================================================================================
