------------------------------- MODULE BitStream -------------------------------
(***************************************************************************)
(* The bit streams of src/stream: obitstream collects bits in a buffer of  *)
(* SIZE bytes and hands it on when it is full; ibitstream refills a buffer *)
(* of its own from what the other left.  A file and the memory of a block  *)
(* worker behave alike here: a sequence of bytes.                          *)
(*                                                                         *)
(* Nothing marks the last bit.  The reader sees the padding of the last    *)
(* byte as bits, and learns of the end from a failed refill (EOF) or from  *)
(* remaining(), on which RunLength::decode_array stops.                    *)
(***************************************************************************)
EXTENDS Integers, Sequences, SequencesExt

CONSTANTS
  SIZE,    \* bytes of a buffer (4 MiB)
  BITS,    \* bits of a byte (8)
  MaxBits  \* bound on the bits written

ASSUME StreamAssumption ==
  SIZE \in Nat \ {0} /\ BITS \in Nat \ {0} /\ MaxBits \in Nat

VARIABLES
  written,     \* the bits given to write_bit
  bitset,      \* obitstream's buffer
  byte_pos, pos,
  bit_count,
  file,        \* bytes handed to write()
  flushed,     \* flush_remaining is done: the writer is over
  in_bitset,   \* ibitstream's buffer
  in_byte_pos, in_pos,
  read_bytes,
  taken,       \* bytes of the file that were read
  good,        \* the input stream's state, good()
  read,        \* the bits read_bit returned
  ended        \* read_bit has returned EOF

outVars == <<written, bitset, byte_pos, pos, bit_count, file, flushed>>
inVars == <<in_bitset, in_byte_pos, in_pos, read_bytes, taken, good, read, ended>>
vars == <<outVars, inVars>>

Bit == {0, 1}
ZeroByte == [j \in 0 .. BITS - 1 |-> 0]
ZeroBuffer == [i \in 0 .. SIZE - 1 |-> ZeroByte]

Init ==
  /\ written = <<>> /\ bitset = ZeroBuffer /\ byte_pos = 0 /\ pos = 0 /\ bit_count = 0
  /\ file = <<>> /\ flushed = FALSE
  /\ in_bitset = ZeroBuffer /\ in_byte_pos = 0 /\ in_pos = 0 /\ read_bytes = 0
  /\ taken = 0 /\ good = TRUE /\ read = <<>> /\ ended = FALSE

-------------------------------------------------------------------------------
(* obitstream *)

\* The first n bytes of a buffer.
Bytes(buffer, n) == [i \in 1 .. n |-> buffer[i - 1]]

\* bitset[byte_pos] |= bit << (7 - pos), here with the first bit at index 0.
Or(byte, j, bit) == [byte EXCEPT ![j] = IF bit = 1 THEN 1 ELSE @]

\* Slip: a byte is cleared only when a whole buffer was handed on.
Cleared_first(buffer, at) == IF at = 0 THEN [buffer EXCEPT ![0] = ZeroByte] ELSE buffer

\* bitset[byte_pos] = 0
Cleared(buffer, at) == [buffer EXCEPT ![at] = ZeroByte]

write_bit(bit) ==
  LET filled == [bitset EXCEPT ![byte_pos] = Or(@, pos, bit)]
      byteEnds == pos + 1 > BITS - 1
      bufferEnds == byteEnds /\ byte_pos + 1 >= SIZE
  IN  /\ ~flushed /\ bit_count < MaxBits
      /\ written' = Append(written, bit) /\ bit_count' = bit_count + 1
      /\ pos' = (IF byteEnds THEN 0 ELSE pos + 1)
      /\ byte_pos' = (IF bufferEnds THEN 0 ELSE IF byteEnds THEN byte_pos + 1 ELSE byte_pos)
      /\ file' = IF bufferEnds THEN file \o Bytes(filled, SIZE) ELSE file
      /\ bitset' = IF byteEnds THEN Cleared(filled, byte_pos') ELSE filled
      /\ UNCHANGED <<flushed, inVars>>

\* What is left goes out, the last byte as it is.
flush_remaining ==
  /\ ~flushed /\ flushed' = TRUE
  /\ file' = file \o Bytes(bitset, IF pos > 0 THEN byte_pos + 1 ELSE byte_pos)
  /\ pos' = 0 /\ byte_pos' = 0
  /\ UNCHANGED <<written, bitset, bit_count, inVars>>

\* obufbitstream::size, by which a block worker knows the length of its block.
size == IF bit_count % BITS > 0 THEN bit_count \div BITS + 1 ELSE bit_count \div BITS

-------------------------------------------------------------------------------
(* ibitstream *)

\* read() at a buffer's border: a stream that has failed gives nothing, and
\* one that comes short fails.
Refill ==
  LET n == IF good THEN Min({SIZE, Len(file) - taken}) ELSE 0
  IN  /\ read_bytes' = n /\ taken' = taken + n /\ good' = (n = SIZE)
      /\ in_bitset' = [i \in 0 .. SIZE - 1 |->
                         IF i < n THEN file[taken + i + 1] ELSE in_bitset[i]]

\* To the next bit; behind the last byte that was read, to the start.
Advance ==
  /\ in_pos' = (in_pos + 1) % BITS
  /\ in_byte_pos' = CASE in_pos + 1 <= BITS - 1 -> in_byte_pos
                      [] in_pos + 1 > BITS - 1 /\ in_byte_pos + 1 < read_bytes' -> in_byte_pos + 1
                      [] OTHER -> 0

read_bit ==
  /\ flushed /\ ~ended
  /\ IF in_byte_pos = 0 /\ in_pos = 0 THEN Refill
     ELSE UNCHANGED <<in_bitset, read_bytes, taken, good>>
  /\ IF read_bytes' = 0
     THEN /\ ended' = TRUE
          /\ UNCHANGED <<in_byte_pos, in_pos, read>>
     ELSE /\ read' = Append(read, in_bitset'[in_byte_pos][in_pos])
          /\ Advance
          /\ UNCHANGED ended
  /\ UNCHANGED outVars

\* Slip: the stream's state alone is asked.
remaining_good == good

remaining == good \/ in_byte_pos # 0 \/ in_pos # 0

-------------------------------------------------------------------------------
Next == (\E bit \in Bit : write_bit(bit)) \/ flush_remaining \/ read_bit

Spec == Init /\ [][Next]_vars

-------------------------------------------------------------------------------
Byte == [0 .. BITS - 1 -> Bit]

TypeOK ==
  /\ written \in Seq(Bit) /\ read \in Seq(Bit) /\ file \in Seq(Byte)
  /\ \A b \in {bitset, in_bitset} : b \in [0 .. SIZE - 1 -> Byte]
  /\ byte_pos \in 0 .. SIZE - 1 /\ pos \in 0 .. BITS - 1
  /\ in_byte_pos \in 0 .. SIZE - 1 /\ in_pos \in 0 .. BITS - 1
  /\ bit_count = Len(written) /\ read_bytes \in 0 .. SIZE /\ taken \in 0 .. Len(file)
  /\ flushed \in BOOLEAN /\ good \in BOOLEAN /\ ended \in BOOLEAN

\* The bits come back as they were written, across every buffer border and
\* with whatever the buffers held before; behind them come fewer zeros than a
\* byte has bits.
BitsInOrder ==
  /\ Len(read) < Len(written) + BITS
  /\ \A i \in 1 .. Len(read) : read[i] = IF i <= Len(written) THEN written[i] ELSE 0

\* EOF is returned behind the last bit, not before, also when the file ends
\* with a buffer; and as long as a written bit is unread remaining() says so,
\* or RunLength would drop the symbol it has just decoded.  The end is where size(),
\* which a block worker writes in front of its block, says it is.
EndNoticed ==
  /\ ended => Len(read) >= Len(written)
  /\ flushed /\ Len(read) < Len(written) => remaining
  /\ flushed => size = Len(file)
===============================================================================
