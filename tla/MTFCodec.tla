------------------------------- MODULE MTFCodec -------------------------------
(***************************************************************************)
(* The two ends of an archive: the table object that encodes a file symbol *)
(* by symbol and the one that later decodes it, started from the seed the  *)
(* archive carries (compress_stream and decompress_stream of               *)
(* src/mtf/MTFHashCompressor.h).  The entropy coder between them is a      *)
(* reliable queue here.  `codes' is never shortened: Len(decoded) is the   *)
(* reader's position in it, so the decoder may run any distance behind.    *)
(***************************************************************************)
EXTENDS MTFHashTable

CONSTANTS
  Memories,  \* pairs: max_memory_usage of the encoding table and of the
             \* decoding one; the archive does not record it
  MaxInput   \* bound on the length of the input

ASSUME CodecAssumption ==
  /\ Memories \subseteq Nat \X Nat
  /\ MaxInput \in Nat

VARIABLES
  enc,      \* the encoder's table object
  dec,      \* the decoder's table object
  sent,     \* symbols read from the input file
  codes,    \* codes of the archive
  decoded   \* symbols written to the output file

vars == <<enc, dec, sent, codes, decoded>>

Init ==
  /\ \E seed \in Seeds, memory \in Memories : /\ enc = NewTable(memory[1], seed)
                                              /\ dec = NewTable(memory[2], seed)
  /\ sent = <<>> /\ codes = <<>> /\ decoded = <<>>

Encode(c) ==
  LET out == mtf_encode(enc, c)
  IN  /\ Len(sent) < MaxInput
      /\ enc' = out.next
      /\ codes' = Append(codes, out.code)
      /\ sent' = Append(sent, c)
      /\ UNCHANGED <<dec, decoded>>

Decode ==
  LET out == mtf_decode(dec, codes[Len(decoded) + 1])
  IN  /\ Len(decoded) < Len(codes)
      /\ dec' = out.next
      /\ decoded' = Append(decoded, out.symbol)
      /\ UNCHANGED <<enc, sent, codes>>

Next == (\E c \in Symbol : Encode(c)) \/ Decode

Spec == Init /\ [][Next]_vars

-------------------------------------------------------------------------------
(* Types. *)

TypeOK ==
  /\ TableType(enc) /\ TableType(dec)
  /\ sent \in Seq(Symbol)
  /\ codes \in Seq(Codes)
  /\ decoded \in Seq(Symbol)

-------------------------------------------------------------------------------
(* Properties. *)

\* What mtf_decode writes is what mtf_encode read, in the same order, for any
\* distance between the two (test/test_compress_decompress.cpp:26).
Channel == INSTANCE ByteChannel WITH Value <- Symbol, delivered <- decoded

RoundTrip == Channel!Spec

\* What h was when it was new; a table keeps its seed and its limit.
Fresh(h) == [NewTable(0, h.seed) EXCEPT !.max_table_size = h.max_table_size]

\* What a new table of the encoder becomes symbol by symbol: Encoded[i] after
\* the first i of those that were sent.
Encoded ==
  LET after[i \in 0 .. Len(sent)] ==
        IF i = 0 THEN Fresh(enc)
        ELSE mtf_encode(after[i - 1], sent[i]).next
  IN  after

\* The decoder's table is the one the encoder had after the same symbols: the
\* two objects make the same probes, steals and doublings though one learns
\* the symbol before the probe and the other after it.
Synchronised == dec = Encoded[Len(decoded)]

\* Neither under the load nor over it: linear_probe is limited already, and
\* double_table does not double yet. With 7549747 / 2^23, the float 0.9, that
\* takes a size of 2^23 cells or more.
AtLoad(used, size) == used * LoadDen = size * LoadNum

MeetsLoad(size) == \E used \in 0 .. size : AtLoad(used, size)

Visited(h) == {i \in 0 .. h.size - 1 : is_visited(h.table[i])}

\* used_cells, which double_table and linear_probe compare with the size, is never
\* less than the number of cells that have an owner, so that a table under its
\* load has a free cell. Across every steal and every rehash, where it restarts
\* from 0, it is that very number in sizes that cannot have just the load. In
\* others a key may come by a second cell, and the rehash that follows counts
\* keys whose cell it gives to another or has filled before.
UsedCountsVisited ==
  \A h \in {enc, dec} :
    /\ Cardinality(Visited(h)) <= h.used_cells
    /\ ~ MeetsLoad(h.size) => h.used_cells = Cardinality(Visited(h))

WithinLimits(h) ==
  /\ OverLoad(h.used_cells, h.size) => 2 * h.size > h.max_table_size
  /\ h.size <= h.max_table_size \/ h.size = INITIAL_SIZE

\* Between two symbols the load is never above MAX_LOAD_FACTOR, except in a
\* table that max_table_size forbids to double; no table grew past that limit.
LoadBounded == \A h \in {enc, dec} : WithinLimits(h)

\* A list never holds a symbol twice, also after its cell was stolen, was
\* full, or was copied by a rehash; a cell with an owner has a symbol.
DistinctSymbols ==
  \A h \in {enc, dec} : \A i \in 0 .. h.size - 1 :
    /\ NoRepeat(h.table[i])
    /\ is_visited(h.table[i]) <=> h.table[i].symbols > 0

-------------------------------------------------------------------------------
(* The table seen as a map from keys to lists, read the way mtf_encode does. *)

LiveSymbols(cell) == [i \in 1 .. cell.symbols |-> cell.buffer[i - 1]]

ListOf(h, key) ==
  LET at == linear_probe(h.table, h.size, h.used_cells, h.size, key)
  IN  LiveSymbols(at.table[at.index])

Lists == INSTANCE ContextLists WITH
  Key <- 0 .. UNVISITED - 1,
  HashOf <- [s \in Seeds |-> [ctx \in Context |-> RawHash[s][ctx] % UNVISITED]],
  seed <- enc.seed, context <- enc.context, seen <- enc.kmer_chars,
  lists <- [key \in 0 .. UNVISITED - 1 |-> ListOf(enc, key)]

ideal == <<enc.seed, enc.context, enc.kmer_chars,
           [key \in 0 .. UNVISITED - 1 |-> ListOf(enc, key)], codes>>

HasRoom(h) ==
  /\ ~ AtLoad(h.used_cells, h.size)
  /\ UnderLoad(h.used_cells, h.size) \/ 2 * h.size <= h.max_table_size

\* As long as the table is lightly loaded or may still double, probing and
\* rehashing implement one list per context hash: no list is lost, taken over by
\* another context, mixed with another, or found twice. The one exception are
\* the steps from or to a table with exactly MAX_LOAD_FACTOR of its cells in
\* use, which gives cells away although it may still double.
IdealLists == Lists!Init /\ [][HasRoom(enc) /\ HasRoom(enc)' => Lists!Next]_ideal

-------------------------------------------------------------------------------
(* The baseline on the same input. *)

Classic == INSTANCE ClassicMTF

\* The classic transform of the same input codes by recency and is inverted, and
\* the end that MTF::compress writes, also the code of a byte in the last place
\* of the list, is told from the bytes unless the largest of them occurs.
ClassicWhole == Classic!Whole(sent)
===============================================================================
