# kMTFCompressor in TLA+

kMTFCompressor compresses a file with a context-aware move-to-front transform: a hash table keeps one
short move-to-front list for each context (the last `k` bytes), every byte becomes an index in the list of its
context, a run-length layer and an adaptive Huffman coder make bits of the indices. Nothing is stored in the
archive but a seed and those bits: the decoder rebuilds table, contexts, run counters and code trees by making
the same changes as the encoder, one symbol later. Almost everything that can go wrong is therefore a matter of
*two objects that must not drift apart*, and the rest of *two threads that share an array*. That is what the
modules here are about.

Contents: [the system](#1-the-system), [the modules](#2-the-modules), [the runs](#3-the-runs),
[disagreements found](#4-disagreements-the-runs-show), [the proofs](#5-the-proofs),
[what is not modelled](#6-what-is-not-modelled), [the plan](#7-plan), [how to run](#8-running).
Paths are relative to the repository; `src/...` below is its `src/` directory.

## 1. The system

```
 input file ──► MTFHashTable ──► array ──► RunLength ──► two AdaptiveHuffman ──► obitstream ──► archive
   bytes         (hash, probe,   of codes   (runs)        ah (symbols)            (buffer)
                 move to front)                           ahrle (run lengths)
 output file ◄── MTFHashTable ◄── array ◄── RunLength ◄── two AdaptiveHuffman ◄── ibitstream ◄── archive
```

`compress_stream` / `decompress_stream` run this chain once over a file, in two threads
(`MTFHashTableStream`). `compress_block` / `decompress_block` (option `-p`) cut the input into blocks of 8 MiB
and run one chain per block in a pool of tasks (`MTFBlockWorker`).

| component | state it keeps | operations | talks to | what makes it correct |
|---|---|---|---|---|
| `MTFBuffer` (mtf/buffer) | `buffer[SIZE]`, number of live symbols, key of the owner | `shift`, `append`, `is_visited`, `set_visited` | called by the table | no symbol twice; a full list drops its last |
| `MTFHashTable` (mtf/mtftable) | the cells, their number, `used_cells`, `max_table_size`, the context hash, symbols seen | `mtf_encode`, `mtf_decode`, and inside them `linear_probe`, `keep_track`, `double_table`, `buffer_encode`, `buffer_decode` | hash, cells; called by the pipeline | decoding inverts encoding; both tables change alike; no list is lost while the table can grow; cells change owner only when it cannot |
| `Hash`, `TabulationHash` (hash) | the last `k` symbols, the hash of them | `update`, `compute` | called by the table | a function of seed and context; never the key of an empty cell |
| `RunLength` (encoders) | encoder: counter, last symbol; decoder: the same, the rest of a run, `eof` | `encode_array`, `encode_end`, `decode_array` | `ah`, `ahrle`, the array of the caller | the decoder knows which coder wrote the next token; output is the input, whole, also when calls end inside runs |
| `AdaptiveHuffman` (encoders) | the tree in an array, leaf of each symbol, NYT leaf, remembered codes | `encode`, `encode_end`, `decode`, `decode_array`, and inside them `update_tree`, `slide_and_increment`, `swap`, `get_block_leader` | bit streams | tree well formed, sibling property, remembered codes fresh, decoder's tree = encoder's |
| `obitstream`, `obufbitstream`, `ibitstream`, ... (stream) | a byte buffer with a byte and a bit position, bits written, bytes read | `write_bit`, `flush_remaining`, `size`, `read_bit`, `remaining` | a file or a block's memory | bits come back in order; end noticed at the right bit |
| `MTFHashTableStream` (mtf/mtftable) | two arrays of codes, a future | `encode`, `decode`, `reverse_mtf` | table, run-length layer, a task | the array and the coder have one user at a time; the order of blocks; it ends |
| `MTFHashCompressor`, `MTFBlockWorker` | per worker two buffers, a table, a future | `compress_block`, `decompress_block`, `startCompression`, `startDecompression`, `get` | the tasks, the two files | blocks in order, none lost; a buffer belongs to the task while it runs; it ends |
| `compress_stream`, `decompress_stream` | the seed | both | pipeline, files | both ends build the table from the same seed |
| command line (`main.cpp`) | options | parsing | the above | - |
| classic `MTF` (mtf/MTF.cpp) | the list of bytes | `encode`, `decode`, `compress` | tests | decoding inverts encoding; a code says how many others came in between; the end is told from the data |
| `CountBuffer` (mtf/buffer) | symbols, 16-bit counters, their sum | `shift`, `append`, scaling of the counters | an alternative cell for the table, used by tests | list in the order of the counters; the sum is right |
| `AdaptiveEliasGamma` (encoders) | counts, ranks, symbols by rank | `encode_array`, `decode_array` | bit streams; used by nothing | ranks follow the counts on both ends; the end is noticed |
| `AdaptiveArithmetic` (encoders) | the interval, bits put off, frequencies and their sums, symbols by frequency | `encode`, `encode_end`, `start_decode`, `decode`, and inside them `update`, `update_distribution` | bit streams; its uses are commented out | sums, order and maps agree; the bits lie in every symbol's share; decoding inverts encoding |
| `Identity`, `LinearHash`, `RabinKarp`, `MinimiserHash` (hash) | the last `k` symbols; the rolling hash; two rings and the minimum in one | `update`, `compute` | tests | the hash depends on the context alone; the remembered minimum is that of the window |

**Where it is hard.** (1) Adaptive state kept twice: one missed or extra change on one side garbles the whole
rest of the file, and a unit test with a small file never fills a table, never doubles it in the middle of a
cluster, never steals a cell. (2) Two threads with plain memory between them, kept apart by `future.wait` alone,
and loops that end by launching one last empty task. (3) Boundaries: runs of exactly `n`, runs of `255 + n`, a call
that ends inside a run, the last bit of the last byte of the last buffer, files of zero bytes or of whole blocks.
(4) An archive that was cut. (5) Pools of different sizes on the two ends, which also divide the memory
differently. `PROJECT.json` lists each hazard at its line with the properties that watch it.

## 2. The modules

Names are the code's wherever TLA+ allows it. Objects that the code never shares between threads (a table, a code
tree, a hash) are records, and a method is an operator from the object to the next object and what was returned;
actions then do what the calling loop does with it. Objects that *are* shared have their fields as variables.

| module | models | how state and actions correspond |
|---|---|---|
| `MTFBuffer` | `mtf/buffer/MTFBuffer.h` | a cell is `[buffer, symbols, key]`, dead slots included, since decoding an arbitrary index could read them |
| `MTFHashTable` | `mtf/mtftable/MTFHashTable.h`, the context of `hash/Hash.cpp` | `linear_probe` with its loop condition (`ProbeLimit`), the early return (`Hits`) and the theft at the end; `keep_track`; `double_table` with the rehashing loop as a recursive function of the cells copied so far (`RehashSteps`); `mtf_encode`, `mtf_decode`. The hash itself is the constant `RawHash[seed][context]`: *any* function |
| `MTFCodec` | the two ends of an archive | `enc`, `dec` are table objects made from one seed; `Encode(c)`, `Decode` are one turn of the loops in `MTFHashTable::encode/decode`; the decoder may lag by any distance |
| `ByteChannel` | what `test_compress_decompress.cpp` compares: an ordered, lossless channel | abstract specification of `MTFCodec` |
| `ContextLists` | what README.md promises of the table: one list per context | abstract specification of the table while it has room: no cells, no probes |
| `HashFunctions` | the classes of `hash/` | `update` and `compute` of each class and the two rings of `MinimiserHash`, in words of `WORD` bits that wrap around |
| `Hashes`, `MCHashes` | objects of every class over one file | the five template instantiations of `MinimiserHash` among them |
| `MCCodec`, `MCMemory` | instances for TLC | `MCCodec` computes `RawHash` with `HashFunctions!update` from three sets of drawn words: hashes that cluster, collide and wrap. `MCMemory` gives the memory limits of `Cores` on one machine |
| `RunLength` | `encoders/RunLength.cpp` | a token stands for what one of the two coders writes; `EncodeSymbol` is one turn of `encode_array`'s loop; `Call`, `DecodeSymbol`, `DecodeRun` are the stages of one `decode_array`, with `data` the caller's array; `Cut` removes the end of the archive |
| `HuffmanTree` | the tree of `encoders/AdaptiveHuffman.cpp` | the array of nodes, `map_leaf`, the remembered codes; one operator per method |
| `AdaptiveHuffman` | encoder and decoder over it | `Encode`, `EncodeEnd`, `Cut`, `Decode`; a bit sequence between them |
| `Entropy` | the entropy layer as `RunLength.h` composes it | `RunLength`'s actions with four `HuffmanTree` coders (two at each end) and one sequence of bits: every token becomes bits at once, the archive is padded to bytes and cut between bytes, the decoder has the bits only |
| `BitStream` | `stream/obitstream`, `stream/ibitstream` | a writer's buffer, then a reader's buffer over the bytes that were handed on |
| `StreamBlocks`, `StreamEncode`, `StreamDecode` | `MTFHashTableStream::encode`, `decode` | the main thread has a program counter, `memcpy` and the task go element by element, so an overlap shows; `task` is the future |
| `Stream` | `compress_stream`, then `decompress_stream` | composes the two above: the decoder's threads start on the archive the encoder's have left |
| `Cores` | `get_cores` and the divisions by it | three operators |
| `BlockPool` | `compress_block`, `decompress_block`, `MTFBlockWorker` | one main thread with two inner loops, a vector of workers with their buffers and futures, one task per started worker that may finish at any time |
| `ClassicMTF` | `mtf/MTF.cpp` | pure functions of a file: `encode` and `decode` as recursive functions that apply `move_to_front` and `move_to_front_decode` byte by byte, the codes `compress` gives its coder |
| `CountBuffer` | `mtf/buffer/CountBuffer.h` | the cell's arrays are variables, a step is what `buffer_encode` does with one symbol |
| `EliasGamma` | `encoders/AdaptiveEliasGamma.cpp` | two coders as records, a bit sequence padded to bytes, the reader's end of file as `remaining` and `read_bit` tell it |
| `Arithmetic` | `encoders/AdaptiveArithmetic.cpp` | the coder object as a record of its registers (`FRACTION_BITS` wide, with the bits put off and those written) and its distribution; `update`'s two bit loops as functions on the registers, one turn each, which `Loop` applies until they no longer change anything |
| `Coders` | `EliasGamma` and `Arithmetic` on the same input | extends the first's actions by the second's encoder, then runs the second's decoder |

How they compose. `MTFCodec` = two `MTFHashTable` objects + a queue; `AdaptiveHuffman` = two `HuffmanTree` objects +
bits; `Entropy` = `RunLength` + four `HuffmanTree` objects + bits, and implements `RunLength` (`BitsAreTokens`, proved), so that what is proved of tokens
holds of bits; `Stream` = `StreamEncode` and, on its archive, `StreamDecode`; `BlockPool` uses `Cores` for the size of
the pool, `MCMemory` uses it for the memory of a table; `MCCodec` uses `HashFunctions` for the hash of a context.
The remaining borders are cut where one layer's promise stands for it in the next: `MTFCodec` takes its
archive for a queue of codes (what `RunLength` promises: `OutputInOrder`), `Entropy` takes its archive for a
sequence of bits with up to seven of padding (what `BitStream` promises: `BitsInOrder`, `EndNoticed`).
`StreamEncode`, `StreamDecode` and `BlockPool` name the data by its position in the file, since what is done to it is
the other modules' matter.

Definitions introduced by "Slip:" are programming mistakes (a dropped guard, a missing reset, a swapped order);
the specifications never use them. Each is there to be put in the place of one definition, to see that
a property then fails; `PROJECT.json` lists the pairs under `mutants`.

## 3. The runs

| run | question | states |
|---|---|---|
| `codec` (`MCCodec`) | a table of 1 cell that doubles, up to a limit of 4 where its cells are then stolen or on to 8, and that meets exactly its load of 3/4 at 4 cells; nine contexts, three hash functions (`Clustered`, `Colliding`, `Wrapping`), 7 input symbols, lists of 2, a decoder at any lag: `RoundTrip` (implements `ByteChannel`), `IdealLists` (implements `ContextLists` from and to tables with room), `Synchronised`, `UsedCountsVisited`, `DistinctSymbols`, `LoadBounded`, `TypeOK`; and of the same inputs `ClassicWhole` | 148 thousand |
| `run_length` (`Entropy`) | runs up to 9 with `n` = 2, at most 3 per token, calls that fill 2 symbols, two adaptive coders, bytes of 3 bits, archives cut after any byte: `CoderAgrees`, `OutputInOrder`, `TypeOK` (with the bound on a token), `BitsAreTokens` (implements `RunLength`), `DecoderStops` | 92 thousand |
| `huffman` | every sequence of up to 9 symbols of an alphabet of 4, a decoder up to 2 symbols behind, paddings of 0, 1 and 7 bits, archives cut after any bit: `WellFormed`, `SiblingProperty`, `Optimal`, `CodesFresh`, `DecodesOldest` | 55 thousand |
| `bit_stream` | up to 9 bits in bytes of 2 and buffers of 2 bytes: a buffer is used three times, the file ends inside a byte, at a byte and at a buffer: `BitsInOrder`, `EndNoticed` | 12 thousand |
| `stream` | blocks of 3, files of 0 to 7 bytes (empty, short, whole, whole and short) there and back, two threads each way: `OneOwner`, `ArchiveInOrder`, `TableInOrder`, `OutputInOrder`, `BothEnd` | 294 |
| `block_pool` | 5, 6 and 7 hardware threads, which make 1, 2 and 3 workers to compress and 3, 4 and 5 to decompress; blocks of 2, files of 0 to 9 bytes: `ArchiveInOrder`, `OutputInOrder`, `BufferOwned`, `PoolEnds` | 1.6 thousand |
| `count_buffer` | lists of 3 for 4 symbols, counters scaled when they sum to 12; unbounded input, the state space is finite: `ListOrdered`, `AmountIsSum` | 1.4 thousand |
| `coders` | every input of up to 6 symbols over 4; gamma coder with bytes of 8 bits and a reader's buffer of two; arithmetic coder with an alphabet of 9 and registers of 6 bits: `RanksOrdered`, `ReversibleInside`, `Distribution`, `Recoverable` | 57 thousand |
| `hashes` | every file of up to 6 bytes of two bits in words of 10, `k` = 4, three bases for `RabinKarp`: `HashOfContext`, `MinimumOfWindow` | 82 thousand |
| `block_few_cores`, `block_memory`, `arithmetic_decode` | three disagreements, see below | - |

What the properties say, and of what in the code, stands above each of them. The ones that carry most:

* `RoundTrip` is the compressor's contract (`test/test_compress_decompress.cpp:26`) for the transform. `Synchronised`
  says why it holds: the decoder's table is, as a record, the encoder's after the same symbols, although the decoder
  probes before it knows the symbol. `IdealLists` says what the table is good for: as long as it is under its
  load or may double, all its probing and rehashing amounts to one list per hash. Its exception is a table with exactly its load in use (section 4);
  a step from or to such a table may cost a list, and no other.
* `UsedCountsVisited`: `used_cells` restarts at 0 in a rehash and grows in two places; if it drifted, doubling and the
  probe limit would come too early or never. It never counts too few, and is right in all sizes that cannot have exactly the load. `LoadBounded`: below its memory limit a table is never above its load
  between two symbols, and never grows past the limit.
* `CoderAgrees`: the archive does not say which Huffman coder wrote the next bits. `BitsAreTokens`: it does not have to; two
  trees at each end, fed in turns from one sequence of bits, never take a bit of each other's, of padding or of a cut code for a token.
* `CodesFresh`, `SiblingProperty`, `Optimal`: remembered codes are dropped exactly when the tree may have changed; the
  refusal to swap with a parent never costs optimality (compared with Huffman's own construction).
* `OneOwner`, `TableInOrder`, `BufferOwned`: no byte of a shared array is written while the other thread may use it.
* `HashOfContext`: a rolling hash and a hash computed from the context alone are the same function; for `RabinKarp` as long as
  no product or difference has left the word, which the model tracks (`exact`). `MinimumOfWindow`: the minimum that is searched
  for anew only now and then is the window's at all times.
* `Recoverable`: what the arithmetic encoder wrote is a number inside the share of every symbol, though bits were put off and
  frequencies halved: a decoder that searched correctly would find the input.

**Bounds, and why they are enough.** Each constant is scaled so that the code's boundary cases occur several times in
one behaviour. In `codec` the table doubles twice, each time with cells in clusters, and then nine
contexts compete for 4 cells that are never enough, within the same 7 symbols, or a limit of 8 lets it double once more (`MIN_PROBES` = 1 makes probe limit and
doubling meet). The load of 3/4 is no whole number of 1 or 2 cells and is 3 of 4: the table goes from sizes that cannot have exactly their load to
one that can, as the code's does at 2^23 cells; both kinds of behaviour, and rehashing out of the second, are within the bound. `SIZE` = 2 is the smallest list that can be full while a symbol moves within it. In `run_length` the longest
run (9) is more than `MaxRun + n` = 5, so a run is cut, goes on, and is left over by calls of length 2 in the middle; with
bytes of 3 bits tokens end inside, at and across bytes. In `bit_stream` `SIZE * BITS` = 4 bits fill a buffer, so 9 bits fill two
and start a third. Nine symbols over four letters reach every shape of the tree with three to five leaves. In `coders` the sum of
the frequencies reaches its `MAXIMUM` of 15 within 6 symbols, so halving happens, and registers of 6 bits put bits off within two symbols. In `hashes` base 2
never leaves a word of 10 bits, base 5 does so in a difference and 29 in a product, and six bytes fill and pass a window of three.
`MaxInput`, `MaxSymbols`, `MaxBits`, `MaxLag` and the sets `FileLengths`, `HardwareThreads`, `Paddings` are the bounds; the code has none of them.
`CHECK_DEADLOCK FALSE` stands in every cfg but `count_buffer.cfg` because each behaviour ends: the input is
bounded and the program returns; that it does not stop earlier is what `DecoderStops`, `BothEnd` and `PoolEnds` say, and that nothing is missing when it stops the various `...InOrder`.

**Fairness.** `Stream` (with `StreamEncode` and `StreamDecode`) and `BlockPool` assume weak fairness of the main thread and of each task
separately: operating-system threads are scheduled, and `std::async` and `MTFBlockWorker` start a thread per task
(`std::launch::async`). `RunLength` and `Entropy` assume it of the decoder alone, a sequential loop that keeps running;
`Entropy` states it of `RunLength`'s `Decoding`, since a step of its own decoder is one of `Decoding` and is possible exactly when that is. No fairness
between alternatives is assumed, and none of the encoder's choices, which are the input's.

## 4. Disagreements the runs show

* **`block_few_cores`** (`CompressEnds`, `src/mtf/MTFHashCompressor.h:42`). `get_cores()` already leaves two cores free
  and never returns less than one, but `compress_block` takes two off again. With fewer than five hardware threads
  there is no worker, nobody reads the input, `in_file.good()` stays true: compression never ends.
* **`block_memory`** (`RoundTrip`, `src/mtf/MTFHashCompressor.h:94`). The memory limit of a table is the option's value
  divided by the number of workers, which is `get_cores() - 2` on one end and `get_cores()` on the other, and is not
  recorded in the archive. When the power of two below the limit differs, the encoder's table doubles once more than the
  decoder's and the block decodes wrongly from there on. The instance has 20 threads, 16 and 18 workers.
* **`arithmetic_decode`** (`DecodeAssertions`, `src/encoders/AdaptiveArithmetic.cpp:136`). The sums of the frequencies fall with
  the index; the binary search for a symbol's index goes the way of sums that rise. The decoder's own assertion fails on
  what its encoder wrote. The program does not use this coder.

More things were met that no run reports as a failure, because nothing in the program depends on them:

* `MAX_TREE_NODES` (`src/encoders/AdaptiveHuffman.h:13`) is two short of what an alphabet of `MAX_ALPHA_SIZE` symbols needs,
  which `assert(alphabet_size <= MAX_ALPHA_SIZE)` lets pass. The program's alphabets are smaller; `WellFormed` says that all of
  those fit.
* `MTF::compress` makes a coder for 256 + 1 symbols but ends the archive with symbol 255 (`src/mtf/MTF.cpp:54`),
  which is also the code of a byte in the last place of the list. `ClassicWhole` says when that is told from the data: just when the
  byte 255 does not occur. There is no decoder for these archives.
* `AdaptiveEliasGamma` has no end symbol; its decoder notices the end by the bits. `remaining()` cannot be false before a
  read came short, and the loop over the zeros (`src/encoders/AdaptiveEliasGamma.cpp:82`) takes the end for the one behind
  them: an empty archive, and one whose last byte is the last of a buffer, decodes to a symbol too many.
  `ReversibleInside` says that all others come back. The coder is not used. `elias_delta_decode`, which nothing calls, puts the bits of the
  number into its length (line 134).
* `AdaptiveArithmetic`, beside its search: `update` takes `high - low` for the width and nothing off `high`, so that neighbouring
  shares have a number in common, and `encode_end` may choose just that (hence the closed interval in `Recoverable`);
  `update_decode`'s second loop keeps the code's second bit where the top one would have to stay; behind the end `read_bit`'s -1
  sets all bits of the code; `decode` returns what stands at the index after the update; the arrays are too short for an alphabet of 512.
* `LinearHash` has a `kmer_hash` of its own that hides the base's and stays 0, so its hash never changes. `MinimiserHash` never calls
  `Hash::update`. `RabinKarp` reduces modulo 2^61 - 1 what has wrapped modulo 2^64: from `k` = 4 on rolling
  and computed hash can differ. The table uses none of them.
* `linear_probe` asks for less than the load (line 74 of `MTFHashTable.h`), `double_table` for more (line 165). `MAX_LOAD_FACTOR` is a `float`
  (line 23): 0.9 is 7549747 / 2^23, so that 2^23 cells, and every larger power of two, have a load that is a whole number, and `used_cells` comes to it one by
  one. At just that count only 8 probes are made and the table does not double, though the default memory lets it grow on. A context may then take
  another one's list over, and one whose cell is farther away gets a second cell. The next rehash gives both to one cell and counts both, so `used_cells` is then too high and
  the next doubling a little early; decoding is not affected, since the other end does the same. `IdealLists` excepts the steps from and to such tables,
  `UsedCountsVisited` claims equality for the sizes below only; in the instance, without these exceptions, both are violated at 4 cells. Nothing in the repository says
  otherwise, so it is no finding.
* The rehash tests the load against the size before the doubling. It still steals no cell, as `IdealLists` shows, in all sizes that cannot have exactly their load.

## 5. The proofs

Eight modules hold theorems; each extends the module it is about, and all hold for every value of the constants within the named assumptions.

**The transform.** `MTFCodec_proofs`, the lemmas about the operators first, then the theorems. They hold for every alphabet, list length, context length, hash function, table size, number of probes and load factor
(`BufferAssumption`, `TableAssumption`, `CodecAssumption`, evaluated in `codec`).

* **`TypeCorrect`**: `Spec => []TypeOK`, with different memory limits at the two ends too. `TypeOK` alone is not
  inductive: a decoder that fills its context takes `code - SIZE` for a symbol, which is one only if the code is an
  escape. The invariant is `TypeInv == TypeOK /\ Priming`; `Priming` counts how many symbols each end has seen and says that
  the first `K` codes are escapes.
* **`RoundTripCorrect`**: with the same memory limit at both ends (`SameMemory`), `Spec => RoundTrip`, that is, the codec implements
  `ByteChannel`. The invariant (`TrailInv`) says that there is a *trail* of table objects, one for each symbol sent and one before
  the first, each the `mtf_encode`-successor of the one before, with the code it gave; the encoder stands at its end
  and the decoder at the place `Len(decoded) + 1`. Encoding makes the trail longer; decoding moves along it
  because of the lemma `CodecInverse`: for one and the same object, `mtf_decode` of the code that `mtf_encode` gave
  returns the symbol and the same next object. No property of the hash is used, nor of the probing beyond its being a function of
  the object, which is the point: thefts, doublings and collisions cannot separate the two ends, memory limits can.
* **`DistinctCorrect`**: under the same assumption, `Spec => []DistinctSymbols`. Every object on the trail is `Listed`:
  its cells lie in a set that is closed under a new key (theft), under copying (rehash) and under encoding. The lemmas are stated
  once for any such set of cells `P` (`TableOver(P, h)`, `KeptByKey(P)`), and used for the types and for the distinct lists.
* **`LoadCorrect`**: `Spec => []LoadBounded`, for any two memory limits, assuming that half a table is not above the load
  (`HalfIsLight`: `2 * LoadNum >= LoadDen`; the code's load is 0.9). A rehash visits at most the old table's cells, which is half the new one.
* **`UsedCorrect`**: `Spec => []UsedCountsVisited`, for any two memory limits and every size, assuming also that the load is at most one. The count alone is not
  inductive: it starts again at 0 in a rehash and comes out right only if each owner is copied once. The invariant is `CountInv`, with two parts about the cells. `Linked`, in every
  table: no cell is free between a key's home and the cells it owns. It survives thefts, and with it a rehash counts at least the cells it fills (`RehashBounded`). `Chained`, in a
  table that may still double and whose size cannot have exactly the load: every owner is the first cell a probe for its key stops at; hence no two cells have one
  key, the rehash finds a free cell for each, and none is taken over (`RehashCounts`). A doubled table of a size that can have exactly the load starts `Chained` and may cease to be.

* **`SynchronisedCorrect`**: under the same assumption, `Spec => []Synchronised`: the decoder's whole object, not only what it
  returns, is the encoder's of `Len(decoded)` symbols. `Encoded` is a recursive function over the symbols sent; the trail of `TrailInv` is it, place by place (`EncodedIs`).
* **`IdealListsCorrect`**: `Spec => IdealLists`, the refinement of `ContextLists`, under the assumptions of `UsedCorrect`. `ListOf` looks a context up by
  its key only, so a step has to be shown to change one list and no other. The invariant is `ListInv`: `CountInv` and `Listed`. A table with room (`HasRoom`) is under its
  load, so it has a free cell and a probe is not cut short: it finds the first cell of its key, or none (`Finds`, `ListIsFound`); `Linked` is enough for that, a second cell of the key is never
  looked at. Placing a cell where a probe stops changes what is found for its key only (`FindsPlaced`). A doubling out of a table that was under its load happens only where the size cannot
  have exactly the load (`NoJump`), so both tables are `Chained` and hold the same cells (`CellsOf`), and the same is found (`FindsSame`). `EncodeMoves` says what one symbol does to the list.

* **`ClassicWholeCorrect`**: `Spec => []ClassicWhole`, that is, the classic transform of every file. One sequence of lists (`Recency`) explains both directions: `EncodeIs` and
  `DecodeIs` say that encoder and decoder go through it, the decoder also when it is given only the first codes. The order of the lists is recency (`RecencyRanked`), so that a
  place is a number of symbols used since (`CountBefore`); the largest symbol stays last until it comes (`LargestLast`), so that its first code is the first that looks like the end (`LargestCoded`).

The rehashing loop is a recursive function over `0 .. size`; `RehashUnfold` proves its recursion equation.

**The run-length layer.** `Entropy_proofs` (`RunLengthAssumption` and `EntropyAssumption`, evaluated in `run_length`), for every alphabet, minimum run
`n`, longest run `MaxRun`, size of bytes and length of the caller's array, cut archives included. The first three theorems are about tokens.

* **`TypeCorrect`**, **`CoderAgreesCorrect`**, **`OutputInOrderCorrect`**. None is inductive, `TypeOK` neither: that a decoder's counters keep
  their bounds depends on what the tokens are. The invariant `RunInv == Types /\ Progress` again has a trail, here of *places*: a place is what a
  decoder knows behind a token (its phase, its counter, its last symbol, how much of the input it has got). While the encoder runs, its own counter
  is at most one unwritten run ahead of the last place (`EncoderAt`); when it has ended, the trail goes to the end symbol (`Ended`) and the decoder
  stands at the place of the tokens it has read, wherever in a call or in a run it is (`Decodes`). A cut only bounds how far it may go.

* **`BitsAreTokensCorrect`**: `EntropySpec => BitsAreTokens`, and with its fairness **`EntropyImplementsRunLength`**: `EntropySpec => Spec`. The theorems
  about tokens are thereby theorems about the bits of the two adaptive coders. What is proved of one Huffman coder is used for `ah` and for `ahrle` through two instances
  of `AdaptiveHuffman_proofs` (`SymbolPasses`: of coders with equal trees, one reads what the other wrote and they are equal again; from a part of a code it
  reads nothing). The invariant `EntropyInv` is `RunInv` and a trail (`Coded`): between two tokens the pair of coders the writer was, and the place of
  the bit. The decoder's pair is equal to the one at `pos`, its bit is the one there (`Archived`). `RunInv` is needed for it, as nothing in
  the bits says which coder is next (`NextCoder`). A cut leaves just the tokens whose ends are within it (`WholeTokens`); padding is behind all ends,
  and no coder is asked for a token behind the end symbol's.

**The Huffman coder.** `AdaptiveHuffman_proofs` (`AlphabetAssumption`, `HuffmanAssumption`, evaluated in `huffman`), for every alphabet, every
sequence of symbols and any lag of the decoder.

* **`WellFormedCorrect`**, **`SiblingCorrect`**: `Spec => []WellFormed`, `Spec => []SiblingProperty`. Both are about a coder between two symbols; what has to be
  kept is what holds in the middle of a walk, `OnWay(h, x)`: the array is a tree whose children come after their parents (`Shape`), and its weights are sums and
  fall, but for the one node `x` that is incremented next (`Weighed`). The lemma `Leader` says what `get_block_leader` finds: the foremost node of the
  block, except that it passes over the parent of a leaf that was just split off; hence its swaps never meet the root or a parent, and after one all
  before `x` is heavier. Right after a split the new leaf, its parent and the NYT leaf weigh nothing, which are the exceptions in `Falling` and `Positive`.
  The walk and the loop for the leader are recursive functions; their equations come from `IntervalRecursion`.
* **`CodesFreshCorrect`**: `Spec => []CodesFresh`, though the cache is emptied only after a walk that swapped: one that did not has changed weights only, and a split
  changes no path but the NYT leaf's, whose code is remembered under no symbol of the alphabet (`Codes`).
* **`DecodesOldestCorrect`**: `Spec => DecodesOldest`. For one tree, `decode` reads from bits that begin with `CodeOf(h, s)` just `s` and that many bits, and nothing
  from fewer (`DecodeReads`, from `Leads`: the bits of `Path` lead down to the node again; and from `NumberLiteral`: the bits of a literal make the number). The encoder
  remembers codes and the decoder does not; `UpdateSame` says that trees stay equal all the same. The invariant `HuffmanInv` is a trail again: a
  coder and the bits from there on for each pending symbol, the decoder at its front and the encoder at its end.
* **`OptimalCorrect`**: `Spec => []Optimal`, the cost of the encoder's codes is that of Huffman's construction, which takes two lightest trees of a forest and makes them one until one
  is left. It needs a part of the shape the other theorems do not: the slots after the root are the pairs that the splits made, and the two of a pair have the same
  parent whatever was swapped (`Paired`), since `swap` gives a new parent to both or to none. So the construction can be followed through the array from its
  end: when the nodes after slot `k` have been joined, those up to `k` without a child up to `k` are left (`Frontier`); of these `k` and `k - 1` are the lightest as weights fall, and
  they are siblings. The construction may pick others of the same weights, hence its forest only stands one to one for the frontier (`Follows`, kept by
  `JoinFollows`). Each join costs what it takes from the sum of weight times depth over the frontier (`TermsStep`), and that sum is the cost of the codes at first and nothing at the end.

**The bits.** `BitStream_proofs` (`StreamAssumption`, evaluated in `bit_stream`): **`BitsInOrderCorrect`** and **`EndNoticedCorrect`**, for every
size of bytes and buffers. The invariant says where each bit is: `Filed` in the file, `Collected` in the writer's buffer, behind the file's end, with zeros
from the position on (this is what clearing a byte is for), `Loaded` in the reader's buffer, which is the part of the file that was taken last,
and `Returned`. Bits are counted with `Nth(byte, bit)`; past a few lemmas about it no product is looked at.

**The threads.** `Stream_proofs`, the encoder, the decoder and then the two in a row: for every size of
the arrays and every length of the file (`StreamAssumption`, evaluated in `stream`).

* **`OneOwnerCorrect`**, **`ArchiveInOrderCorrect`**: `Spec => []OneOwner`, `Spec => []ArchiveInOrder`. Neither is
  inductive: that a copy does not disturb a task depends on which part of the file each array holds at each place
  of the main thread's program. The invariant `EncInv` is `TypeOK /\ EncShares /\ EncWritten`. `EncGiven` counts the codes
  that tasks were given so far, `EncShares` says for each program counter what stands in the two arrays relative to it and
  when no task can be running, `EncWritten` that the archive holds exactly the codes up to `EncGiven - size + i`.
* **`TableInOrderCorrect`**: the same for the decoder (`DecInv`). Here the task owns two things, the
  table, which meets code after code (`DecMet`), and the output, which gets a block when the task ends (`DecWritten`), so
  that the two lag behind `DecGiven` by different amounts.
* **`StreamsCorrect`**: `Spec => []OutputInOrder` for the composition: the output is the *input file* as far
  as it goes, whole when `decode` returns. The invariant `StreamsInv` is the encoder's, and: decompression has not begun, or
  the encoder has returned and the decoder's invariant holds on what it left, which the lemma `DecoderOnArchive` shows to be a place the decoder may begin at. The other three theorems
  are about this invariant, too.

**The pool.** `BlockPool_proofs` (`PoolAssumption`, evaluated in `block_pool`), for any number of hardware threads, block size and file:

* **`BufferOwnedCorrect`**, the action property that no buffer changes under a running task. The main thread reads into a worker's buffer without looking
  at its future; that the future is idle then follows from the phases of a round (`Rounds`): before a round all are, while blocks are read
  those from `w` on, while results are collected those before `w`.
* **`ArchiveInOrderCorrect`**, **`OutputInOrderCorrect`**: `Spec => []ArchiveInOrder`, `Spec => []OutputInOrder`, nothing assumed of the two numbers of
  workers. In the middle of a round the next bytes of the archive are spread over the workers' buffers, some behind a running task, some ready, some already
  written. The invariant `OrderInv` has a *round* for a witness: the places `at` of the file where each worker's segment begins, and for the archive the
  places `cut` where its blocks end. `FlattenLaid` explains the flattened archive by its cuts, by induction on their number.

**The counting cell.** `CountBuffer_proofs` (`CountAssumption`, evaluated in `count_buffer`), for every length of the list, alphabet and limit above the length (live slots
are counted in 8 bits, so 4096 is): **`ListOrderedCorrect`** and **`AmountIsSumCorrect`**. Together they are inductive. A climb is a rotation, which keeps the sum
(`SumMoved`) and, as it ends below the first counter that is not smaller, the order; scaling keeps the order and the zeros since the logarithm is monotone and of 2 is 1
(`ScaledDown`, `ScaledMonotone`), and it brings the sum below the limit because every counter above one gets smaller, and if none is the sum is at most the length (`SumFalls`).
Sums and powers of two are recursive functions on intervals, so that their equations come from `IntervalRecursion`.

**The gamma coder.** `Coders_proofs` (`GammaAssumption` and `CodersAssumption`, evaluated in `coders`), for every alphabet, input and size of bytes and buffer:
**`RanksOrderedCorrect`** and **`ReversibleInsideCorrect`**, of the two coders side by side; `GammaAlone` says that the gamma coder among them behaves as on its own.
Neither is inductive, `RanksOrdered` neither: that the decoder's maps stay maps of the alphabet depends on its reading a rank. The invariant `GammaInv` is a trail, too, of a coder and a place in
the bits for each symbol sent. The decoder is on the trail or, when it has been asked once too often at the end of a buffer, just past its end (`Beyond`), which is the exception
that `ReversibleInside` makes. The lemmas: a number's code read from its place gives the number and its length again (`CodeRead`), the zeros of the last byte give no symbol
(`PaddingRead`), neither does the end, but where a buffer ends it gives a one (`EndRead`); the symbol changes places with the foremost one it has overtaken, so that the counters
keep falling (`Overtakes`, `UpdateRanked`).

**The arithmetic coder.** `Coders_proofs` too (with `ArithmeticAssumption`, evaluated in `coders`: registers of more than two bits, and an alphabet below `MAXIMUM`, which
holds of 513 symbols and 32 bits), for every alphabet, width of the registers and input: **`DistributionCorrect`** and **`RecoverableCorrect`**. Neither is inductive. The
invariant `ArithmeticInv` joins `GammaInv` to a trail: an encoder for every symbol sent, each made of the one before by `encode`, with a distribution in order (`Distributed`:
sums that are those of the frequencies, or one more until the first halving, maps inverse, the sum at most `MAXIMUM`) and registers ready for a symbol (`Ready`: low and high
differ in the top bit and do not straddle the middle, so that they are more than a quarter apart, and `MAXIMUM` is small enough that no share is empty). Halving keeps that
order but may make frequencies equal, and the jump to the first of them keeps it as well. While both encoders run and nothing has been halved, `Alike` relates the two orders of symbols.
`Recoverable` combines both directions along the trail: a decoder that knows the symbols has the encoder's interval at every symbol, as its registers make the same turns
(`Matches`, forwards) and its code is made of the archive's bits behind the encoder's, provided that the bits put off will be the opposite of the one before them; that they
are is known from later encoders, whose bits are the archive's (`Written`, backwards); and the code lies between low and high because it does so after
the next turn (`Inside`, backwards). At the end that is plain: the bit that `encode_end` writes, and the zeros
behind it, are the middle, which lies between any low and high that are ready. Nothing is assumed of how often a loop turns; that `FRACTION_BITS` turns are enough is proved
from the doubling of the interval.

**Only model-checked**: all liveness, which is out of the prover's reach; `DecodeAssertions`, which does not hold; and `Hashes` (which works on bits). Recursion over numbers is no
obstacle: what is recursive here is a function on an interval, and induction is done over a set of numbers (`NatSetInduction`), as the library's rules with an operator for a parameter
cannot be instantiated by the installed provers.

## 6. What is not modelled

* `main.cpp`: option parsing, no state. (Line 40 parses `k_str` where the value of `-m`, `mem_str`, is meant; line 55 compares the end of a path
  with `.mtf` also when the path is shorter.)
* Dead code: `increment_k`, `normalize_weights`, `refresh_internal_weights`, `MTFBuffer::search`, the two `elias_delta` functions. Statistics and printing.
* `AdaptiveArithmetic` for an alphabet of 512 or more, where the constructor writes past its arrays.
* Opening files, return codes, and failures of memory: a task that throws is not noticed (`future.wait`), but nothing in it
  throws except for lack of memory. The 32-bit `new_size` of `double_table`, which wraps at 2^31 cells, and the size of a
  compressed block against the decompressor's 10 MiB buffer are hazards without a property; `PROJECT.json` says why.
* Time, buffers' real sizes and the compression ratio.

## 7. Plan

Order of construction; all but the last are done.

1. The transform: `MTFBuffer`, `MTFHashTable`, `MTFCodec`, abstract `ByteChannel` and `ContextLists`; its theorems.
2. The threads: `StreamEncode`, `StreamDecode`, `Stream`, `BlockPool`, `Cores`; the theorems of the stream pipeline.
3. The entropy layer: `RunLength`, `HuffmanTree`, `AdaptiveHuffman`, `BitStream`.
4. The components beside the chain: `ClassicMTF`, `CountBuffer`, `EliasGamma`, `Arithmetic`, the hash classes; findings, as runs.
5. Composition: `Entropy`, which replaces tokens by the bits of two real coders.
6. Theorems of `RunLength` and `BitStream`, `LoadCorrect`, `UsedCorrect`.
7. `BlockPool!BufferOwned`.
8. `IdealListsCorrect`, `SynchronisedCorrect`, and the order of `BlockPool`'s archive and output.
9. The five theorems of `AdaptiveHuffman`, and `BitsAreTokensCorrect`.
10. The two theorems of `CountBuffer`, and of the gamma coder.
11. The two theorems of the arithmetic coder.
12. The theorem of the classic transform.
13. Left: a block worker as the composition of codec and entropy layer.

Runs added then take the place of shallower ones rather than adding to them.

## 8. Running

`tlc -config codec.cfg MCCodec`, and likewise the module and cfg of each run in `PROJECT.json`; `tlapm M.tla` for the
eight modules `MTFCodec_proofs`, `Entropy_proofs`, `AdaptiveHuffman_proofs`, `BitStream_proofs`, `Stream_proofs`, `BlockPool_proofs`,
`CountBuffer_proofs` and `Coders_proofs`. The longest run takes a few minutes at most.
