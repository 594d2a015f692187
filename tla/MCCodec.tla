------------------------------- MODULE MCCodec -------------------------------
(***************************************************************************)
(* A small instance of MTFCodec: contexts of two symbols, hashed as        *)
(* TabulationHash does it.  A seed stands for the words it draws.  These   *)
(* give keys with one home cell in every table size up to 4 (Clustered),   *)
(* contexts that share a key, some only after masking (Colliding), and     *)
(* homes at the end of the table, so that probing wraps around (Wrapping). *)
(* With a load of 3/4 a table of 4 cells has exactly that load at 3, as    *)
(* one of 2^23 cells has it in the code; of 1 and 2 cells none.            *)
(***************************************************************************)
EXTENDS MTFCodec, SequencesExt

Clustered == 1
Colliding == 2
Wrapping == 3

MCSeeds == {Clustered, Colliding, Wrapping}

Words == [s \in MCSeeds |-> CASE s = Clustered -> <<<<0, 4, 8>>, <<0, 4, 8>>>>
                              [] s = Colliding -> <<<<5, 21, 10>>, <<0, 0, 3>>>>
                              [] s = Wrapping -> <<<<15, 7, 0>>, <<0, 9, 6>>>>]

Hashing == INSTANCE HashFunctions WITH BYTE <- 2, WORD <- 8, MASK <- 32, sub_k <- 1

\* get_hash after the context's symbols were taken.
HashOf(seed, ctx) ==
  LET table == [j \in 0 .. 1 |-> [c \in 0 .. 2 |-> Words[seed][j + 1][c + 1]]]
  IN  FoldLeft(Hashing!update, Hashing!NewTabulation(2, table), <<ctx[1], ctx[2]>>).hash

MCHash == [s \in MCSeeds |-> [ctx \in [1 .. 2 -> 0 .. 2] |-> HashOf(s, ctx)]]

\* One limit stops the table where it meets its load, the other lets it grow on.
MCMemories == {<<4, 4>>, <<8, 8>>}
==============================================================================
