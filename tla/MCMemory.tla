------------------------------- MODULE MCMemory -------------------------------
(***************************************************************************)
(* The tables of one block when compress_block and decompress_block run on *)
(* the same machine with the same -m: each divides the memory by a number  *)
(* of workers of its own.  20 threads make 16 and 18 workers.              *)
(***************************************************************************)
EXTENDS MCCodec

Machine == INSTANCE Cores

Hardware == 20
Memory == 64

Shares == {<<Machine!Share(Memory, Machine!CompressWorkers(Hardware)),
             Machine!Share(Memory, Machine!DecompressWorkers(Hardware))>>}
==============================================================================
