----------------------------- MODULE StreamBlocks -----------------------------
(***************************************************************************)
(* What the two directions of MTFHashTableStream have in common: arrays of *)
(* BLOCK_SIZE elements, and an archive that is the file's codes with the   *)
(* end-of-file symbol behind them.                                         *)
(***************************************************************************)
EXTENDS Naturals, Sequences, SequencesExt

CONSTANTS
  BLOCK_SIZE,  \* elements of an array (1 MiB)
  FileLengths  \* lengths of the input file that are looked at

ASSUME StreamAssumption == BLOCK_SIZE \in Nat \ {0} /\ FileLengths \subseteq Nat

EOF == 0
Index == 1 .. BLOCK_SIZE

\* The archive of a file of n bytes, each code named by its position.
Archive(n) == [j \in 1 .. n + 1 |-> IF j <= n THEN j ELSE EOF]
===============================================================================
