------------------------------- MODULE MCHashes -------------------------------
(***************************************************************************)
(* Small hash objects: bytes of two bits, words of ten.  Base 2 never      *)
(* leaves a word, 5 does so in a difference, 29 in a product.              *)
(***************************************************************************)
EXTENDS Hashes

MCBases == {2, 5, 29}

MCTable == [j \in 0 .. K - 1 |-> [c \in Bytes |-> (89 * (j + 2) * (c + 3) * (c + 7) + 41 * j) % 256]]
===============================================================================
