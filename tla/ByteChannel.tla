----------------------------- MODULE ByteChannel -----------------------------
(***************************************************************************)
(* What a compressor and the decompressor of its archive promise together: *)
(* a channel that delivers the values it was given, in order, each once,   *)
(* and invents none.  test/test_compress_decompress.cpp compares a file    *)
(* with its decompressed archive in exactly this sense.                    *)
(***************************************************************************)
EXTENDS Naturals, Sequences

CONSTANT Value

VARIABLES
  sent,      \* what went in
  delivered  \* what came out

vars == <<sent, delivered>>

Init == sent = <<>> /\ delivered = <<>>

Send(v) == sent' = Append(sent, v) /\ UNCHANGED delivered

Deliver ==
  /\ Len(delivered) < Len(sent)
  /\ delivered' = Append(delivered, sent[Len(delivered) + 1])
  /\ UNCHANGED sent

Next == (\E v \in Value : Send(v)) \/ Deliver

Spec == Init /\ [][Next]_vars
==============================================================================
