-------------------------------- MODULE Stream --------------------------------
(***************************************************************************)
(* A file through both directions of MTFHashTableStream: compress_stream,  *)
(* with its two threads, and then decompress_stream, with its two, on the  *)
(* archive the first one has left.                                         *)
(***************************************************************************)
EXTENDS StreamBlocks

VARIABLES file, pc, position, read_bytes, int_array, out_block1, copied, task, size, i, archive

Enc == INSTANCE StreamEncode

VARIABLES
  dpc, dposition, read, dout_block1, dint_array, dcopied, dtask, length, di, byte_array, met, out

Dec == INSTANCE StreamDecode
  WITH pc <- dpc, position <- dposition, out_block1 <- dout_block1, int_array <- dint_array,
       copied <- dcopied, task <- dtask, i <- di

encVars == <<file, pc, position, read_bytes, int_array, out_block1, copied, task, size, i, archive>>
decVars == <<dpc, dposition, read, dout_block1, dint_array, dcopied, dtask, length, di,
             byte_array, met, out>>
vars == <<encVars, decVars>>

Init == Enc!Init /\ Dec!Started

\* compress_stream
EncMain == Enc!Main /\ UNCHANGED decVars
EncTask == Enc!Task /\ UNCHANGED decVars

\* decompress_stream, started on a whole archive.
DecMain == pc = "finished" /\ Dec!Main /\ UNCHANGED encVars
DecTask == pc = "finished" /\ Dec!Task /\ UNCHANGED encVars

Next == EncMain \/ EncTask \/ DecMain \/ DecTask

\* Each of the four threads is scheduled for ever.
Spec ==
  /\ Init /\ [][Next]_vars
  /\ WF_vars(EncMain) /\ WF_vars(EncTask) /\ WF_vars(DecMain) /\ WF_vars(DecTask)

-------------------------------------------------------------------------------
\* While the coder's task runs, the main thread of encode keeps off its array
\* and off the coder.
OneOwner == Enc!OneOwner

\* The archive holds the codes of the file in order, whole when encode returns.
ArchiveInOrder == Enc!ArchiveInOrder

\* The decoder's table meets the codes in the order of the archive.
TableInOrder == Dec!TableInOrder

\* The output is the input file as far as it goes, and when decode returns it
\* is whole and no task is left that uses the object.
OutputInOrder ==
  /\ IsPrefix(out, Front(Archive(file)))
  /\ dpc = "finished" => out = Front(Archive(file)) /\ dtask # "running"

\* Both directions end, whatever the length of the file.
BothEnd == Enc!EncodeEnds /\ Dec!DecodeEnds
===============================================================================
