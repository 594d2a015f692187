----------------------------- MODULE StreamDecode -----------------------------
(***************************************************************************)
(* The two threads of MTFHashTableStream::decode, the mirror image of      *)
(* StreamEncode: the main thread runs the entropy decoder, one block ahead *)
(* of a task (reverse_mtf) that owns the context table, turns the codes    *)
(* back into symbols and writes them.  Here int_array is what both threads *)
(* touch.  The table is adaptive: a code decoded out of turn is wrong, so  *)
(* the order in which the table meets the codes is recorded.               *)
(*                                                                         *)
(* A code and its symbol are named alike.                                  *)
(***************************************************************************)
EXTENDS StreamBlocks

VARIABLES
  archive,     \* codes, and the end-of-file symbol behind the last
  pc,          \* the main thread
  position,    \* codes the run-length decoder has returned
  read,        \* of them in the current block
  out_block1,  \* the block the decoder fills
  int_array,   \* the block the task decodes
  copied,      \* elements memcpy has written
  task,        \* the task of the future: none, running or ready
  length,      \* its argument
  i,           \* codes it has decoded
  byte_array,  \* the symbols it has decoded
  met,         \* the codes the table has met
  out          \* the output file

vars == <<archive, pc, position, read, out_block1, int_array, copied, task, length, i,
          byte_array, met, out>>
taskVars == <<task, length, i, byte_array, met, out>>

None == 0

\* decode at its beginning.
Started ==
  /\ pc = "decode" /\ position = 0 /\ read = 0
  /\ out_block1 = [j \in Index |-> None] /\ int_array = [j \in Index |-> None]
  /\ copied = 0 /\ task = "none" /\ length = 0 /\ i = 0
  /\ byte_array = [j \in Index |-> None] /\ met = <<>> /\ out = <<>>

Init == archive \in {Archive(n) : n \in FileLengths} /\ Started

-------------------------------------------------------------------------------
(* The main thread. *)

codes == Len(archive) - 1

\* rle.decode_array fills the array until it comes to the end-of-file symbol.
DecodeBlock ==
  /\ pc = "decode" /\ pc' = "wait"
  /\ read' = IF codes - position < BLOCK_SIZE THEN codes - position ELSE BLOCK_SIZE
  /\ position' = position + read'
  /\ out_block1' = [j \in Index |-> IF j <= read' THEN archive[position + j] ELSE out_block1[j]]
  /\ UNCHANGED <<archive, int_array, copied>>
  /\ UNCHANGED taskVars

\* Slip: no waiting, the task is taken to be faster than the decoder.
Wait_never ==
  /\ pc = "wait" /\ pc' = "copy" /\ copied' = 0
  /\ UNCHANGED <<archive, position, read, out_block1, int_array>>
  /\ UNCHANGED taskVars

Wait ==
  /\ pc = "wait" /\ task # "running"
  /\ pc' = "copy" /\ copied' = 0
  /\ UNCHANGED <<archive, position, read, out_block1, int_array>>
  /\ UNCHANGED taskVars

Copy ==
  /\ pc = "copy" /\ copied < read
  /\ copied' = copied + 1
  /\ int_array' = [int_array EXCEPT ![copied'] = out_block1[copied']]
  /\ UNCHANGED <<archive, pc, position, read, out_block1>>
  /\ UNCHANGED taskVars

Launch ==
  /\ pc = "copy" /\ copied = read
  /\ task' = "running" /\ length' = read /\ i' = 0
  /\ pc' = IF read > 0 THEN "decode" ELSE "drain"
  /\ UNCHANGED <<archive, position, read, out_block1, int_array, copied, byte_array, met, out>>

\* The wait after the loop.
Drain ==
  /\ pc = "drain" /\ task # "running"
  /\ pc' = "finished"
  /\ UNCHANGED <<archive, position, read, out_block1, int_array, copied>>
  /\ UNCHANGED taskVars

Main == DecodeBlock \/ Wait \/ Copy \/ Launch \/ Drain

-------------------------------------------------------------------------------
(* The task: reverse_mtf. *)

DecodeElement ==
  /\ task = "running" /\ i < length
  /\ met' = Append(met, int_array[i + 1])
  /\ byte_array' = [byte_array EXCEPT ![i + 1] = int_array[i + 1]]
  /\ i' = i + 1
  /\ UNCHANGED <<task, length, out>>
  /\ UNCHANGED <<archive, pc, position, read, out_block1, int_array, copied>>

\* Slip: the whole array is written, not what was decoded of it.
Write_whole ==
  /\ task = "running" /\ i = length
  /\ out' = out \o byte_array
  /\ task' = "ready"
  /\ UNCHANGED <<length, i, byte_array, met>>
  /\ UNCHANGED <<archive, pc, position, read, out_block1, int_array, copied>>

\* out.write, the end of the task.
Write ==
  /\ task = "running" /\ i = length
  /\ out' = out \o SubSeq(byte_array, 1, length)
  /\ task' = "ready"
  /\ UNCHANGED <<length, i, byte_array, met>>
  /\ UNCHANGED <<archive, pc, position, read, out_block1, int_array, copied>>

Task == DecodeElement \/ Write

-------------------------------------------------------------------------------
Next == Main \/ Task

\* Each thread is scheduled for ever.
Spec == Init /\ [][Next]_vars /\ WF_vars(Main) /\ WF_vars(Task)

-------------------------------------------------------------------------------
TypeOK ==
  /\ archive \in Seq(Nat) /\ codes \in Nat /\ position \in 0 .. codes
  /\ pc \in {"decode", "wait", "copy", "drain", "finished"}
  /\ read \in 0 .. BLOCK_SIZE /\ copied \in 0 .. BLOCK_SIZE
  /\ out_block1 \in [Index -> Nat] /\ int_array \in [Index -> Nat]
  /\ byte_array \in [Index -> Nat]
  /\ task \in {"none", "running", "ready"}
  /\ length \in 0 .. BLOCK_SIZE /\ i \in 0 .. length
  /\ met \in Seq(Nat) /\ out \in Seq(Nat)

\* The table meets the codes in the order the encoder's table produced them,
\* across all block borders: no code is overwritten before it is decoded.
TableInOrder == IsPrefix(met, Front(archive))

\* The output is the file as far as it goes, with nothing of an earlier block
\* after a short last one.  When decode returns, and the task's object may be
\* destroyed, the task is over and the file is whole.
OutputInOrder ==
  /\ IsPrefix(out, Front(archive))
  /\ pc = "finished" => out = Front(archive) /\ task # "running"

\* Decompression ends.
DecodeEnds == <>(pc = "finished")
===============================================================================
