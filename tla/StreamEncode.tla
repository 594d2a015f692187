----------------------------- MODULE StreamEncode -----------------------------
(***************************************************************************)
(* The two threads of MTFHashTableStream::encode.  The main thread reads   *)
(* and transforms block after block; the entropy coder runs in a task of   *)
(* its own (std::async) on the previous block.  Between them stand one     *)
(* array, out_block1, and the coder object, both shared without a lock:    *)
(* only future.wait keeps the threads apart.                               *)
(*                                                                         *)
(* A symbol and its code are named by their position in the file, the      *)
(* end-of-file symbol is 0.  The arrays are copied and encoded element by  *)
(* element, so that a copy which overlaps the task would show.             *)
(***************************************************************************)
EXTENDS StreamBlocks

VARIABLES
  file,        \* length of the input
  pc,          \* the main thread
  position,    \* bytes read from the file
  read_bytes,  \* bytes of the current block
  int_array,   \* the transformed block
  out_block1,  \* the block the task encodes
  copied,      \* elements memcpy has written
  task,        \* the task of the future: none, running or ready
  size,        \* its argument `length'
  i,           \* elements it has encoded
  archive      \* what the coder has written

vars == <<file, pc, position, read_bytes, int_array, out_block1, copied, task, size, i, archive>>

Init ==
  /\ file \in FileLengths /\ pc = "read" /\ position = 0 /\ read_bytes = 0
  /\ int_array = [j \in Index |-> EOF] /\ out_block1 = [j \in Index |-> EOF]
  /\ copied = 0 /\ task = "none" /\ size = 0 /\ i = 0 /\ archive = <<>>

-------------------------------------------------------------------------------
(* The main thread. *)

\* in.read, gcount, and the transformation of what was read.
ReadBlock ==
  /\ pc = "read" /\ pc' = "wait"
  /\ read_bytes' = IF file - position < BLOCK_SIZE THEN file - position ELSE BLOCK_SIZE
  /\ position' = position + read_bytes'
  /\ int_array' = [j \in Index |-> IF j <= read_bytes' THEN position + j ELSE int_array[j]]
  /\ UNCHANGED <<file, out_block1, copied, task, size, i, archive>>

\* Slip: only a coder that has not started is waited for.
Wait_started ==
  /\ pc = "wait" /\ (i > 0 \/ task # "running")
  /\ pc' = "copy" /\ copied' = 0
  /\ UNCHANGED <<file, position, read_bytes, int_array, out_block1, task, size, i, archive>>

\* future.wait, skipped before the first task.
Wait ==
  /\ pc = "wait" /\ task # "running"
  /\ pc' = "copy" /\ copied' = 0
  /\ UNCHANGED <<file, position, read_bytes, int_array, out_block1, task, size, i, archive>>

\* memcpy, an element at a time.
Copy ==
  /\ pc = "copy" /\ copied < read_bytes
  /\ copied' = copied + 1
  /\ out_block1' = [out_block1 EXCEPT ![copied'] = int_array[copied']]
  /\ UNCHANGED <<file, pc, position, read_bytes, int_array, task, size, i, archive>>

\* Slips: the task is always given a full block; an empty block goes round
\* again.
Launch_full ==
  /\ pc = "copy" /\ copied = read_bytes
  /\ task' = "running" /\ size' = BLOCK_SIZE /\ i' = 0
  /\ pc' = IF read_bytes > 0 THEN "read" ELSE "drain"
  /\ UNCHANGED <<file, position, read_bytes, int_array, out_block1, copied, archive>>
Launch_again ==
  /\ pc = "copy" /\ copied = read_bytes
  /\ task' = "running" /\ size' = read_bytes /\ i' = 0
  /\ pc' = "read"
  /\ UNCHANGED <<file, position, read_bytes, int_array, out_block1, copied, archive>>

\* std::async, also for the empty block that ends the loop.
Launch ==
  /\ pc = "copy" /\ copied = read_bytes
  /\ task' = "running" /\ size' = read_bytes /\ i' = 0
  /\ pc' = IF read_bytes > 0 THEN "read" ELSE "drain"
  /\ UNCHANGED <<file, position, read_bytes, int_array, out_block1, copied, archive>>

\* The wait after the loop.
Drain ==
  /\ pc = "drain" /\ task # "running"
  /\ pc' = "end"
  /\ UNCHANGED <<file, position, read_bytes, int_array, out_block1, copied, task, size, i, archive>>

\* rle.encode_end and out.flush_remaining.
End ==
  /\ pc = "end"
  /\ archive' = Append(archive, EOF)
  /\ pc' = "finished"
  /\ UNCHANGED <<file, position, read_bytes, int_array, out_block1, copied, task, size, i>>

Main == ReadBlock \/ Wait \/ Copy \/ Launch \/ Drain \/ End

-------------------------------------------------------------------------------
(* The task: RunLength::encode_array on out_block1. *)

EncodeElement ==
  /\ task = "running" /\ i < size
  /\ archive' = Append(archive, out_block1[i + 1])
  /\ i' = i + 1
  /\ UNCHANGED <<file, pc, position, read_bytes, int_array, out_block1, copied, task, size>>

Ready ==
  /\ task = "running" /\ i = size
  /\ task' = "ready"
  /\ UNCHANGED <<file, pc, position, read_bytes, int_array, out_block1, copied, size, i, archive>>

Task == EncodeElement \/ Ready

-------------------------------------------------------------------------------
Next == Main \/ Task

\* Each thread is scheduled for ever.
Spec == Init /\ [][Next]_vars /\ WF_vars(Main) /\ WF_vars(Task)

-------------------------------------------------------------------------------
TypeOK ==
  /\ file \in FileLengths /\ position \in 0 .. file
  /\ pc \in {"read", "wait", "copy", "drain", "end", "finished"}
  /\ read_bytes \in 0 .. BLOCK_SIZE /\ copied \in 0 .. BLOCK_SIZE
  /\ int_array \in [Index -> 0 .. file] /\ out_block1 \in [Index -> 0 .. file]
  /\ task \in {"none", "running", "ready"}
  /\ size \in 0 .. BLOCK_SIZE /\ i \in 0 .. size
  /\ archive \in Seq(0 .. file)

\* The archive holds the codes of the file in order, none lost or repeated at
\* a block border or taken from a block that is being overwritten, and the
\* end-of-file symbol after the last; at the end nothing is missing.
ArchiveInOrder ==
  /\ IsPrefix(archive, Archive(file))
  /\ pc = "finished" => archive = Archive(file)

\* The main thread touches the task's array and the coder only while no task
\* runs.
OneOwner == (pc = "copy" /\ copied > 0) \/ pc = "end" => task # "running"

\* Compression ends.
EncodeEnds == <>(pc = "finished")
===============================================================================
