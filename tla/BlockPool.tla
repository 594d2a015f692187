------------------------------- MODULE BlockPool -------------------------------
(***************************************************************************)
(* The block mode: compress_block and decompress_block with their pools of *)
(* MTFBlockWorkers.  Each round the main thread reads one block per worker *)
(* and starts a task on it, then collects the results in worker order.  A  *)
(* worker keeps its two buffers for the whole run; the task works in them  *)
(* without a lock while the main thread reads the other workers' blocks.   *)
(*                                                                         *)
(* What a task does to a block is the matter of MTFCodec and RunLength:    *)
(* here a compressed block is named by the bytes it stands for, and a byte *)
(* by its position in the file.                                            *)
(***************************************************************************)
EXTENDS Cores, Sequences, SequencesExt

CONSTANTS
  HardwareThreads, \* results of hardware_concurrency() that are looked at
  BlockSize,       \* bytes of an input block (8 MiB)
  FileLengths      \* lengths of the input that are looked at

ASSUME PoolAssumption ==
  /\ HardwareThreads \subseteq Nat /\ BlockSize \in Nat \ {0} /\ FileLengths \subseteq Nat

VARIABLES
  hardware,   \* of the machine
  file,       \* length of the input
  direction,  \* compress, then decompress, then end
  pc,         \* the main thread: at the loop's test, filling or collecting
  w,          \* the worker it has come to
  good,       \* in_file.good()
  position,   \* bytes of the input, or blocks of the archive, that were read
  workers,
  archive,    \* the blocks written
  out         \* the bytes the decompressor wrote

vars == <<hardware, file, direction, pc, w, good, position, workers, archive, out>>
fixed == <<hardware, file, archive, out>>

core_number(d) ==
  IF d = "compress" THEN CompressWorkers(hardware) ELSE DecompressWorkers(hardware)

\* future is idle (not valid), running or ready; size is the task's argument.
NewWorker == [future |-> "idle", size |-> 0, in_block |-> <<>>, out_block |-> <<>>]

\* Opening a file and making the workers.
Open(d) ==
  /\ direction' = d /\ pc' = "test" /\ w' = 1 /\ good' = TRUE /\ position' = 0
  /\ workers' = [v \in 1 .. core_number(d) |-> NewWorker]

Init ==
  /\ hardware \in HardwareThreads /\ file \in FileLengths
  /\ direction = "compress" /\ pc = "test" /\ w = 1 /\ good = TRUE /\ position = 0
  /\ workers = [v \in 1 .. core_number("compress") |-> NewWorker]
  /\ archive = <<>> /\ out = <<>>

Input == [j \in 1 .. file |-> j]

-------------------------------------------------------------------------------
(* The main thread. *)

\* while (in_file.good()), and what follows the loop.
Test ==
  /\ direction # "end" /\ pc = "test"
  /\ \/ /\ good
        /\ pc' = "fill" /\ w' = 1
        /\ UNCHANGED <<direction, good, position, workers>>
     \/ /\ ~good /\ direction = "compress" /\ Open("decompress")
     \/ /\ ~good /\ direction = "decompress" /\ direction' = "end"
        /\ UNCHANGED <<pc, w, good, position, workers>>
  /\ UNCHANGED fixed

\* read() overwrites the front of the buffer.
Overwrite(block, data) ==
  IF Len(data) < Len(block) THEN data \o SubSeq(block, Len(data) + 1, Len(block)) ELSE data

Loaded(worker, data) == [worker EXCEPT !.in_block = Overwrite(worker.in_block, data)]

\* Slip: the task is given what is in the buffer, not what was read.
Start_buffer(worker, size) ==
  IF worker.future = "idle" /\ size > 0
  THEN [worker EXCEPT !.future = "running", !.size = Len(worker.in_block)] ELSE worker

\* startCompression and startDecompression.
Start(worker, size) ==
  IF worker.future = "idle" /\ size > 0
  THEN [worker EXCEPT !.future = "running", !.size = size] ELSE worker

\* A stream that was read to its end once yields nothing any more.
NextBytes ==
  IF good THEN SubSeq(Input, position + 1, Min({position + BlockSize, file})) ELSE <<>>

ReadBlock ==
  /\ direction = "compress" /\ pc = "fill" /\ w \in DOMAIN workers
  /\ workers' = [workers EXCEPT ![w] = Start(Loaded(@, NextBytes), Len(NextBytes))]
  /\ good' = (Len(NextBytes) = BlockSize)
  /\ position' = position + Len(NextBytes)
  /\ w' = w + 1
  /\ UNCHANGED <<direction, pc>> /\ UNCHANGED fixed

\* Past the last block the read of the header fails, leaves block_size without
\* a value, and the second read of the failed stream returns nothing.
NextBlock ==
  IF good /\ position < Len(archive) THEN archive[position + 1] ELSE <<>>

ReadArchive ==
  /\ direction = "decompress" /\ pc = "fill" /\ w \in DOMAIN workers
  /\ workers' = [workers EXCEPT ![w] = Start(Loaded(@, NextBlock), Len(NextBlock))]
  /\ good' = (NextBlock # <<>>)
  /\ position' = IF NextBlock # <<>> THEN position + 1 ELSE position
  /\ w' = w + 1
  /\ UNCHANGED <<direction, pc>> /\ UNCHANGED fixed

\* The end of either inner loop.
NextLoop ==
  /\ pc \in {"fill", "collect"} /\ w \notin DOMAIN workers
  /\ pc' = (IF pc = "fill" THEN "collect" ELSE "test") /\ w' = 1
  /\ UNCHANGED <<direction, good, position, workers>> /\ UNCHANGED fixed

Writing(block) ==
  /\ archive' = IF direction = "compress" /\ block # <<>> THEN Append(archive, block) ELSE archive
  /\ out' = IF direction = "decompress" THEN out \o block ELSE out

\* A future in one of these states, or a result that is there, lets get go on.
GetPast(states) ==
  /\ pc = "collect" /\ w \in DOMAIN workers
  /\ \/ /\ workers[w].future = "ready"
        /\ workers' = [workers EXCEPT ![w].future = "idle"]
        /\ Writing(workers[w].out_block)
     \/ /\ workers[w].future \in states
        /\ UNCHANGED workers
        /\ Writing(<<>>)
  /\ w' = w + 1
  /\ UNCHANGED <<hardware, file, direction, pc, good, position>>

\* Slips: get does not wait for a task that is still running; get waits for a
\* task that was never started.
Get_ready == GetPast({"idle", "running"})
Get_always == GetPast({})

\* get waits for the worker's future, if it has one.
Get == GetPast({"idle"})

Main == Test \/ ReadBlock \/ ReadArchive \/ NextLoop \/ Get

-------------------------------------------------------------------------------
(* The tasks: compressBlock and decompressBlock. *)

Finish(v) ==
  /\ v \in DOMAIN workers /\ workers[v].future = "running"
  /\ workers' = [workers EXCEPT
       ![v].future = "ready",
       ![v].out_block = SubSeq(workers[v].in_block, 1, workers[v].size)]
  /\ UNCHANGED <<hardware, file, direction, pc, w, good, position, archive, out>>

\* No machine that is looked at makes more workers than this.
WorkerIds == 1 .. Max({get_cores(h) : h \in HardwareThreads})

-------------------------------------------------------------------------------
Next == Main \/ \E v \in WorkerIds : Finish(v)

\* Each thread is scheduled for ever.
Spec ==
  /\ Init /\ [][Next]_vars
  /\ WF_vars(Main) /\ \A v \in WorkerIds : WF_vars(Finish(v))

-------------------------------------------------------------------------------
Block == UNION {[1 .. n -> 1 .. file] : n \in 0 .. BlockSize}

TypeOK ==
  /\ hardware \in HardwareThreads /\ file \in FileLengths
  /\ direction \in {"compress", "decompress", "end"} /\ pc \in {"test", "fill", "collect"}
  /\ w \in 1 .. Len(workers) + 1 /\ good \in BOOLEAN /\ position \in 0 .. file
  /\ workers \in Seq([future : {"idle", "running", "ready"}, size : 0 .. BlockSize,
                      in_block : Block, out_block : Block])
  /\ archive \in Seq(Block \ {<<>>}) /\ out \in Seq(1 .. file)

\* The archive holds the blocks in the order of the file, whatever the order
\* in which the tasks end: nothing is missing between two blocks, nothing is
\* there twice.  When compress_block returns the whole file is in it, a short
\* last block and a file of whole blocks included.
ArchiveInOrder ==
  /\ IsPrefix(FlattenSeq(archive), Input)
  /\ direction # "compress" => FlattenSeq(archive) = Input

\* The output is the original file as far as it goes, with another number of
\* workers than compressed it, and all of it in the end.
OutputInOrder ==
  /\ IsPrefix(out, Input)
  /\ direction = "end" => out = Input

\* The main thread never reads into the buffer of a worker whose task runs,
\* nor does a worker lose a running task.
BufferOwned ==
  [][\A v \in DOMAIN workers :
       workers[v].future = "running" =>
         v \in DOMAIN workers' /\ workers'[v].in_block = workers[v].in_block]_vars

\* Compression ends: compress_block's loop reads its input to the end.
CompressEnds == <>(direction # "compress")

\* Compression and then decompression end.
PoolEnds == <>(direction = "end")
===============================================================================
