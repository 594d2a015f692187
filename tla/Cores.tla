-------------------------------- MODULE Cores --------------------------------
(***************************************************************************)
(* How many workers the block mode (option -p) makes, and how much memory  *)
(* each gives its table: src/mtf/MTFHashCompressor.h.                      *)
(***************************************************************************)
EXTENDS Integers

\* hardware is what std::thread::hardware_concurrency() returns, 0 if unknown.
get_cores(hardware) == IF hardware - 2 <= 0 THEN 1 ELSE hardware - 2

\* compress_block takes two off a second time; for i = 0 .. core_number - 1
\* makes no worker of a number below 1.
CompressWorkers(hardware) ==
  IF get_cores(hardware) - 2 <= 0 THEN 0 ELSE get_cores(hardware) - 2

DecompressWorkers(hardware) == get_cores(hardware)

\* max_memory_usage / core_number, computed once per worker.
Share(max_memory_usage, core_number) == max_memory_usage \div core_number
==============================================================================
