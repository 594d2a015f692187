----------------------------- MODULE Stream_proofs -----------------------------
(***************************************************************************)
(* Theorems about Stream, for every size of the arrays and every length of *)
(* the file: an invariant of the encoder's two threads, one of the         *)
(* decoder's, and the whole way of a file through both.                    *)
(***************************************************************************)
EXTENDS Stream, SequenceTheorems, TLAPS

-------------------------------------------------------------------------------
(* The encoder. *)


\* The codes of the file that tasks have been given so far, the running one's
\* included: what was read but for a block that is still on its way.
EncGiven == IF pc \in {"wait", "copy"} THEN position - read_bytes ELSE position

\* Who has what of the file.  The task's block is the last Given's.
EncShares ==
  /\ EncGiven \in Nat /\ size <= EncGiven
  /\ task # "running" => i = size
  /\ task = "none" => EncGiven = 0
  /\ task = "running" => \A j \in 1 .. size : out_block1[j] = EncGiven - size + j
  /\ pc \in {"wait", "copy"} =>
       /\ \A j \in 1 .. read_bytes : int_array[j] = EncGiven + j
       /\ read_bytes = 0 => position = file
  /\ pc = "copy" => /\ copied <= read_bytes
                    /\ \A j \in 1 .. copied : out_block1[j] = EncGiven + j
  /\ pc \in {"drain", "end", "finished"} => position = file
  /\ pc \in {"copy", "end", "finished"} => task # "running"

\* What the coder has written: the codes before the task's block, those of it
\* that are done, and in the end the end-of-file symbol.
EncWritten ==
  /\ Len(archive) = IF pc = "finished" THEN file + 1 ELSE EncGiven - size + i
  /\ \A k \in 1 .. Len(archive) : archive[k] = IF k <= file THEN k ELSE Enc!EOF

EncInv == Enc!TypeOK /\ EncShares /\ EncWritten

-------------------------------------------------------------------------------
\* The invariant holds before anything was read.
LEMMA EncInvInit == Enc!Init => EncInv
<1> SUFFICES ASSUME Enc!Init PROVE EncInv
  OBVIOUS
<1>1. Enc!TypeOK
  BY StreamAssumption DEF Enc!Init, Enc!TypeOK, Enc!Index, Enc!EOF
<1>2. EncShares
  BY DEF Enc!Init, EncShares, EncGiven
<1>3. EncWritten
  BY DEF Enc!Init, EncWritten, EncGiven
<1> QED BY <1>1, <1>2, <1>3 DEF EncInv

\* Reading and transforming a block leaves what was given to tasks alone.
LEMMA EncReadBlockKeeps == EncInv /\ Enc!ReadBlock => EncInv'
<1> SUFFICES ASSUME EncInv, Enc!ReadBlock PROVE EncInv'
  OBVIOUS
<1> USE StreamAssumption DEF EncInv, Enc!ReadBlock
<1>1. file \in Nat /\ position \in Nat /\ position <= file
  BY DEF Enc!TypeOK
<1>2. read_bytes' \in 0 .. BLOCK_SIZE /\ position' \in 0 .. file
      /\ position' = position + read_bytes' /\ (read_bytes' = 0 => position' = file)
  BY <1>1
<1>3. Enc!TypeOK'
  <2>1. int_array' \in [Enc!Index -> 0 .. file]
    BY <1>1, <1>2 DEF Enc!TypeOK, Enc!Index
  <2> QED BY <1>2, <2>1 DEF Enc!TypeOK
<1>4. EncGiven' = EncGiven
  BY <1>1, <1>2 DEF EncGiven
<1>5. EncShares'
  BY <1>1, <1>2, <1>4 DEF EncShares, EncGiven, Enc!Index
<1>6. EncWritten'
  BY <1>4 DEF EncWritten
<1> QED BY <1>3, <1>5, <1>6

\* After the wait no task runs, so all of its block is written.
LEMMA EncWaitKeeps == EncInv /\ Enc!Wait => EncInv'
<1> SUFFICES ASSUME EncInv, Enc!Wait PROVE EncInv'
  OBVIOUS
<1> USE StreamAssumption DEF EncInv, Enc!Wait
<1>1. Enc!TypeOK'
  BY DEF Enc!TypeOK
<1>2. EncGiven' = EncGiven
  BY DEF EncGiven
<1>3. EncShares'
  BY <1>2 DEF EncShares, Enc!TypeOK
<1>4. EncWritten'
  BY <1>2 DEF EncWritten
<1> QED BY <1>1, <1>3, <1>4

\* The copy fills the task's array while no task runs.
LEMMA EncCopyKeeps == EncInv /\ Enc!Copy => EncInv'
<1> SUFFICES ASSUME EncInv, Enc!Copy PROVE EncInv'
  OBVIOUS
<1> USE StreamAssumption DEF EncInv, Enc!Copy
<1>1. copied' \in Enc!Index /\ copied' <= read_bytes
  BY DEF Enc!TypeOK, Enc!Index
<1>2. Enc!TypeOK'
  <2>1. out_block1' \in [Enc!Index -> 0 .. file]
    BY <1>1 DEF Enc!TypeOK
  <2> QED BY <1>1, <2>1 DEF Enc!TypeOK, Enc!Index
<1>3. EncGiven' = EncGiven
  BY DEF EncGiven
<1>4. \A j \in 1 .. copied' : out_block1'[j] = EncGiven + j
  <2> SUFFICES ASSUME NEW j \in 1 .. copied' PROVE out_block1'[j] = EncGiven + j
    OBVIOUS
  <2>1. j \in Enc!Index
    BY <1>1 DEF Enc!Index, Enc!TypeOK
  <2>2. CASE j = copied'
    BY <1>1, <2>1, <2>2 DEF EncShares, Enc!TypeOK, Enc!Index
  <2>3. CASE j # copied'
    BY <2>1, <2>3 DEF EncShares, Enc!TypeOK, Enc!Index
  <2> QED BY <2>2, <2>3
<1>5. EncShares'
  BY <1>1, <1>3, <1>4 DEF EncShares
<1>6. EncWritten'
  BY <1>3 DEF EncWritten
<1> QED BY <1>2, <1>5, <1>6

\* The next task gets the block that was read last.
LEMMA EncLaunchKeeps == EncInv /\ Enc!Launch => EncInv'
<1> SUFFICES ASSUME EncInv, Enc!Launch PROVE EncInv'
  OBVIOUS
<1> USE StreamAssumption DEF EncInv, Enc!Launch
<1>1. Enc!TypeOK'
  BY DEF Enc!TypeOK
<1>2. EncGiven' = EncGiven + read_bytes /\ EncGiven' \in Nat /\ EncGiven \in Nat
  BY DEF EncGiven, Enc!TypeOK, EncShares
<1>3. EncShares'
  BY <1>2 DEF EncShares, Enc!TypeOK
<1>4. EncGiven' - size' + i' = EncGiven /\ EncGiven - size + i = EncGiven
  BY <1>2 DEF EncShares, Enc!TypeOK
<1>5. EncWritten'
  BY <1>4 DEF EncWritten
<1> QED BY <1>1, <1>3, <1>5

\* The coder writes the code that is next.
LEMMA EncEncodeElementKeeps == EncInv /\ Enc!EncodeElement => EncInv'
<1> SUFFICES ASSUME EncInv, Enc!EncodeElement PROVE EncInv'
  OBVIOUS
<1> USE StreamAssumption DEF EncInv, Enc!EncodeElement
<1>1. i + 1 \in 1 .. size /\ i + 1 \in Enc!Index
  BY DEF Enc!TypeOK, Enc!Index
<1>2. out_block1[i + 1] = EncGiven - size + (i + 1) /\ out_block1[i + 1] \in 0 .. file
  BY <1>1 DEF EncShares, Enc!TypeOK
<1>3. Enc!TypeOK'
  BY <1>1, <1>2 DEF Enc!TypeOK
<1>4. EncGiven' = EncGiven
  BY DEF EncGiven
<1>5. EncShares'
  BY <1>4 DEF EncShares
<1>6. EncWritten'
  <2>1. pc # "finished" /\ pc' = pc
    BY DEF EncShares
  <2>2. Len(archive) = EncGiven - size + i /\ Len(archive') = Len(archive) + 1
    BY <2>1 DEF EncWritten, Enc!TypeOK
  <2>3. archive'[Len(archive')] = Len(archive')
    BY <1>2, <2>2 DEF Enc!TypeOK, EncShares
  <2>4. Len(archive') <= file
    BY <1>2, <2>2 DEF Enc!TypeOK, EncShares
  <2>5. ASSUME NEW k \in 1 .. Len(archive')
        PROVE  archive'[k] = k /\ k <= file
    <3>1. CASE k = Len(archive')
      BY <2>3, <2>4, <3>1
    <3>2. CASE k # Len(archive')
      <4>1. k \in 1 .. Len(archive) /\ archive'[k] = archive[k]
        BY <2>2, <3>2 DEF Enc!TypeOK
      <4> QED BY <2>2, <2>4, <4>1 DEF EncWritten, Enc!TypeOK
    <3> QED BY <3>1, <3>2
  <2>6. Len(archive') = EncGiven' - size' + i'
    BY <1>1, <1>4, <2>2 DEF EncShares, Enc!TypeOK
  <2> QED BY <2>1, <2>5, <2>6 DEF EncWritten
<1> QED BY <1>3, <1>5, <1>6

\* encode_end comes when the codes of the whole file are written.
LEMMA EncEndKeeps == EncInv /\ Enc!End => EncInv'
<1> SUFFICES ASSUME EncInv, Enc!End PROVE EncInv'
  OBVIOUS
<1> USE StreamAssumption DEF EncInv, Enc!End
<1>1. Enc!TypeOK'
  BY DEF Enc!TypeOK, Enc!EOF
<1>2. EncGiven' = EncGiven /\ EncGiven = file
  BY DEF EncGiven, EncShares
<1>3. EncShares'
  BY <1>2 DEF EncShares
<1>4. Len(archive) = file /\ file \in Nat
  BY <1>2 DEF EncWritten, EncShares, Enc!TypeOK
<1>5. Len(archive') = file + 1 /\ archive'[file + 1] = Enc!EOF
  BY <1>4 DEF Enc!TypeOK
<1>6. \A k \in 1 .. file : archive'[k] = archive[k] /\ archive[k] = k
  BY <1>4 DEF EncWritten, Enc!TypeOK
<1>7. EncWritten'
  BY <1>4, <1>5, <1>6 DEF EncWritten
<1> QED BY <1>1, <1>3, <1>7

\* Every step keeps the invariant.
LEMMA EncInvStep == EncInv /\ [Enc!Next]_(Enc!vars) => EncInv'
<1> SUFFICES ASSUME EncInv, [Enc!Next]_(Enc!vars) PROVE EncInv'
  OBVIOUS
<1>1. CASE Enc!ReadBlock
  BY <1>1, EncReadBlockKeeps
<1>2. CASE Enc!Wait
  BY <1>2, EncWaitKeeps
<1>3. CASE Enc!Copy
  BY <1>3, EncCopyKeeps
<1>4. CASE Enc!Launch
  BY <1>4, EncLaunchKeeps
<1>5. CASE Enc!Drain
  BY <1>5, StreamAssumption DEF Enc!Drain, EncInv, Enc!TypeOK, EncShares, EncWritten, EncGiven
<1>6. CASE Enc!End
  BY <1>6, EncEndKeeps
<1>7. CASE Enc!EncodeElement
  BY <1>7, EncEncodeElementKeeps
<1>8. CASE Enc!Ready
  BY <1>8, StreamAssumption DEF Enc!Ready, EncInv, Enc!TypeOK, EncShares, EncWritten, EncGiven
<1>9. CASE UNCHANGED Enc!vars
  BY <1>9 DEF Enc!vars, EncInv, Enc!TypeOK, EncShares, EncWritten, EncGiven
<1> QED BY <1>1, <1>2, <1>3, <1>4, <1>5, <1>6, <1>7, <1>8, <1>9 DEF Enc!Next, Enc!Main, Enc!Task


\* The invariant says that a running task is alone with its array.
LEMMA EncInvOneOwner == EncInv => Enc!OneOwner
BY DEF EncInv, EncShares, Enc!OneOwner

\* The invariant says that the archive is in order.
LEMMA EncInvArchive == EncInv => Enc!ArchiveInOrder
<1> SUFFICES ASSUME EncInv PROVE Enc!ArchiveInOrder
  OBVIOUS
<1>1. file \in Nat /\ archive \in Seq(0 .. file) /\ Len(archive) \in Nat
  BY StreamAssumption DEF EncInv, Enc!TypeOK
<1>2. Enc!Archive(file) \in Seq(0 .. file) /\ Len(Enc!Archive(file)) = file + 1
      /\ \A k \in 1 .. file + 1 : Enc!Archive(file)[k] = IF k <= file THEN k ELSE Enc!EOF
  BY <1>1 DEF Enc!Archive, Enc!EOF
<1>3. Len(archive) <= file + 1
  BY <1>1 DEF EncInv, EncWritten, EncShares, EncGiven, Enc!TypeOK
<1>4. \A k \in 1 .. Len(archive) : archive[k] = Enc!Archive(file)[k]
  BY <1>1, <1>2, <1>3 DEF EncInv, EncWritten
<1>5. SubSeq(archive, 1, Len(archive)) = SubSeq(Enc!Archive(file), 1, Len(archive))
  BY <1>1, <1>2, <1>3, <1>4
<1>6. Enc!IsPrefix(archive, Enc!Archive(file))
  BY <1>2, <1>3, <1>5 DEF Enc!IsPrefix
<1>7. ASSUME pc = "finished" PROVE archive = Enc!Archive(file)
  <2>1. Len(archive) = Len(Enc!Archive(file))
    BY <1>2, <1>7 DEF EncInv, EncWritten
  <2> QED BY <1>1, <1>2, <1>4, <2>1
<1> QED BY <1>6, <1>7 DEF Enc!ArchiveInOrder

-------------------------------------------------------------------------------
(* The decoder. *)


\* The codes of the file that tasks have been given so far, the running one's
\* included: what was decoded but for a block that is still on its way.
DecGiven == IF dpc \in {"wait", "copy"} THEN dposition - read ELSE dposition

\* Who has what of the file.  The task's block is the last Given's.
DecShares ==
  /\ DecGiven \in Nat /\ length <= DecGiven
  /\ dtask # "running" => di = length
  /\ dtask = "none" => DecGiven = 0
  /\ dtask = "running" => \A j \in 1 .. length : dint_array[j] = archive[DecGiven - length + j]
  /\ dtask = "running" => \A j \in 1 .. di : byte_array[j] = archive[DecGiven - length + j]
  /\ dpc \in {"wait", "copy"} =>
       /\ \A j \in 1 .. read : dout_block1[j] = archive[DecGiven + j]
       /\ read = 0 => dposition = Dec!codes
  /\ dpc = "copy" => /\ dcopied <= read /\ dtask # "running"
                    /\ \A j \in 1 .. dcopied : dint_array[j] = archive[DecGiven + j]
  /\ dpc \in {"drain", "finished"} => dposition = Dec!codes
  /\ dpc = "finished" => dtask # "running"

\* What the table has met: the codes before the task's block and those of it
\* that are done.
DecMet ==
  /\ Len(met) = DecGiven - length + di
  /\ \A k \in 1 .. Len(met) : met[k] = archive[k]

\* What is in the output: the task's block is there once the task is over.
DecWritten ==
  /\ Len(out) = IF dtask = "running" THEN DecGiven - length ELSE DecGiven
  /\ \A k \in 1 .. Len(out) : out[k] = archive[k]

DecInv == Dec!TypeOK /\ DecShares /\ DecMet /\ DecWritten

-------------------------------------------------------------------------------
\* The invariant holds before anything was decoded.
LEMMA DecInvInit == Dec!Init => DecInv
<1> SUFFICES ASSUME Dec!Init PROVE DecInv
  OBVIOUS
<1>a. Dec!Started /\ archive \in Seq(Nat) /\ Dec!codes \in Nat
  <2>1. PICK n \in FileLengths : archive = Dec!Archive(n)
    BY DEF Dec!Init
  <2>2. n \in Nat
    BY StreamAssumption
  <2>3. Dec!Archive(n) \in Seq(Nat) /\ Len(Dec!Archive(n)) = n + 1
    BY <2>2 DEF Dec!Archive, Dec!EOF
  <2> QED BY <2>1, <2>2, <2>3 DEF Dec!Init, Dec!codes
<1>1. Dec!TypeOK
  BY <1>a, StreamAssumption DEF Dec!Started, Dec!TypeOK, Dec!Index, Dec!None
<1>2. DecShares
  BY <1>a DEF Dec!Started, DecShares, DecGiven
<1>3. DecMet /\ DecWritten
  BY <1>a DEF Dec!Started, DecMet, DecWritten, DecGiven
<1> QED BY <1>1, <1>2, <1>3 DEF DecInv

\* Decoding a block of codes leaves what was given to tasks alone.
LEMMA DecDecodeBlockKeeps == DecInv /\ Dec!DecodeBlock => DecInv'
<1> SUFFICES ASSUME DecInv, Dec!DecodeBlock PROVE DecInv'
  OBVIOUS
<1> USE StreamAssumption DEF DecInv, Dec!DecodeBlock, Dec!taskVars
<1>a. archive' = archive /\ Dec!codes' = Dec!codes
  BY DEF Dec!codes
<1> USE <1>a
<1>1. Dec!codes \in Nat /\ dposition \in Nat /\ dposition <= Dec!codes
  BY DEF Dec!TypeOK
<1>2. read' \in 0 .. BLOCK_SIZE /\ dposition' \in 0 .. Dec!codes
      /\ dposition' = dposition + read' /\ (read' = 0 => dposition' = Dec!codes)
  BY <1>1
<1>3. Dec!TypeOK'
  <2>1. dout_block1' \in [Dec!Index -> Nat]
    <3>1. ASSUME NEW j \in Dec!Index, j <= read' PROVE archive[dposition + j] \in Nat
      <4>1. dposition + j \in 1 .. Dec!codes
        BY <1>1, <1>2, <3>1 DEF Dec!Index
      <4>2. archive \in Seq(Nat) /\ Dec!codes = Len(archive) - 1 /\ Len(archive) \in Nat
        BY DEF Dec!TypeOK, Dec!codes
      <4>3. dposition + j \in 1 .. Len(archive)
        BY <4>1, <4>2
      <4> HIDE DEF Dec!DecodeBlock, DecInv
      <4> QED BY <4>2, <4>3
    <3> QED BY <3>1 DEF Dec!TypeOK
  <2>2. dposition' \in 0 .. Dec!codes' /\ read' \in 0 .. BLOCK_SIZE /\ dpc' = "wait"
    BY <1>2
  <2>3. UNCHANGED <<archive, dint_array, dcopied, dtask, length, di, byte_array, met, out>>
    OBVIOUS
  <2>4. Dec!TypeOK /\ Dec!Index' = Dec!Index
    BY DEF Dec!Index
  <2> HIDE DEF Dec!DecodeBlock, DecInv
  <2> QED BY <2>1, <2>2, <2>3, <2>4, <1>1 DEF Dec!TypeOK
<1>4. DecGiven' = DecGiven
  BY <1>1, <1>2 DEF DecGiven
<1>5. DecShares'
  <2>1. DecGiven = dposition /\ dpc = "decode" /\ dpc' = "wait"
    BY DEF DecGiven
  <2>2. \A j \in 1 .. read' : dout_block1'[j] = archive[dposition + j]
    BY <1>2 DEF Dec!Index
  <2>3. UNCHANGED <<dint_array, dtask, length, di, byte_array>>
    OBVIOUS
  <2> HIDE DEF Dec!DecodeBlock, DecInv
  <2> QED BY <1>1, <1>2, <1>4, <2>1, <2>2, <2>3 DEF DecShares, DecInv
<1>6. DecMet' /\ DecWritten'
  BY <1>4 DEF DecMet, DecWritten
<1> QED BY <1>3, <1>5, <1>6

\* After the wait no task runs, so all of its block is in the output.
LEMMA DecWaitKeeps == DecInv /\ Dec!Wait => DecInv'
<1> SUFFICES ASSUME DecInv, Dec!Wait PROVE DecInv'
  OBVIOUS
<1> USE StreamAssumption DEF DecInv, Dec!Wait, Dec!taskVars
<1>a. archive' = archive /\ Dec!codes' = Dec!codes
  BY DEF Dec!codes
<1> USE <1>a
<1>1. Dec!TypeOK'
  BY DEF Dec!TypeOK
<1>2. DecGiven' = DecGiven
  BY DEF DecGiven
<1>3. DecShares'
  BY <1>2 DEF DecShares, Dec!TypeOK
<1>4. DecMet' /\ DecWritten'
  BY <1>2 DEF DecMet, DecWritten
<1> QED BY <1>1, <1>3, <1>4

\* The copy fills the task's array while no task runs.
LEMMA DecCopyKeeps == DecInv /\ Dec!Copy => DecInv'
<1> SUFFICES ASSUME DecInv, Dec!Copy PROVE DecInv'
  OBVIOUS
<1> USE StreamAssumption DEF DecInv, Dec!Copy, Dec!taskVars
<1>a. archive' = archive /\ Dec!codes' = Dec!codes
  BY DEF Dec!codes
<1> USE <1>a
<1>1. dcopied' \in Dec!Index /\ dcopied' <= read
  BY DEF Dec!TypeOK, Dec!Index
<1>2. Dec!TypeOK'
  <2>1. dint_array' \in [Dec!Index -> Nat]
    BY <1>1 DEF Dec!TypeOK
  <2>2. dcopied' \in 0 .. BLOCK_SIZE
    BY <1>1 DEF Dec!Index
  <2> QED BY <2>1, <2>2 DEF Dec!TypeOK
<1>3. DecGiven' = DecGiven
  BY DEF DecGiven
<1>4. \A j \in 1 .. dcopied' : dint_array'[j] = archive[DecGiven + j]
  <2> SUFFICES ASSUME NEW j \in 1 .. dcopied' PROVE dint_array'[j] = archive[DecGiven + j]
    OBVIOUS
  <2>1. j \in Dec!Index
    BY <1>1 DEF Dec!Index, Dec!TypeOK
  <2>2. CASE j = dcopied'
    BY <1>1, <2>1, <2>2 DEF DecShares, Dec!TypeOK, Dec!Index
  <2>3. CASE j # dcopied'
    BY <2>1, <2>3 DEF DecShares, Dec!TypeOK, Dec!Index
  <2> QED BY <2>2, <2>3
<1>5. DecShares'
  BY <1>1, <1>3, <1>4 DEF DecShares
<1>6. DecMet' /\ DecWritten'
  BY <1>3 DEF DecMet, DecWritten
<1> QED BY <1>2, <1>5, <1>6

\* The next task gets the block that was decoded last.
LEMMA DecLaunchKeeps == DecInv /\ Dec!Launch => DecInv'
<1> SUFFICES ASSUME DecInv, Dec!Launch PROVE DecInv'
  OBVIOUS
<1> USE StreamAssumption DEF DecInv, Dec!Launch
<1>a. archive' = archive /\ Dec!codes' = Dec!codes
  BY DEF Dec!codes
<1> USE <1>a
<1>1. Dec!TypeOK'
  BY DEF Dec!TypeOK
<1>2. DecGiven' = DecGiven + read /\ DecGiven' \in Nat /\ DecGiven \in Nat
  BY DEF DecGiven, Dec!TypeOK, DecShares
<1>3. DecShares'
  BY <1>2 DEF DecShares, Dec!TypeOK
<1>4. DecGiven' - length' + di' = DecGiven /\ DecGiven - length + di = DecGiven
  BY <1>2 DEF DecShares, Dec!TypeOK
<1>5. DecMet'
  BY <1>4 DEF DecMet
<1>6. DecWritten'
  BY <1>2, <1>4 DEF DecWritten, DecShares, Dec!TypeOK
<1> QED BY <1>1, <1>3, <1>5, <1>6

\* The table meets the code that is next.
LEMMA DecDecodeElementKeeps == DecInv /\ Dec!DecodeElement => DecInv'
<1> SUFFICES ASSUME DecInv, Dec!DecodeElement PROVE DecInv'
  OBVIOUS
<1> USE StreamAssumption DEF DecInv, Dec!DecodeElement
<1>a. archive' = archive /\ Dec!codes' = Dec!codes
  BY DEF Dec!codes
<1> USE <1>a
<1>1. di + 1 \in 1 .. length /\ di + 1 \in Dec!Index
  BY DEF Dec!TypeOK, Dec!Index
<1>2. dint_array[di + 1] = archive[DecGiven - length + (di + 1)] /\ dint_array[di + 1] \in Nat
  BY <1>1 DEF DecShares, Dec!TypeOK
<1>3. Dec!TypeOK'
  <2>1. byte_array' \in [Dec!Index -> Nat] /\ met' \in Seq(Nat)
    BY <1>1, <1>2 DEF Dec!TypeOK
  <2> QED BY <1>1, <2>1 DEF Dec!TypeOK
<1>4. DecGiven' = DecGiven
  BY DEF DecGiven
<1>5. \A j \in 1 .. di' : byte_array'[j] = archive[DecGiven - length + j]
  <2> SUFFICES ASSUME NEW j \in 1 .. di' PROVE byte_array'[j] = archive[DecGiven - length + j]
    OBVIOUS
  <2>1. j \in Dec!Index
    BY <1>1 DEF Dec!Index, Dec!TypeOK
  <2>2. CASE j = di + 1
    BY <1>1, <1>2, <2>2 DEF Dec!TypeOK
  <2>3. CASE j # di + 1
    BY <2>1, <2>3 DEF DecShares, Dec!TypeOK
  <2> QED BY <2>2, <2>3
<1>6. DecShares'
  BY <1>4, <1>5 DEF DecShares
<1>7. DecMet'
  <2>1. met \in Seq(Nat) /\ Len(met) = DecGiven - length + di
    BY DEF DecMet, Dec!TypeOK
  <2>2. /\ Len(met') = Len(met) + 1 /\ met'[Len(met) + 1] = dint_array[di + 1]
        /\ \A k \in 1 .. Len(met) : met'[k] = met[k]
    BY <1>2, <2>1, AppendProperties
  <2>3. ASSUME NEW k \in 1 .. Len(met') PROVE met'[k] = archive[k]
    <3>1. CASE k = Len(met) + 1
      <4>1. di \in Nat /\ length \in Nat /\ DecGiven \in Nat
        BY DEF Dec!TypeOK, DecShares
      <4> QED BY <1>2, <2>1, <2>2, <3>1, <4>1
    <3>2. CASE k # Len(met) + 1
      <4>1. Len(met) \in Nat
        BY <2>1
      <4> QED BY <2>2, <3>2, <4>1 DEF DecMet
    <3> QED BY <3>1, <3>2
  <2>4. Len(met') = DecGiven' - length' + di'
    BY <1>1, <1>4, <2>1, <2>2 DEF DecShares, Dec!TypeOK
  <2> QED BY <2>3, <2>4 DEF DecMet
<1>8. DecWritten'
  BY <1>4 DEF DecWritten
<1> QED BY <1>3, <1>6, <1>7, <1>8

\* At its end the task writes its whole block and nothing of an earlier one.
LEMMA DecWriteKeeps == DecInv /\ Dec!Write => DecInv'
<1> SUFFICES ASSUME DecInv, Dec!Write PROVE DecInv'
  OBVIOUS
<1> USE StreamAssumption DEF DecInv, Dec!Write
<1>a. archive' = archive /\ Dec!codes' = Dec!codes
  BY DEF Dec!codes
<1> USE <1>a
<1> DEFINE block == SubSeq(byte_array, 1, length)
<1>1. length \in Nat /\ length <= BLOCK_SIZE /\ Dec!codes \in Nat /\ DecGiven \in Nat /\ length <= DecGiven
  BY DEF Dec!TypeOK, DecShares
<1>2. \A j \in 1 .. length : byte_array[j] = archive[DecGiven - length + j] /\ byte_array[j] \in Nat
  <2>1. \A j \in 1 .. length : j \in Dec!Index
    BY <1>1 DEF Dec!Index
  <2> QED BY <2>1 DEF DecShares, Dec!TypeOK
<1>3. block \in Seq(Nat) /\ Len(block) = length
      /\ \A j \in 1 .. length : block[j] = archive[DecGiven - length + j]
  <2>1. length \in Int /\ 1 \in Int
    BY <1>1
  <2>2. /\ block \in Seq(Nat)
        /\ Len(block) = IF 1 <= length THEN length - 1 + 1 ELSE 0
        /\ \A j \in 1 .. length - 1 + 1 : block[j] = byte_array[1 + j - 1]
    <3> HIDE DEF DecInv, Dec!Write
    <3> QED BY <1>2, <2>1, SubSeqProperties
  <2>3. \A j \in 1 .. length : block[j] = byte_array[j]
    <3> HIDE DEF DecInv, Dec!Write, block
    <3> QED BY <1>1, <2>2
  <2> HIDE DEF block
  <2> QED BY <1>1, <1>2, <2>2, <2>3
<1>4. out \in Seq(Nat) /\ Len(out) = DecGiven - length
  BY DEF Dec!TypeOK, DecWritten
<1>5. /\ out' \in Seq(Nat) /\ Len(out') = DecGiven
      /\ \A k \in 1 .. DecGiven :
           out'[k] = IF k <= Len(out) THEN out[k] ELSE block[k - Len(out)]
  <2>1. out' = out \o block
    OBVIOUS
  <2> HIDE DEF block, DecInv, Dec!Write
  <2>2. block \in Seq(Nat) /\ Len(out) + Len(block) = DecGiven
    BY <1>1, <1>3, <1>4
  <2>3. /\ out \o block \in Seq(Nat) /\ Len(out \o block) = Len(out) + Len(block)
        /\ \A k \in 1 .. Len(out) + Len(block) :
             (out \o block)[k] = IF k <= Len(out) THEN out[k] ELSE block[k - Len(out)]
    BY <1>4, <2>2, ConcatProperties
  <2> QED BY <2>1, <2>2, <2>3
<1> HIDE DEF block
<1>6. DecGiven' = DecGiven
  BY DEF DecGiven
<1>7. Dec!TypeOK'
  BY <1>5 DEF Dec!TypeOK
<1>8. DecShares'
  BY <1>6 DEF DecShares
<1>9. DecMet'
  BY <1>6 DEF DecMet
<1>10. DecWritten'
  <2>1. ASSUME NEW k \in 1 .. DecGiven PROVE out'[k] = archive[k]
    <3>1. CASE k <= Len(out)
      BY <1>1, <1>4, <1>5, <3>1 DEF DecWritten
    <3>2. CASE k > Len(out)
      <4>1. k - Len(out) \in 1 .. length
        BY <1>1, <1>4, <3>2
      <4>2. block[k - Len(out)] = archive[k]
        <5>1. DecGiven - length + (k - Len(out)) = k
          BY <1>1, <1>4
        <5> QED BY <1>3, <4>1, <5>1
      <4>3. out'[k] = block[k - Len(out)]
        BY <1>4, <1>5, <3>2
      <4> QED BY <4>2, <4>3
    <3> QED BY <1>1, <1>4, <3>1, <3>2
  <2> QED BY <1>5, <1>6, <2>1 DEF DecWritten
<1> QED BY <1>7, <1>8, <1>9, <1>10

\* Every step keeps the invariant.
LEMMA DecInvStep == DecInv /\ [Dec!Next]_(Dec!vars) => DecInv'
<1> SUFFICES ASSUME DecInv, [Dec!Next]_(Dec!vars) PROVE DecInv'
  OBVIOUS
<1>1. CASE Dec!DecodeBlock
  BY <1>1, DecDecodeBlockKeeps
<1>2. CASE Dec!Wait
  BY <1>2, DecWaitKeeps
<1>3. CASE Dec!Copy
  BY <1>3, DecCopyKeeps
<1>4. CASE Dec!Launch
  BY <1>4, DecLaunchKeeps
<1>5. CASE Dec!Drain
  BY <1>5, StreamAssumption
  DEF Dec!Drain, Dec!taskVars, DecInv, Dec!TypeOK, DecShares, DecMet, DecWritten, DecGiven, Dec!codes
<1>6. CASE Dec!DecodeElement
  BY <1>6, DecDecodeElementKeeps
<1>7. CASE Dec!Write
  BY <1>7, DecWriteKeeps
<1>8. CASE UNCHANGED Dec!vars
  BY <1>8 DEF Dec!vars, DecInv, Dec!TypeOK, DecShares, DecMet, DecWritten, DecGiven, Dec!codes
<1> QED BY <1>1, <1>2, <1>3, <1>4, <1>5, <1>6, <1>7, <1>8 DEF Dec!Next, Dec!Main, Dec!Task


\* A sequence that agrees with the codes of the archive, as many or fewer, is a
\* prefix of them.
LEMMA AgreeingIsPrefix ==
  ASSUME archive \in Seq(Nat), Dec!codes \in Nat, NEW s \in Seq(Nat), Len(s) <= Dec!codes,
         \A k \in 1 .. Len(s) : s[k] = archive[k]
  PROVE  Dec!IsPrefix(s, Dec!Front(archive)) /\ (Len(s) = Dec!codes => s = Dec!Front(archive))
<1> DEFINE whole == SubSeq(archive, 1, Dec!codes)
<1>1. Dec!Front(archive) = whole /\ Len(archive) = Dec!codes + 1
  BY DEF Dec!Front, Dec!codes
<1>2. whole \in Seq(Nat) /\ Len(whole) = Dec!codes /\ \A k \in 1 .. Dec!codes : whole[k] = archive[k]
  <2>1. \A k \in 1 .. Dec!codes : archive[k] \in Nat
    BY <1>1
  <2>2. Dec!codes \in Int /\ 1 \in Int
    OBVIOUS
  <2>3. /\ whole \in Seq(Nat) /\ Len(whole) = IF 1 <= Dec!codes THEN Dec!codes - 1 + 1 ELSE 0
        /\ \A k \in 1 .. Dec!codes - 1 + 1 : whole[k] = archive[1 + k - 1]
    BY <2>1, <2>2, SubSeqProperties
  <2> HIDE DEF whole
  <2>4. \A k \in 1 .. Dec!codes : 1 + k - 1 = k
    OBVIOUS
  <2> QED BY <2>3, <2>4
<1> HIDE DEF whole
<1>3. \A k \in 1 .. Len(s) : s[k] = whole[k]
  BY <1>2
<1>4. SubSeq(s, 1, Len(s)) = SubSeq(whole, 1, Len(s))
  BY <1>2, <1>3
<1>5. Dec!IsPrefix(s, whole)
  BY <1>2, <1>4 DEF Dec!IsPrefix
<1>6. ASSUME Len(s) = Dec!codes PROVE s = whole
  BY <1>2, <1>3, <1>6
<1> QED BY <1>1, <1>5, <1>6

\* The invariant says that the table meets the codes in order.
LEMMA DecInvTable == DecInv => Dec!TableInOrder
<1> SUFFICES ASSUME DecInv PROVE Dec!TableInOrder
  OBVIOUS
<1>1. archive \in Seq(Nat) /\ Dec!codes \in Nat /\ met \in Seq(Nat) /\ Len(met) <= Dec!codes
  BY StreamAssumption DEF DecInv, Dec!TypeOK, DecMet, DecShares, DecGiven
<1> QED BY <1>1, AgreeingIsPrefix DEF DecInv, DecMet, Dec!TableInOrder

\* The invariant says that the output is in order.
LEMMA DecInvOutput == DecInv => Dec!OutputInOrder
<1> SUFFICES ASSUME DecInv PROVE Dec!OutputInOrder
  OBVIOUS
<1>1. archive \in Seq(Nat) /\ Dec!codes \in Nat /\ out \in Seq(Nat) /\ Len(out) <= Dec!codes
  BY StreamAssumption DEF DecInv, Dec!TypeOK, DecWritten, DecShares, DecGiven
<1>2. dpc = "finished" => Len(out) = Dec!codes /\ dtask # "running"
  BY DEF DecInv, DecWritten, DecShares, DecGiven
<1> QED BY <1>1, <1>2, AgreeingIsPrefix DEF DecInv, DecWritten, Dec!OutputInOrder

-------------------------------------------------------------------------------
(* Both. *)

\* Decompression has not begun, or it works on a whole archive.
StreamsInv ==
  /\ EncInv
  /\ \/ Dec!Started
     \/ pc = "finished" /\ DecInv

\* On a whole archive the decoder's invariant holds from its beginning.
LEMMA DecoderOnArchive ==
  StreamsInv /\ pc = "finished" => archive = Archive(file) /\ DecInv
<1> SUFFICES ASSUME StreamsInv, pc = "finished"
             PROVE  archive = Archive(file) /\ DecInv
  OBVIOUS
<1>1. Enc!ArchiveInOrder /\ file \in FileLengths
  <2>1. EncInv
    BY DEF StreamsInv
  <2>2. file \in FileLengths
    BY <2>1 DEF EncInv, Enc!TypeOK
  <2> QED BY <2>1, <2>2, EncInvArchive, StreamAssumption
<1>2. archive = Archive(file)
  <2>1. archive = Enc!Archive(file)
    BY <1>1 DEF Enc!ArchiveInOrder
  <2> QED BY <2>1 DEF Archive, Enc!Archive, EOF, Enc!EOF
<1>3. CASE Dec!Started
  <2>1. archive = Dec!Archive(file)
    BY <1>2 DEF Archive, Dec!Archive, EOF, Dec!EOF
  <2>2. Dec!Init
    BY <1>1, <1>3, <2>1 DEF Dec!Init
  <2> QED BY <1>2, <2>2, DecInvInit, StreamAssumption
<1> QED BY <1>2, <1>3 DEF StreamsInv

\* Both directions keep the invariant.
LEMMA StreamsInvStep == StreamsInv /\ [Next]_vars => StreamsInv'
<1> SUFFICES ASSUME StreamsInv, [Next]_vars PROVE StreamsInv'
  OBVIOUS
<1>1. EncInv
  BY DEF StreamsInv
<1>2. ASSUME Enc!Main \/ Enc!Task, UNCHANGED decVars PROVE StreamsInv'
  <2>1. Enc!Next
    BY <1>2 DEF Enc!Next
  <2>2. EncInv'
    BY <1>1, <2>1, EncInvStep, StreamAssumption
  <2>3. pc # "finished"
    <3>1. pc = "finished" => task # "running"
      BY <1>1 DEF EncInv, EncShares
    <3> QED BY <1>2, <3>1
            DEF Enc!Main, Enc!Task, Enc!ReadBlock, Enc!Wait, Enc!Copy, Enc!Launch, Enc!Drain,
                Enc!End, Enc!EncodeElement, Enc!Ready
  <2>4. Dec!Started'
    BY <1>2, <2>3 DEF StreamsInv, decVars, Dec!Started, Dec!Index, Dec!None
  <2> QED BY <2>2, <2>4 DEF StreamsInv
<1>3. ASSUME pc = "finished", Dec!Main \/ Dec!Task, UNCHANGED encVars PROVE StreamsInv'
  <2>1. EncInv'
    <3>1. UNCHANGED Enc!vars
      BY <1>3 DEF encVars, Enc!vars
    <3> QED BY <1>1, <3>1, EncInvStep, StreamAssumption
  <2>2. DecInv
    BY <1>3, DecoderOnArchive
  <2>3. Dec!Next
    BY <1>3 DEF Dec!Next
  <2>4. DecInv'
    BY <2>2, <2>3, DecInvStep, StreamAssumption
  <2> QED BY <1>3, <2>1, <2>4 DEF StreamsInv, encVars
<1>4. ASSUME UNCHANGED vars PROVE StreamsInv'
  <2>1. UNCHANGED Enc!vars /\ UNCHANGED Dec!vars /\ pc' = pc
    BY <1>4 DEF vars, encVars, decVars, Enc!vars, Dec!vars
  <2>2. EncInv'
    BY <1>1, <2>1, EncInvStep, StreamAssumption
  <2>3. Dec!Started => Dec!Started'
    BY <2>1 DEF Dec!vars, Dec!Started, Dec!Index, Dec!None
  <2>4. DecInv => DecInv'
    BY <2>1, DecInvStep, StreamAssumption
  <2> QED BY <2>1, <2>2, <2>3, <2>4 DEF StreamsInv
<1> QED BY <1>2, <1>3, <1>4 DEF Next, EncMain, EncTask, DecMain, DecTask

\* The invariant holds always.
LEMMA StreamsInvAlways == Spec => []StreamsInv
<1>1. Init => StreamsInv
  BY EncInvInit, StreamAssumption DEF Init, StreamsInv
<1> QED BY <1>1, StreamsInvStep, PTL DEF Spec

\* While a task of compress_stream runs, the main thread keeps off its array
\* and the coder, for every size of the arrays and every file.
THEOREM OneOwnerCorrect == Spec => []OneOwner
<1>1. StreamsInv => OneOwner
  BY EncInvOneOwner, StreamAssumption
  DEF StreamsInv, OneOwner
<1> QED BY <1>1, StreamsInvAlways, PTL

\* The archive of compress_stream is the codes of the file in order, whole when
\* encode returns.
THEOREM ArchiveInOrderCorrect == Spec => []ArchiveInOrder
<1>1. StreamsInv => ArchiveInOrder
  BY EncInvArchive, StreamAssumption
  DEF StreamsInv, ArchiveInOrder
<1> QED BY <1>1, StreamsInvAlways, PTL

\* The table of decompress_stream meets the codes in the order of the archive.
THEOREM TableInOrderCorrect == Spec => []TableInOrder
<1>1. StreamsInv => TableInOrder
  <2> SUFFICES ASSUME StreamsInv PROVE TableInOrder
    OBVIOUS
  <2>1. CASE Dec!Started
    <3>1. met = <<>>
      BY <2>1 DEF Dec!Started
    <3> QED BY <3>1 DEF TableInOrder, Dec!TableInOrder, Dec!IsPrefix
  <2>2. CASE DecInv
    BY <2>2, DecInvTable, StreamAssumption
    DEF TableInOrder
  <2> QED BY <2>1, <2>2 DEF StreamsInv
<1> QED BY <1>1, StreamsInvAlways, PTL

\* What decompress_stream writes of what compress_stream has made of a file is
\* that file in its order, whole when decode returns: for every size of the
\* arrays, every file, and whatever the speeds of the four threads.
THEOREM StreamsCorrect == Spec => []OutputInOrder
<1>1. StreamsInv => OutputInOrder
  <2> SUFFICES ASSUME StreamsInv PROVE OutputInOrder
    OBVIOUS
  <2>1. CASE pc = "finished"
    <3>1. archive = Archive(file) /\ Dec!OutputInOrder
      BY <2>1, DecoderOnArchive, DecInvOutput, StreamAssumption
    <3> QED BY <3>1 DEF Dec!OutputInOrder, OutputInOrder, Dec!IsPrefix, IsPrefix,
                        Dec!Front, Front
  <2>2. CASE pc # "finished"
    <3>1. dpc = "decode" /\ out = <<>>
      BY <2>2 DEF StreamsInv, Dec!Started
    <3>2. IsPrefix(out, Front(Archive(file)))
      BY <3>1 DEF IsPrefix
    <3> QED BY <3>1, <3>2 DEF OutputInOrder
  <2> QED BY <2>1, <2>2
<1> QED BY <1>1, StreamsInvAlways, PTL
===============================================================================
