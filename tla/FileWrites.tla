----------------------------- MODULE FileWrites -----------------------------
(***************************************************************************)
(* The programs of rank p in the measurements of measurements/io.c that    *)
(* write a file: init, measure and finalize function in a row.  The twelve *)
(* branches of a measure function differ in the class of access routine;   *)
(* where they make the same calls with the routine of their class they are *)
(* one case here.                                                          *)
(***************************************************************************)
EXTENDS FileCalls, FiniteSetsExt

SO(a) == get_offset(a, a.stride)            \* stride_offset
BO(a) == get_offset(a, a.blocklen)          \* block_offset

\* The head of a measurement in which all ranks open file 0 for writing.
OpenToWrite(a, p) ==
  get_io_filename(a, p) \o send_buffer_init(a) \o OpenView(World(a), 0, ToWrite(a))
  \o When(a.io_preallocate, preallocate_file_space(a)) \o N_BARRIER(a)

-----------------------------------------------------------------------------
(* write_segmented: rank p writes from p * stride on. *)

write_segmented_noncollective(a, p) ==
  CASE a.pointer = "explicit" ->
         EachBlock(a, LAMBDA i, n : Access(a, p * SO(a) + i * BO(a), n))
    [] a.pointer = "individual" ->
         F_seek(p * SO(a)) \o EachBlock(a, LAMBDA i, n : AccessNext(a, n))
    [] a.pointer = "shared" /\ a.stride = a.memsize ->   \* never completed if started only
         When(p # 0, Recv(p - 1, 23)) \o EachBlock(a, LAMBDA i, n : Start(a, 0, n))
         \o When(p < a.np - 1, Send(p + 1, 23))
    [] OTHER ->
         InTurn(a, p, LAMBDA j : j * SO(a), EachBlock(a, LAMBDA i, n : AccessNext(a, n)))

\* In the split collective with explicit offsets pos is moved on before i is.
write_segmented_collective(a, p) ==
  CASE a.pointer = "explicit" ->
         EachBlock(a, LAMBDA i, n :
           Access(a, p * SO(a) + BO(a) * IF a.blocking \/ i = 0 THEN i ELSE i - 1, n))
    [] a.pointer = "individual" ->
         F_seek(p * SO(a)) \o EachBlock(a, LAMBDA i, n : AccessNext(a, n))
    [] a.pointer = "shared" /\ a.memsize <= a.blocklen /\ a.memsize = a.stride ->
         AccessNext(a, a.memsize)
    [] OTHER ->
         Times(a.np, LAMBDA j :
           When(a.memsize < a.stride, F_seek_shared(j * SO(a)))
           \o EachBlock(a, LAMBDA i, n : AccessNext(a, IF j = p THEN n ELSE 0)))

write_segmented(a, p) ==
  OpenToWrite(a, p)
  \o (IF a.collective THEN write_segmented_collective(a, p) ELSE write_segmented_noncollective(a, p))
  \o Finish(a)

-----------------------------------------------------------------------------
(* write_strided: block i of rank p is the (i * np + p)-th of the file. *)

StridePos(a, i, j) == (i * a.np + j) * SO(a)

\* A ring of messages for full blocks next to each other, else turns.  The last
\* full block before a short one is followed by a message that nobody receives.
StridedShared(a, p, Calls(_)) ==
  EachBlock(a, LAMBDA i, n :
    IF a.stride = a.blocklen /\ n = a.blocklen
    THEN When(a.np > 1 /\ <<i, p>> # <<0, 0>>, Recv((p - 1 + a.np) % a.np, 42))
         \o Calls(n)
         \o When(a.np > 1 /\ <<i, p>> # <<Blocks(a) - 1, a.np - 1>>, Send((p + 1) % a.np, 42))
    ELSE InTurn(a, p, LAMBDA j : StridePos(a, i, j), AccessNext(a, n)))

write_strided_blocking(a, p) ==
  CASE a.pointer = "explicit" -> EachBlock(a, LAMBDA i, n : Access(a, StridePos(a, i, p), n))
    [] a.pointer = "individual" ->
         EachBlock(a, LAMBDA i, n : F_seek(StridePos(a, i, p)) \o AccessNext(a, n))
    [] a.pointer = "shared" -> StridedShared(a, p, LAMBDA n : AccessNext(a, n))

\* iwrite_shared of a full block is not waited for.
write_strided_nonblocking(a, p) ==
  CASE a.pointer = "explicit" -> EachBlock(a, LAMBDA i, n : Access(a, StridePos(a, i, p), n))
    [] a.pointer = "individual" ->
         EachBlock(a, LAMBDA i, n : F_seek(StridePos(a, i, p)) \o AccessNext(a, n))
    [] a.pointer = "shared" -> StridedShared(a, p, LAMBDA n : Start(a, 0, n))

\* All ranks call for each block of a rank that has to be placed.
StridedOrdered(a, p) ==
  EachBlock(a, LAMBDA i, n :
    IF a.stride = a.blocklen /\ n = a.blocklen THEN AccessNext(a, n)
    ELSE Times(a.np, LAMBDA j :
           F_seek_shared(StridePos(a, i, j)) \o AccessNext(a, IF j = p THEN n ELSE 0)))

write_strided_collective(a, p) ==
  CASE a.pointer = "explicit" -> EachBlock(a, LAMBDA i, n : Access(a, StridePos(a, i, p), n))
    [] a.pointer = "individual" ->
         EachBlock(a, LAMBDA i, n : F_seek(StridePos(a, i, p)) \o AccessNext(a, n))
    [] a.pointer = "shared" -> StridedOrdered(a, p)

\* The individual pointer is moved to the next block while one is being written.
write_strided_split(a, p) ==
  CASE a.pointer = "explicit" -> EachBlock(a, LAMBDA i, n : Access(a, StridePos(a, i, p), n))
    [] a.pointer = "individual" ->
         F_seek(p * SO(a))
         \o EachBlock(a, LAMBDA i, n : Start(a, 0, n) \o F_seek(StridePos(a, i + 1, p)) \o Wait)
    [] a.pointer = "shared" -> StridedOrdered(a, p)

write_strided(a, p) ==
  OpenToWrite(a, p)
  \o (CASE ~a.collective /\ a.blocking  -> write_strided_blocking(a, p)
        [] ~a.collective /\ ~a.blocking -> write_strided_nonblocking(a, p)
        [] a.collective /\ a.blocking   -> write_strided_collective(a, p)
        [] a.collective /\ ~a.blocking  -> write_strided_split(a, p))
  \o Finish(a)

-----------------------------------------------------------------------------
(* write_random: rounds in which each rank that has one left writes its next *)
(* block; sizes and block lengths differ between the ranks.                  *)

Own(a, p) == [a EXCEPT !.memsize = a.sizes[p], !.blocklen = a.lens[p]]
MaxBlocks(a) == Max({Blocks(Own(a, j)) : j \in World(a)})
RoundCnt(a, j, i) == IF i < Blocks(Own(a, j)) THEN Cnt(Own(a, j), i) ELSE 0

\* Mutant: the blocks of lower ranks in the same round are forgotten.
EarlierRounds(a, p, i) ==
  MapThenSumSet(LAMBDA b : get_offset(a, RoundCnt(a, b[2], b[1])), (0 .. i - 1) \X World(a))
\* Where rank p writes in round i: after all earlier rounds and lower ranks.
calc_offsets(a, p, i) ==
  MapThenSumSet(LAMBDA b : get_offset(a, RoundCnt(a, b[2], b[1])),
                {b \in (0 .. i) \X World(a) : b[1] < i \/ b[2] < p})

\* Mutant: the last block is followed by a message, too.
SendsAfterLast(a, p) ==
  CASE a.pointer = "explicit" ->
         EachBlock(Own(a, p), LAMBDA i, n : Access(a, calc_offsets(a, p, i), n))
    [] a.pointer = "individual" ->
         EachBlock(Own(a, p), LAMBDA i, n : F_seek(calc_offsets(a, p, i)) \o AccessNext(a, n))
    [] a.pointer = "shared" ->
         Times(MaxBlocks(a), LAMBDA i :
           When(a.np > 1 /\ <<i, p>> # <<0, 0>>, Recv((p - 1 + a.np) % a.np, 23))
           \o When(RoundCnt(a, p, i) > 0, AccessNext(a, RoundCnt(a, p, i)))
           \o When(a.np > 1, Send((p + 1) % a.np, 23)))
write_random_noncollective(a, p) ==
  CASE a.pointer = "explicit" ->
         EachBlock(Own(a, p), LAMBDA i, n : Access(a, calc_offsets(a, p, i), n))
    [] a.pointer = "individual" ->
         EachBlock(Own(a, p), LAMBDA i, n : F_seek(calc_offsets(a, p, i)) \o AccessNext(a, n))
    [] a.pointer = "shared" ->
         Times(MaxBlocks(a), LAMBDA i :
           When(a.np > 1 /\ <<i, p>> # <<0, 0>>, Recv((p - 1 + a.np) % a.np, 23))
           \o When(RoundCnt(a, p, i) > 0, AccessNext(a, RoundCnt(a, p, i)))
           \o When(a.np > 1 /\ <<i, p>> # <<MaxBlocks(a) - 1, a.np - 1>>, Send((p + 1) % a.np, 23)))

\* The count of a round from the number nb of full blocks and one.
CollectiveCnt(a, p, i) ==
  LET nb == a.sizes[p] \div a.lens[p] + 1
  IN CASE i < nb - 1 -> a.lens[p]
       [] i = nb - 1 -> a.sizes[p] % a.lens[p]
       [] OTHER -> 0

\* Mutant: each rank takes part in its own rounds only.
OwnRounds(a, p) ==
  Times(Blocks(Own(a, p)), LAMBDA i :
    CASE a.pointer = "explicit" -> Access(a, calc_offsets(a, p, i), CollectiveCnt(a, p, i))
      [] a.pointer = "individual" ->
           F_seek(calc_offsets(a, p, i)) \o AccessNext(a, CollectiveCnt(a, p, i))
      [] a.pointer = "shared" -> AccessNext(a, RoundCnt(a, p, i)))
write_random_collective(a, p) ==
  Times(MaxBlocks(a), LAMBDA i :
    CASE a.pointer = "explicit" -> Access(a, calc_offsets(a, p, i), CollectiveCnt(a, p, i))
      [] a.pointer = "individual" ->
           F_seek(calc_offsets(a, p, i)) \o AccessNext(a, CollectiveCnt(a, p, i))
      [] a.pointer = "shared" -> AccessNext(a, RoundCnt(a, p, i)))

\* Without IO_CHECK the access mode is replaced by MPI_MODE_DELETE_ON_CLOSE.
write_random(a, p) ==
  get_io_filename(a, p) \o send_buffer_init(a)
  \o OpenView(World(a), 0, IF a.io_check THEN {"WRONLY", "CREATE"} ELSE {"DELETE_ON_CLOSE"})
  \o When(a.io_preallocate, preallocate_file_space(a)) \o N_BARRIER(a)
  \o (IF a.collective THEN write_random_collective(a, p) ELSE write_random_noncollective(a, p))
  \o Finish(a)

-----------------------------------------------------------------------------
(* write_noncontiguous: each rank writes memsize elements from the start of  *)
(* its view.                                                                 *)

write_noncontiguous_begin(a, p) ==
  get_io_filename(a, p) \o send_buffer_init(a)
  \o When(a.io_preallocate,
       When(a.io_check, FILE_DELETE(a, 0))
       \o F_open(World(a), 0, {"WRONLY", "CREATE"}) \o F_set_view
       \o Meet(World(a), "MPI_Allreduce") \o Meet(OfFile, "MPI_File_preallocate") \o F_close)
  \o OpenView(World(a), 0, ToWrite(a)) \o N_BARRIER(a)

write_noncontiguous_noncollective(a, p) ==
  IF a.pointer = "shared"
  THEN InTurn(a, p, LAMBDA j : 0, EachBlock(a, LAMBDA i, n : AccessNext(a, n)))
  ELSE EachBlock(a, LAMBDA i, n : Access(a, i * BO(a), n))

\* Size of the q-th block, counted from 1; 0 where there is none.
NthBlock(a, q) ==
  LET n == a.memsize \div a.blocklen + 1
  IN CASE q <= 0 \/ q > n -> 0
       [] q = n -> a.memsize % a.blocklen
       [] OTHER -> a.blocklen

\* With the shared pointer the ranks write the blocks of one memory in turns;
\* in each of np rounds they start one block further on.
write_noncontiguous_collective(a, p) ==
  IF a.pointer = "shared"
  THEN Times(a.np, LAMBDA i :
         Times(DivUp(Blocks(a) + i, a.np), LAMBDA k : AccessNext(a, NthBlock(a, p + 1 - i + k * a.np)))
         \o F_seek_shared(0))
  ELSE EachBlock(a, LAMBDA i, n : Access(a, i * BO(a), n))

write_noncontiguous(a, p) ==
  write_noncontiguous_begin(a, p)
  \o (IF a.collective THEN write_noncontiguous_collective(a, p)
      ELSE write_noncontiguous_noncollective(a, p))
  \o Finish(a)

-----------------------------------------------------------------------------
(* write_separate: each rank a file of its own, with gaps between blocks.    *)

SeekBlock(a, i) ==
  When(a.stride > a.blocklen,
    IF a.pointer = "shared" THEN F_seek_shared(i * SO(a)) ELSE F_seek(i * SO(a)))

write_separate_noncollective(a, p) ==
  CASE a.pointer = "explicit" -> EachBlock(a, LAMBDA i, n : Access(a, i * SO(a), n))
    [] a.pointer = "individual" ->
         F_seek(0) \o EachBlock(a, LAMBDA i, n : SeekBlock(a, i) \o AccessNext(a, n))
    [] a.pointer = "shared" -> EachBlock(a, LAMBDA i, n : SeekBlock(a, i) \o AccessNext(a, n))

write_separate_collective(a, p) ==
  CASE a.pointer = "explicit" -> EachBlock(a, LAMBDA i, n : Access(a, i * SO(a), n))
    [] a.pointer = "individual" ->
         F_seek(0) \o EachBlock(a, LAMBDA i, n : SeekBlock(a, i) \o AccessNext(a, n))
    [] a.pointer = "shared" -> EachBlock(a, LAMBDA i, n : SeekBlock(a, i) \o AccessNext(a, n))

write_separate(a, p) ==
  get_io_filename(a, p) \o send_buffer_init(a) \o OpenView(Self(p), p, ToWrite(a))
  \o When(a.io_preallocate, preallocate_file_space(a)) \o N_BARRIER(a)
  \o (IF a.collective THEN write_separate_collective(a, p) ELSE write_separate_noncollective(a, p))
  \o Finish(a)

-----------------------------------------------------------------------------
(* write_sequential: all ranks append through the shared pointer.            *)

write_sequential(a, p) ==
  get_io_filename(a, p) \o send_buffer_init(a)
  \o OpenView(World(a), 0, ToWrite(a) \cup {"SEQUENTIAL"})
  \o When(a.io_preallocate, preallocate_file_space(a)) \o N_BARRIER(a)
  \o IF a.pointer = "shared"
     THEN EachBlock(a, LAMBDA i, n : AccessNext(a, n)) \o Finish(a)
     ELSE F_close

-----------------------------------------------------------------------------
(* write_and_read: in each pair of ranks the odd one writes a block and the  *)
(* even one reads it.  The pair has a file and a communicator, io_comm2.     *)

Writer(p) == p % 2 = 1
io_comm2(p) == {2 * (p \div 2), 2 * (p \div 2) + 1}
Partner(p) == IF Writer(p) THEN p - 1 ELSE p + 1
SyncUnlessAtomic(a) == When(~a.io_atomicity, F_sync)

write_and_read_begin(a, p) ==
  get_io_filename(a, p) \o Meet(World(a), "MPI_Comm_split")
  \o OpenView(io_comm2(p), p \div 2,
       {"RDWR", "CREATE"} \cup IF a.io_check THEN {} ELSE {"DELETE_ON_CLOSE"})
  \o When(a.io_preallocate, preallocate_file_space(a)) \o N_BARRIER(a)

\* Mutant: the file is synced, but there is no message.
SyncOnly(a, p) == SyncUnlessAtomic(a) \o SyncUnlessAtomic(a)
\* The message tells that the block is written; the file is synced around it.
HandOver(a, p) ==
  SyncUnlessAtomic(a)
  \o (IF Writer(p) THEN Send(Partner(p), 17) ELSE Recv(Partner(p), 17))
  \o SyncUnlessAtomic(a)
MeetPartner(p) == Meet(io_comm2(p), "MPI_Barrier")

write_and_read_blocking(a, p) ==
  EachBlock(a, LAMBDA i, n :
    When(a.pointer = "shared", MeetPartner(p) \o F_get_position_shared \o MeetPartner(p))
    \o When(Writer(p), Access(a, i * BO(a), n))
    \o HandOver(a, p)
    \o When(a.pointer = "shared", F_seek_shared_back)
    \o When(~Writer(p), Reading(Access(a, i * BO(a), n))))

\* With the shared pointer the writer waits until the block has been read.
write_and_read_nonblocking(a, p) ==
  EachBlock(a, LAMBDA i, n :
    When(a.pointer = "shared", MeetPartner(p) \o F_get_position_shared \o MeetPartner(p))
    \o When(Writer(p), Access(a, i * BO(a), n))
    \o HandOver(a, p)
    \o When(a.pointer = "shared", F_seek_shared_back)
    \o When(~Writer(p), Reading(Access(a, i * BO(a), n)))
    \o When(a.pointer = "shared", IF Writer(p) THEN Recv(Partner(p), 19) ELSE Send(Partner(p), 19)))

\* Both ranks make each call, the one that has nothing to move with count 0.
CollectiveExchange(a, p) ==
  EachBlock(a, LAMBDA i, n :
    When(a.pointer = "shared", MeetPartner(p) \o F_get_position_shared \o MeetPartner(p))
    \o Access(a, i * BO(a), IF Writer(p) THEN n ELSE 0)
    \o SyncUnlessAtomic(a) \o MeetPartner(p) \o SyncUnlessAtomic(a)
    \o When(a.pointer = "shared", F_seek_shared_back)
    \o Reading(Access(a, i * BO(a), IF Writer(p) THEN 0 ELSE n)))
write_and_read_collective(a, p) == CollectiveExchange(a, p)
write_and_read_split(a, p) == CollectiveExchange(a, p)

write_and_read(a, p) ==
  write_and_read_begin(a, p)
  \o (CASE ~a.collective /\ a.blocking  -> write_and_read_blocking(a, p)
        [] ~a.collective /\ ~a.blocking -> write_and_read_nonblocking(a, p)
        [] a.collective /\ a.blocking   -> write_and_read_collective(a, p)
        [] a.collective /\ ~a.blocking  -> write_and_read_split(a, p))
  \o Finish(a)

-----------------------------------------------------------------------------
(* write_once: one call per rank, for its section or its private file.       *)

OnceFile(a, p) == IF a.private THEN p ELSE 0
OnAllRanks(a, p) == World(a)                \* mutant
OnceComm(a, p) == IF a.private THEN Self(p) ELSE World(a)

write_once_access(a, p) ==
  LET offset == IF a.private THEN 0 ELSE p * get_offset(a, a.memsize)
  IN When(a.pointer = "individual" /\ ~a.private, F_seek(offset))
     \o Access(a, offset, a.memsize)

write_once(a, p) ==
  get_io_filename(a, p) \o send_buffer_init(a)
  \o OpenView(OnceComm(a, p), OnceFile(a, p), ToWrite(a))
  \o When(a.io_preallocate, preallocate_file_space(a)) \o N_BARRIER(a)
  \o write_once_access(a, p) \o Finish(a)
=============================================================================
