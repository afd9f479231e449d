------------------------------ MODULE FileReads ------------------------------
(***************************************************************************)
(* The programs of rank p in the measurements of measurements/io.c that    *)
(* read a file.  Their init functions write it, most branches of their     *)
(* measure functions make the calls of the writing measurement with the    *)
(* read routines, their finalize functions delete the file.                *)
(***************************************************************************)
EXTENDS FileWrites

\* The init functions open with MPI_MODE_UNIQUE_OPEN.
ToPrepare(comm, file, calls) ==
  F_open(comm, file, {"WRONLY", "CREATE"}) \o F_set_view \o calls \o F_close
OpenToRead(a) == OpenView(World(a), 0, {"RDONLY"}) \o N_BARRIER(a)
Delete(a) == When(~a.io_check, FILE_DELETE(a, 0))

init_read_segmented(a, p) ==
  get_io_filename(a, p) \o recv_buffer_init(a)
  \o ToPrepare(World(a), 0, F_write_ordered(a, a.stride))
read_segmented_noncollective(a, p) == Reading(write_segmented_noncollective(a, p))
read_segmented_collective(a, p) ==
  IF a.pointer = "explicit"
  THEN EachBlock(a, LAMBDA i, n : Reading(Access(a, p * SO(a) + i * BO(a), n)))
  ELSE Reading(write_segmented_collective(a, p))
read_segmented(a, p) ==
  init_read_segmented(a, p) \o OpenToRead(a)
  \o (IF a.collective THEN read_segmented_collective(a, p) ELSE read_segmented_noncollective(a, p))
  \o Finish(a) \o Delete(a)

init_read_strided(a, p) ==
  get_io_filename(a, p) \o recv_buffer_init(a)
  \o ToPrepare(World(a), 0,
       EachBlock(a, LAMBDA i, n : F_seek(StridePos(a, i, p)) \o F_write(a, n)))
read_strided_blocking(a, p) == Reading(write_strided_blocking(a, p))
read_strided_nonblocking(a, p) == Reading(write_strided_nonblocking(a, p))
read_strided_collective(a, p) == Reading(write_strided_collective(a, p))
read_strided_split(a, p) == Reading(write_strided_split(a, p))
read_strided(a, p) ==
  init_read_strided(a, p) \o OpenToRead(a)
  \o (CASE ~a.collective /\ a.blocking  -> read_strided_blocking(a, p)
        [] ~a.collective /\ ~a.blocking -> read_strided_nonblocking(a, p)
        [] a.collective /\ a.blocking   -> read_strided_collective(a, p)
        [] a.collective /\ ~a.blocking  -> read_strided_split(a, p))
  \o Finish(a) \o Delete(a)

init_read_random(a, p) ==
  get_io_filename(a, p) \o recv_buffer_init(a)
  \o ToPrepare(World(a), 0, Times(MaxBlocks(a), LAMBDA i : F_write_ordered(a, RoundCnt(a, p, i))))
read_random_noncollective(a, p) == Reading(write_random_noncollective(a, p))
read_random_collective(a, p) == Reading(write_random_collective(a, p))
read_random(a, p) ==
  init_read_random(a, p) \o OpenToRead(a)
  \o (IF a.collective THEN read_random_collective(a, p) ELSE read_random_noncollective(a, p))
  \o Finish(a) \o Delete(a)

init_read_noncontiguous(a, p) ==
  get_io_filename(a, p) \o recv_buffer_init(a)
  \o ToPrepare(World(a), 0, EachBlock(a, LAMBDA i, n : F_write(a, n)))
read_noncontiguous_noncollective(a, p) == Reading(write_noncontiguous_noncollective(a, p))
read_noncontiguous_collective(a, p) == Reading(write_noncontiguous_collective(a, p))
read_noncontiguous(a, p) ==
  init_read_noncontiguous(a, p) \o OpenToRead(a)
  \o (IF a.collective THEN read_noncontiguous_collective(a, p)
      ELSE read_noncontiguous_noncollective(a, p))
  \o Finish(a) \o Delete(a)

-----------------------------------------------------------------------------
(* Files of their own. *)

init_read_separate(a, p) ==
  get_io_filename(a, p) \o recv_buffer_init(a)
  \o ToPrepare(Self(p), p,
       IF a.stride > a.blocklen
       THEN EachBlock(a, LAMBDA i, n : F_write(a, n) \o F_seek_cur(get_offset(a, a.stride - n)))
       ELSE F_write(a, a.memsize))
\* An individual pointer starts at 0 here.
SeparateReads(a) ==
  EachBlock(a, LAMBDA i, n :
    When(a.pointer # "explicit", SeekBlock(a, i)) \o Reading(Access(a, i * SO(a), n)))
read_separate_noncollective(a, p) == SeparateReads(a)
read_separate_collective(a, p) == SeparateReads(a)
\* The ranks delete their files in a call that is collective.
finalize_read_separate(a, p) == When(~a.io_check, FILE_DELETE(a, p))
read_separate(a, p) ==
  init_read_separate(a, p) \o OpenView(Self(p), p, {"RDONLY"}) \o N_BARRIER(a)
  \o (IF a.collective THEN read_separate_collective(a, p) ELSE read_separate_noncollective(a, p))
  \o Finish(a) \o finalize_read_separate(a, p)

read_sequential(a, p) ==
  get_io_filename(a, p) \o recv_buffer_init(a)
  \o ToPrepare(World(a), 0, F_write_ordered(a, a.memsize))
  \o OpenView(World(a), 0, {"RDONLY", "SEQUENTIAL"}) \o N_BARRIER(a)
  \o (IF a.pointer = "shared"
      THEN EachBlock(a, LAMBDA i, n : Reading(AccessNext(a, n))) \o Finish(a)
      ELSE F_close)
  \o Delete(a)

init_read_once(a, p) ==
  get_io_filename(a, p) \o recv_buffer_init(a)
  \o When(a.private \/ p = 0,
       ToPrepare(Self(p), OnceFile(a, p),
         Times(IF a.private THEN 1 ELSE a.np, LAMBDA i : F_write(a, a.memsize))))
  \o MPI_Barrier(a)
read_once_access(a, p) == Reading(write_once_access(a, p))
\* The ranks that wrote a file delete it.
finalize_read_once(a, p) == When(~a.io_check /\ (a.private \/ p = 0), F_delete(OnceFile(a, p)))
read_once(a, p) ==
  init_read_once(a, p)
  \o OpenView(OnceComm(a, p), OnceFile(a, p), {"RDONLY"}) \o N_BARRIER(a)
  \o read_once_access(a, p) \o Finish(a) \o finalize_read_once(a, p)

-----------------------------------------------------------------------------
(* One file that rank 0 has written. *)

init_read_file(a, p) ==
  get_io_filename(a, p)
  \o When(p = 0, ToPrepare(Self(p), 0, F_write(a, a.memsize)))
  \o MPI_Barrier(a)
\* Here the file is opened and closed within the time that is measured.
read_file(a, p) ==
  init_read_file(a, p) \o N_BARRIER(a) \o OpenView(World(a), 0, {"RDONLY"})
  \o (IF a.pointer = "shared" THEN F_close
      ELSE Reading(Access(a, 0, a.memsize)) \o Finish(a))
  \o Delete(a)

\* The first np ranks (a.readers) read a part each and send it to all others.
readers(a) == Least(a.readers, a.np)
read_total(a) == DivUp(a.memsize, readers(a)) * readers(a)
init_read_and_distribute(a, p) ==
  get_io_filename(a, p) \o When(p = 0, ToPrepare(Self(p), 0, F_write(a, read_total(a))))
read_and_distribute(a, p) ==
  LET cnt == read_total(a) \div readers(a)
      offset == p * get_offset(a, cnt)
  IN init_read_and_distribute(a, p)
     \o When(a.pointer # "shared",
          Meet(World(a), "MPI_Comm_split") \o N_BARRIER(a)
          \o When(p < readers(a),
               OpenView(0 .. readers(a) - 1, 0, {"RDONLY"})
               \o When(a.pointer = "individual", F_seek(offset))
               \o Reading(Access(a, offset, cnt)) \o F_close)
          \o Meet(World(a), "MPI_Allgatherv"))
     \o Delete(a)
=============================================================================
