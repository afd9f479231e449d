------------------------------ MODULE FileCalls ------------------------------
(***************************************************************************)
(* The calls to MPI that the file measurements of measurements/io.c make,  *)
(* and the pieces that all of them share.  A program is the sequence of    *)
(* calls of one rank; what depends on the arguments only (loops, sizes,    *)
(* the class of access routine) is worked out here, FileAccess executes    *)
(* the calls.  An argument a holds                                         *)
(*   np                             size of the measurement communicator   *)
(*   memsize, blocklen, stride      elements of memtype                    *)
(*   etypes                         etypes per element                     *)
(*   pointer, blocking, collective  the class daccess of access routine    *)
(*   io_check                       built with IO_CHECK: other access      *)
(*                 modes and deletions; the checksums, which some of the   *)
(*                 init and measure functions send round, are left out     *)
(*   io_preallocate, io_file_sync, io_atomicity       the settings         *)
(*   taken                          ranks whose first file name exists     *)
(* and what a measurement needs besides.  Names of files are the group     *)
(* that get_io_filename is given.                                          *)
(***************************************************************************)
EXTENDS Integers, Sequences, FiniteSets, SequencesExt

World(a) == 0 .. a.np - 1                   \* get_measurement_comm()
Self(p) == {p}                              \* MPI_COMM_SELF
OfFile == {}                                \* the communicator of the open file

\* The program of a loop: F(0), ..., F(n-1).
Times(n, F(_)) == FlattenSeq([i \in 1 .. n |-> F(i - 1)])
When(b, calls) == IF b THEN calls ELSE << >>
DivUp(x, y) == (x + y - 1) \div y
Least(x, y) == IF x <= y THEN x ELSE y

get_offset(a, n) == n * a.etypes

-----------------------------------------------------------------------------
(* Calls.  Those with a comm, and collective accesses, wait for its members. *)

Meet(comm, name) == << [op |-> "meet", comm |-> comm, name |-> name] >>
MPI_Barrier(a) == Meet(World(a), "MPI_Barrier")
Send(q, tag) == << [op |-> "send", peer |-> q, tag |-> tag] >>
Recv(q, tag) == << [op |-> "recv", peer |-> q, tag |-> tag] >>

F_open(comm, file, amode) == << [op |-> "open", comm |-> comm, file |-> file, amode |-> amode] >>
F_set_view == << [op |-> "set_view", comm |-> OfFile] >>
F_close == << [op |-> "close", comm |-> OfFile] >>
F_sync == Meet(OfFile, "MPI_File_sync")
F_delete(file) == << [op |-> "delete", file |-> file] >>
F_seek(pos) == << [op |-> "seek", pos |-> pos, from |-> "start"] >>
F_seek_cur(n) == << [op |-> "seek", pos |-> n, from |-> "here"] >>
F_get_position_shared == << [op |-> "get_position_shared"] >>
F_seek_shared_back == << [op |-> "seek_shared_back", comm |-> OfFile] >>  \* to that position
F_seek_shared(pos) == << [op |-> "seek_shared", comm |-> OfFile, pos |-> pos] >>

\* The access routine (pointer, collective), blocking or started only, for n
\* elements; pos counts for explicit offsets only.
Routine(a, io, pointer, collective, blocking, pos, n) ==
  << [op |-> "access", io |-> io, pointer |-> pointer, collective |-> collective,
      blocking |-> blocking, pos |-> pos, n |-> get_offset(a, n)] >>
Wait == << [op |-> "wait"] >>               \* or the _end of a split collective

\* The routine of class a without and with its completion.
Start(a, pos, n) == Routine(a, "write", a.pointer, a.collective, a.blocking, pos, n)
Access(a, pos, n) == Start(a, pos, n) \o When(~a.blocking, Wait)
AccessNext(a, n) == Access(a, 0, n)
F_write(a, n) == Routine(a, "write", "individual", FALSE, TRUE, 0, n)
F_write_ordered(a, n) == Routine(a, "write", "shared", TRUE, TRUE, 0, n)

\* The same calls with the read routine for each write routine.
Reading(calls) ==
  [k \in DOMAIN calls |->
     IF calls[k].op = "access" THEN [calls[k] EXCEPT !.io = "read"] ELSE calls[k]]

-----------------------------------------------------------------------------
(* Pieces of every measurement. *)

\* msize = memsize; while (msize > 0) { cnt = min(msize, blocklen); ... }
Blocks(a) == DivUp(a.memsize, a.blocklen)
Cnt(a, i) == Least(a.memsize - i * a.blocklen, a.blocklen)
EachBlock(a, F(_, _)) == Times(Blocks(a), LAMBDA i : F(i, Cnt(a, i)))

\* On a rank where a file of that name exists the function calls itself.
get_io_filename(a, p) ==
  LET attempt == Meet(World(a), "MPI_Bcast")
  IN attempt \o When(p \in a.taken, attempt \o MPI_Barrier(a)) \o MPI_Barrier(a)

send_buffer_init(a) == Meet(World(a), "MPI_Allreduce")
recv_buffer_init(a) == Meet(World(a), "MPI_Allreduce")

\* The file is new, so that the space is always larger than it.
preallocate_file_space(a) ==
  MPI_Barrier(a) \o Meet(OfFile, "MPI_File_preallocate") \o F_sync

FILE_DELETE(a, file) == F_open(World(a), file, {"RDWR", "CREATE", "DELETE_ON_CLOSE"}) \o F_close

ToWrite(a) == {"WRONLY", "CREATE"} \cup IF a.io_check THEN {} ELSE {"DELETE_ON_CLOSE"}
OpenView(comm, file, amode) ==
  F_open(comm, file, amode) \o F_set_view \o Meet(OfFile, "MPI_File_set_atomicity")
N_BARRIER(a) == MPI_Barrier(a)              \* one of them

\* stop_synchronization is local; a class that a function does not know is not synced.
Finish(a) == When(a.io_file_sync, F_sync) \o F_close

\* Ranks take turns at the shared pointer, rank j at offset Pos(j).
InTurn(a, p, Pos(_), calls) ==
  Times(a.np, LAMBDA j :
    MPI_Barrier(a) \o F_seek_shared(Pos(j)) \o When(j = p, calls))
=============================================================================
