------------------------------ MODULE FileAccess ------------------------------
(***************************************************************************)
(* The ranks of a file measurement of measurements/io.c executing their    *)
(* programs: the files, pointers, requests and messages that the calls of  *)
(* MPI act on.  Calls that are collective are taken by all ranks of the    *)
(* communicator together, the others in any order.                         *)
(***************************************************************************)
EXTENDS FileReads, FileOperations, Bags

CONSTANT Measurements   \* pairs of a measurement and its argument

Names == {"write_segmented", "read_segmented", "write_strided", "read_strided",
          "write_random", "read_random", "write_noncontiguous", "read_noncontiguous",
          "write_separate", "read_separate", "write_sequential", "read_sequential",
          "write_and_read", "write_once", "read_once", "read_file", "read_and_distribute",
          "open", "close", "open_close", "delete", "delete_on_close",
          "file_seek", "file_seek_shared", "preallocate"}

ASSUME MeasurementsKnown == \A m \in Measurements : m[1] \in Names
\* What the init functions assert.
ASSUME ArgumentsAsserted == \A m \in Measurements :
  LET a == m[2]
  IN /\ a.np > 0 /\ a.memsize > 0 /\ a.blocklen > 0 /\ a.etypes > 0
     /\ m[1] \in {"write_segmented", "read_segmented"} => a.stride >= a.memsize
     /\ m[1] \in {"write_strided", "read_strided", "write_separate", "read_separate"} =>
          a.stride >= a.blocklen
     /\ m[1] = "write_and_read" => a.np % 2 = 0
\* Not asserted, but file_seek_shared divides by the number of whole blocks.
ASSUME WholeBlocks == \A m \in Measurements :
  m[1] = "file_seek_shared" => m[2].blocklen <= m[2].memsize

VARIABLES
  measurement,  \* the pair that is measured
  todo,         \* calls that each rank has still to make
  files,        \* files that exist
  handle,       \* what each rank has open: communicator, file, access mode
  pointer,      \* individual file pointers
  shared,       \* shared file pointers, by file
  position,     \* result of MPI_File_get_position_shared
  requests,     \* started accesses of each rank that are not completed
  messages,     \* bag of messages under way
  written,      \* places of each file that hold data
  done          \* history: bags of the places that each rank wrote and read

vars == <<measurement, todo, files, handle, pointer, shared, position, requests,
          messages, written, done>>

name == measurement[1]
arg == measurement[2]
Rank == World(arg)
Closed == [comm |-> {}, file |-> -1, amode |-> {}]

Program(m, p) ==
  LET f == m[1]
      a == m[2]
  IN CASE f = "write_segmented" -> write_segmented(a, p)
       [] f = "read_segmented" -> read_segmented(a, p)
       [] f = "write_strided" -> write_strided(a, p)
       [] f = "read_strided" -> read_strided(a, p)
       [] f = "write_random" -> write_random(a, p)
       [] f = "read_random" -> read_random(a, p)
       [] f = "write_noncontiguous" -> write_noncontiguous(a, p)
       [] f = "read_noncontiguous" -> read_noncontiguous(a, p)
       [] f = "write_separate" -> write_separate(a, p)
       [] f = "read_separate" -> read_separate(a, p)
       [] f = "write_sequential" -> write_sequential(a, p)
       [] f = "read_sequential" -> read_sequential(a, p)
       [] f = "write_and_read" -> write_and_read(a, p)
       [] f = "write_once" -> write_once(a, p)
       [] f = "read_once" -> read_once(a, p)
       [] f = "read_file" -> read_file(a, p)
       [] f = "read_and_distribute" -> read_and_distribute(a, p)
       [] f = "open" -> open(a, p)
       [] f = "close" -> close(a, p)
       [] f = "open_close" -> open_close(a, p)
       [] f = "delete" -> delete(a, p)
       [] f = "delete_on_close" -> delete_on_close(a, p)
       [] f = "file_seek" -> file_seek(a, p)
       [] f = "file_seek_shared" -> file_seek_shared(a, p)
       [] f = "preallocate" -> preallocate(a, p)

Init ==
  /\ measurement \in Measurements
  /\ todo = [p \in Rank |-> Program(measurement, p)]
  /\ files = {}
  /\ handle = [p \in Rank |-> Closed]
  /\ pointer = [p \in Rank |-> 0]
  /\ shared = [p \in Rank |-> 0]
  /\ position = [p \in Rank |-> 0]
  /\ requests = [p \in Rank |-> 0]
  /\ messages = EmptyBag
  /\ written = [p \in Rank |-> {}]
  /\ done = [p \in Rank |-> [write |-> EmptyBag, read |-> EmptyBag]]

-----------------------------------------------------------------------------
(* The next call. *)

Finished(p) == todo[p] = << >>
Call(p) == Head(todo[p])
At(p, op) == ~Finished(p) /\ Call(p).op = op
Made(ranks) == todo' = [p \in Rank |-> IF p \in ranks THEN Tail(todo[p]) ELSE todo[p]]

Comm(p) ==
  IF Call(p).op = "access" \/ Call(p).comm = OfFile THEN handle[p].comm ELSE Call(p).comm

\* All members of c are at a collective call op on it.
AllAt(c, op) ==
  /\ c # {}
  /\ \A q \in c : At(q, op) /\ Comm(q) = c

Collective(c) ==
  /\ AllAt(c, "meet")
  /\ \A q, r \in c : Call(q) = Call(r)
  /\ Made(c)
  /\ UNCHANGED <<measurement, files, handle, pointer, shared, position, requests, messages,
                 written, done>>

-----------------------------------------------------------------------------
(* Opening and closing. *)

\* What MPI asks of MPI_File_open: one file, one mode, exactly one kind of access.
ValidOpen(c) ==
  \A q, r \in c :
    /\ Call(q).file = Call(r).file /\ Call(q).amode = Call(r).amode
    /\ Cardinality(Call(q).amode \cap {"RDONLY", "WRONLY", "RDWR"}) = 1
    /\ Call(q).file \in files \/ "CREATE" \in Call(q).amode

Open(c) ==
  /\ AllAt(c, "open") /\ ValidOpen(c)
  /\ \A q \in c : handle[q] = Closed
  /\ LET call == Call(CHOOSE q \in c : TRUE)
     IN /\ files' = files \cup {call.file}
        /\ handle' = [p \in Rank |-> IF p \in c
             THEN [comm |-> c, file |-> call.file, amode |-> call.amode] ELSE handle[p]]
        /\ pointer' = [p \in Rank |-> IF p \in c THEN 0 ELSE pointer[p]]
        /\ shared' = [shared EXCEPT ![call.file] = 0]
  /\ Made(c)
  /\ UNCHANGED <<measurement, position, requests, messages, written, done>>

SetView(c) ==
  /\ AllAt(c, "set_view")
  /\ pointer' = [p \in Rank |-> IF p \in c THEN 0 ELSE pointer[p]]
  /\ shared' = [shared EXCEPT ![handle[CHOOSE q \in c : TRUE].file] = 0]
  /\ Made(c)
  /\ UNCHANGED <<measurement, files, handle, position, requests, messages, written, done>>

Removed(f) == files' = files \ {f} /\ written' = [written EXCEPT ![f] = {}]

Close(c) ==
  /\ AllAt(c, "close")
  /\ LET h == handle[CHOOSE q \in c : TRUE]
     IN IF "DELETE_ON_CLOSE" \in h.amode THEN Removed(h.file) ELSE UNCHANGED <<files, written>>
  /\ handle' = [p \in Rank |-> IF p \in c THEN Closed ELSE handle[p]]
  /\ Made(c)
  /\ UNCHANGED <<measurement, pointer, shared, position, requests, messages, done>>

DeleteFile(p) ==
  /\ At(p, "delete")
  /\ Removed(Call(p).file)
  /\ Made({p})
  /\ UNCHANGED <<measurement, handle, pointer, shared, position, requests, messages, done>>

-----------------------------------------------------------------------------
(* Pointers. *)

Seek(p) ==
  /\ At(p, "seek")
  /\ pointer' = [pointer EXCEPT ![p] = Call(p).pos + IF Call(p).from = "here" THEN @ ELSE 0]
  /\ Made({p})
  /\ UNCHANGED <<measurement, files, handle, shared, position, requests, messages, written, done>>

SeekShared(c) ==
  /\ AllAt(c, "seek_shared")
  /\ \A q, r \in c : Call(q).pos = Call(r).pos
  /\ LET q == CHOOSE q \in c : TRUE
     IN shared' = [shared EXCEPT ![handle[q].file] = Call(q).pos]
  /\ Made(c)
  /\ UNCHANGED <<measurement, files, handle, pointer, position, requests, messages, written, done>>

GetPositionShared(p) ==
  /\ At(p, "get_position_shared")
  /\ position' = [position EXCEPT ![p] = shared[handle[p].file]]
  /\ Made({p})
  /\ UNCHANGED <<measurement, files, handle, pointer, shared, requests, messages, written, done>>

SeekSharedBack(c) ==
  /\ AllAt(c, "seek_shared_back")
  /\ \A q, r \in c : position[q] = position[r]
  /\ LET q == CHOOSE q \in c : TRUE
     IN shared' = [shared EXCEPT ![handle[q].file] = position[q]]
  /\ Made(c)
  /\ UNCHANGED <<measurement, files, handle, pointer, position, requests, messages, written, done>>

-----------------------------------------------------------------------------
(* Data. *)

\* The access that each rank of c is at begins at place Pos(q).
Move(c, Pos(_)) ==
  LET Places(q) == Pos(q) .. Pos(q) + Call(q).n - 1
      Of(q, io) == IF q \in c /\ Call(q).io = io THEN Places(q) ELSE {}
  IN /\ done' = [q \in Rank |->
          [write |-> done[q].write (+) SetToBag(Of(q, "write")),
           read  |-> done[q].read (+) SetToBag(Of(q, "read"))]]
     /\ written' = [f \in Rank |-> written[f] \cup
          UNION {Of(q, "write") : q \in {r \in Rank : handle[r].file = f}}]
     /\ requests' = [q \in Rank |->
          IF q \in c /\ ~Call(q).blocking THEN requests[q] + 1 ELSE requests[q]]
     /\ pointer' = [q \in Rank |->
          IF q \in c /\ Call(q).pointer = "individual" THEN pointer[q] + Call(q).n ELSE pointer[q]]
     /\ Made(c)
     /\ UNCHANGED <<measurement, files, handle, position, messages>>

AccessAlone(p) ==
  /\ At(p, "access") /\ ~Call(p).collective
  /\ CASE Call(p).pointer = "explicit" ->
            Move({p}, LAMBDA q : Call(q).pos) /\ UNCHANGED shared
       [] Call(p).pointer = "individual" ->
            Move({p}, LAMBDA q : pointer[q]) /\ UNCHANGED shared
       [] Call(p).pointer = "shared" ->
            /\ Move({p}, LAMBDA q : shared[handle[q].file])
            /\ shared' = [shared EXCEPT ![handle[p].file] = @ + Call(p).n]

\* Collective access routines; with the shared pointer in the order of the ranks.
AccessTogether(c) ==
  /\ AllAt(c, "access")
  /\ \A q, r \in c : Call(q).collective /\ Call(q).io = Call(r).io /\ Call(q).pointer = Call(r).pointer
  /\ LET kind == Call(CHOOSE q \in c : TRUE).pointer
         Before(S) == MapThenSumSet(LAMBDA q : Call(q).n, S)
         file == handle[CHOOSE q \in c : TRUE].file
     IN CASE kind = "explicit" -> Move(c, LAMBDA q : Call(q).pos) /\ UNCHANGED shared
          [] kind = "individual" -> Move(c, LAMBDA q : pointer[q]) /\ UNCHANGED shared
          [] kind = "shared" ->
               /\ Move(c, LAMBDA q : shared[file] + Before({r \in c : r < q}))
               /\ shared' = [shared EXCEPT ![file] = @ + Before(c)]

WaitRequest(p) ==
  /\ At(p, "wait")
  /\ requests[p] > 0
  /\ requests' = [requests EXCEPT ![p] = @ - 1]
  /\ Made({p})
  /\ UNCHANGED <<measurement, files, handle, pointer, shared, position, messages, written, done>>

-----------------------------------------------------------------------------
(* Empty messages, sent without waiting for the receiver. *)

SendMessage(p) ==
  /\ At(p, "send")
  /\ messages' = messages (+) SetToBag({<<p, Call(p).peer, Call(p).tag>>})
  /\ Made({p})
  /\ UNCHANGED <<measurement, files, handle, pointer, shared, position, requests, written, done>>

RecvMessage(p) ==
  /\ At(p, "recv")
  /\ BagIn(<<Call(p).peer, p, Call(p).tag>>, messages)
  /\ messages' = messages (-) SetToBag({<<Call(p).peer, p, Call(p).tag>>})
  /\ Made({p})
  /\ UNCHANGED <<measurement, files, handle, pointer, shared, position, requests, written, done>>

Alone(p) ==
  \/ DeleteFile(p) \/ Seek(p) \/ GetPositionShared(p) \/ AccessAlone(p) \/ WaitRequest(p)
  \/ SendMessage(p) \/ RecvMessage(p)

Together(c) ==
  \/ Collective(c) \/ Open(c) \/ SetView(c) \/ Close(c)
  \/ SeekShared(c) \/ SeekSharedBack(c) \/ AccessTogether(c)

AllFinished == \A p \in Rank : Finished(p)
Returned == AllFinished /\ UNCHANGED vars

\* The communicator of the collective call that rank p is at.
Comms == {Comm(p) : p \in {q \in Rank : ~Finished(q) /\ ("comm" \in DOMAIN Call(q) \/ At(q, "access"))}}

Next == (\E p \in Rank : Alone(p)) \/ (\E c \in Comms : Together(c)) \/ Returned

\* MPI completes calls that all their participants have made.
Spec == Init /\ [][Next]_vars /\ WF_vars(Next)

-----------------------------------------------------------------------------
(* Properties. *)

Span(first, n) == first * arg.etypes .. (first + n) * arg.etypes - 1
Blocks_(Pos(_)) == UNION {Span(Pos(i), Cnt(arg, i)) : i \in 0 .. Blocks(arg) - 1}

Writes(f) == f \in {"write_segmented", "write_strided", "write_random", "write_noncontiguous",
                    "write_separate", "write_sequential", "write_once"}
Reads(f) == f \in {"read_segmented", "read_strided", "read_random", "read_noncontiguous",
                   "read_separate", "read_sequential", "read_once", "read_file",
                   "read_and_distribute"}
Sorted(f) == name \in {"write_" \o f, "read_" \o f}

\* Classes of access routine that a measurement refuses.
Refused ==
  \/ Sorted("sequential") /\ arg.pointer # "shared"
  \/ name \in {"read_file", "read_and_distribute"} /\ arg.pointer = "shared"

\* Measurements in which the ranks share the file out in the order they come.
SharedOut ==
  \/ Sorted("random") \/ Sorted("sequential") \/ name = "read_and_distribute"
  \/ Sorted("once") /\ ~arg.private /\ arg.pointer = "shared" /\ ~arg.collective

Part(p) ==
  CASE Sorted("segmented") -> Span(p * arg.stride, arg.memsize)
    [] Sorted("strided") -> Blocks_(LAMBDA i : (i * arg.np + p) * arg.stride)
    [] Sorted("separate") -> Blocks_(LAMBDA i : i * arg.stride)
    [] Sorted("once") -> Span(IF arg.private THEN 0 ELSE p * arg.memsize, arg.memsize)
    [] OTHER -> Span(0, arg.memsize)

Share(p) ==
  CASE Sorted("random") -> arg.sizes[p]
    [] name = "read_and_distribute" -> IF p < readers(arg) THEN read_total(arg) \div readers(arg) ELSE 0
    [] OTHER -> arg.memsize

Places(io) == UNION {BagToSet(done[p][io]) : p \in Rank}
Moved(io) ==
  IF SharedOut
  THEN /\ \A p \in Rank : BagCardinality(done[p][io]) = Share(p) * arg.etypes
       /\ Places(io) = 0 .. MapThenSumSet(Share, Rank) * arg.etypes - 1
  ELSE \A p \in Rank : done[p][io] = SetToBag(Part(p))

\* Whatever the class of access routine, each rank has moved the places of the file that
\* are its own by the time it returns, each of them once; where the ranks share the file
\* out as they come, they cover it without overlapping.
OwnPart ==
  AllFinished /\ ~Refused =>
    /\ Writes(name) => Moved("write")
    /\ Reads(name) => Moved("read")
    /\ name = "write_and_read" =>
         \A p \in Rank :
           done[p] = IF Writer(p) THEN [write |-> SetToBag(Part(p)), read |-> EmptyBag]
                     ELSE [write |-> EmptyBag, read |-> SetToBag(Part(p))]

\* A rank reads only what has been written before, by the init function or by its partner.
ReadsWhatWasWritten ==
  [][\A p \in Rank :
       LET new == BagToSet(done'[p].read (-) done[p].read)
       IN new # {} => new \subseteq written[handle[p].file]]_vars

\* The calls are ones that MPI allows: the ranks of a communicator open one file in one mode
\* and with one kind of access, and use it as they have opened it.
CallsAllowed ==
  /\ \A c \in Comms : AllAt(c, "open") => ValidOpen(c)
  /\ \A p \in Rank :
       /\ At(p, "open") => handle[p] = Closed
       /\ At(p, "access") =>
            handle[p].amode \cap {"RDWR", IF Call(p).io = "read" THEN "RDONLY" ELSE "WRONLY"} # {}
       /\ At(p, "meet") /\ Call(p).name = "MPI_File_preallocate" => "SEQUENTIAL" \notin handle[p].amode
       /\ At(p, "meet") /\ Call(p).comm = OfFile => handle[p] # Closed

\* No file is closed before the accesses that were started on it are completed, and a
\* measurement leaves no message for the next one to receive and no file behind.
NothingLeft ==
  /\ \A p \in Rank : At(p, "close") => requests[p] = 0
  /\ AllFinished => messages = EmptyBag /\ (arg.io_check \/ files = {})

\* No rank waits for ever in a collective call or for a message.
AllReturn == <>AllFinished
=============================================================================
