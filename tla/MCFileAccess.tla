---------------------------- MODULE MCFileAccess ----------------------------
(* Small instances of FileAccess for TLC. *)
EXTENDS FileAccess

Argument ==
  [np |-> 2, memsize |-> 2, blocklen |-> 1, stride |-> 2, etypes |-> 1,
   pointer |-> "explicit", blocking |-> TRUE, collective |-> FALSE,
   io_check |-> FALSE, io_preallocate |-> FALSE, io_file_sync |-> TRUE, io_atomicity |-> FALSE,
   taken |-> {}, private |-> FALSE, flag |-> FALSE, readers |-> 2, calls |-> 3,
   sizes |-> [p \in 0 .. 2 |-> <<3, 3, 2>>[p + 1]], lens |-> [p \in 0 .. 2 |-> <<2, 1, 2>>[p + 1]]]

Sized(memsize, blocklen, stride) ==
  [Argument EXCEPT !.memsize = memsize, !.blocklen = blocklen, !.stride = stride]

\* The twelve classes of access routine.
Classes(a) ==
  {[a EXCEPT !.pointer = x, !.blocking = b, !.collective = c] :
     x \in {"explicit", "individual", "shared"}, b \in BOOLEAN, c \in BOOLEAN}

OnThree(A) == {[a EXCEPT !.np = 3] : a \in A}
Settings(a) ==   \* other settings; a file name taken
  [a EXCEPT !.io_preallocate = TRUE, !.io_file_sync = FALSE, !.io_atomicity = TRUE, !.etypes = 2,
            !.taken = World(a)]
All(f, A) == {f} \X UNION {Classes(a) : a \in A}

\* A short last block; one block in a segment that is longer; blocks side by side.
Segmented == LET A == {Sized(3, 2, 3), Sized(2, 2, 3)}
             IN A \cup OnThree(A) \cup {Settings(Sized(2, 1, 2))}
Strided == LET A == {Sized(3, 2, 2), Sized(3, 2, 3), Sized(2, 1, 1)}
           IN A \cup OnThree({Sized(2, 1, 1)}) \cup {Settings(Sized(2, 2, 2))}
Plain == LET A == {Sized(3, 2, 2), Sized(2, 1, 2)}
         IN A \cup OnThree({Sized(3, 2, 2)}) \cup {Settings(Sized(2, 1, 1))}

\* The combinations with which a measurement fails (see the README).
Fails(f, a) ==
  \/ f = "write_segmented" /\ a.pointer = "explicit" /\ ~a.blocking /\ a.collective
       /\ a.memsize > a.blocklen
  \/ f \in {"write_segmented", "read_segmented"} /\ a.pointer = "shared" /\ ~a.blocking /\ ~a.collective
       /\ a.stride = a.memsize
  \/ f \in {"write_strided", "read_strided"} /\ a.pointer = "shared" /\ ~a.blocking /\ ~a.collective
       /\ a.stride = a.blocklen /\ a.memsize >= a.blocklen
  \/ f \in {"write_strided", "read_strided"} /\ a.pointer = "shared" /\ ~a.collective
       /\ a.stride = a.blocklen /\ a.memsize > a.blocklen /\ a.memsize % a.blocklen # 0
  \/ f = "write_random" /\ ~a.io_check
  \/ f = "read_separate" /\ ~a.io_check
  \/ f = "write_sequential" /\ a.io_preallocate

Checked(A) == {[a EXCEPT !.io_check = TRUE] : a \in A}
Everything ==
  All("write_segmented", Segmented) \cup All("read_segmented", Segmented)
  \cup All("write_strided", Strided) \cup All("read_strided", Strided)
  \cup All("write_random", Checked(Plain)) \cup All("read_random", Plain)
  \cup All("write_noncontiguous", Plain \cup Checked({Settings(Sized(2, 1, 1))}))
  \cup All("read_noncontiguous", Plain)
  \cup All("write_separate", Plain) \cup All("read_separate", Checked(Plain))
  \cup All("write_sequential", Plain) \cup All("read_sequential", Plain)
  \cup All("write_and_read", {a \in Plain : a.np = 2} \cup {[Sized(2, 2, 2) EXCEPT !.np = 4]})
  \cup UNION {All(f, {[a EXCEPT !.private = b] : a \in Plain, b \in BOOLEAN}) :
                f \in {"write_once", "read_once"}}
  \cup All("read_file", Plain) \cup All("read_and_distribute", Plain)
  \cup {"open", "close", "open_close", "delete", "delete_on_close", "file_seek",
        "file_seek_shared", "preallocate"}
       \X {[a EXCEPT !.flag = b] : a \in Plain, b \in BOOLEAN}

MCSegmented == All("write_segmented", Segmented)
MCMeasurements == {m \in Everything : ~Fails(m[1], m[2])}
=============================================================================
