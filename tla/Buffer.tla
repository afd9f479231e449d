------------------------------- MODULE Buffer -------------------------------
(***************************************************************************)
(* The memory of the measured operations, src/src/mem.c: one block whose   *)
(* aligned part is cut, before each run, into a send and a receive area;   *)
(* with buffer cycling every run gets memory behind that of the run before *)
(* until it has to start again.  An area can be handed out in slices; no   *)
(* measure function of the repository asks for them, so that it is any     *)
(* measurement's choice here.                                              *)
(*                                                                         *)
(* Addresses are natural numbers, NULL is 0.  What malloc and              *)
(* MPI_Alloc_mem return is a choice; the release of the old block is left  *)
(* out, and so is the note of which of the two it came from.               *)
(***************************************************************************)
EXTENDS Integers, FiniteSets, FiniteSetsExt

CONSTANTS
  Base,                 \* addresses that malloc and MPI_Alloc_mem return
  Size,                 \* sizes asked for in the input file
  Alignment,            \* alignments asked for in the input file
  DefaultAlignment,     \* 32
  Usage,                \* what init functions declare to be used of an area
  SliceUsage            \* sizes of slices, 0 if none are used

ASSUME BasesPositive == Base \subseteq Nat \ {0}
ASSUME SizesNatural == Size \subseteq Nat /\ Usage \subseteq Nat /\ SliceUsage \subseteq Nat
ASSUME AlignmentsIntegers ==
  DefaultAlignment \in Nat \ {0} /\ Alignment \subseteq Int

Side == {"send", "recv"}
NULL == 0

VARIABLES
  skampi_buffer, real_skampi_buffer,
  skampi_buffer_size, skampi_real_buffer_size,
  alignment, skampi_buffer_alignment,   \* of each side; of both
  buffer_cycling, fresh_ptr,
  buffer, usage,        \* each side's area: where it begins, how long it is
  slice, slice_usage,   \* the slice given last, the length of slices
  pc,                   \* "idle"; "begun": no run yet; "run"
  given                 \* history: slices since the last reset

settings == <<skampi_buffer, real_skampi_buffer, skampi_buffer_size,
              skampi_real_buffer_size, alignment, skampi_buffer_alignment>>
areas == <<buffer, usage, slice, slice_usage, given>>
vars == <<settings, buffer_cycling, fresh_ptr, areas, pc>>

Init ==
  /\ skampi_buffer = NULL /\ real_skampi_buffer = NULL
  /\ skampi_buffer_size = 0 /\ skampi_real_buffer_size = 0
  /\ alignment = [s \in Side |-> DefaultAlignment]
  /\ skampi_buffer_alignment = DefaultAlignment
  /\ buffer_cycling = TRUE /\ fresh_ptr = NULL
  /\ buffer = [s \in Side |-> NULL] /\ usage = [s \in Side |-> 0]
  /\ slice = [s \in Side |-> NULL] /\ slice_usage = [s \in Side |-> 0]
  /\ given = [s \in Side |-> {}]
  /\ pc = "idle"

-----------------------------------------------------------------------------
\* To the next multiple of a that is none of 2*a.
alignment_fix(p, a) ==
  LET fix == (a - (p % a)) % a
  IN  IF (p + fix) % (2 * a) = 0 THEN fix + a ELSE fix
align_ptr(p, a) == p + alignment_fix(p, a)

gcd(a, b) == CHOOSE d \in 1 .. a : /\ a % d = 0 /\ b % d = 0
                                   /\ \A e \in d + 1 .. a : a % e # 0 \/ b % e # 0
lcm(a, b) == (a * b) \div gcd(a, b)

\* A new block with room for what is asked for and the gaps before the areas.
Allocate(size, a) ==
  /\ real_skampi_buffer' \in Base
  /\ skampi_buffer' = align_ptr(real_skampi_buffer', a)
  /\ skampi_buffer_size' = size
  /\ skampi_real_buffer_size' = size + 8 * a
  /\ fresh_ptr' = skampi_buffer'

\* Also set_skampi_buffer_mpi_alloc_mem.
set_skampi_buffer(size) ==
  /\ pc = "idle"
  /\ Allocate(size, skampi_buffer_alignment)
  /\ UNCHANGED <<alignment, skampi_buffer_alignment, buffer_cycling, areas, pc>>

\* A new common alignment takes a new block.
set_buffer_alignment(s, a) ==
  /\ pc = "idle"
  /\ alignment' = [alignment EXCEPT ![s] = IF a < 1 THEN 1 ELSE a]
  /\ skampi_buffer_alignment' = lcm(alignment'["send"], alignment'["recv"])
  /\ IF skampi_buffer_alignment' # skampi_buffer_alignment
     THEN Allocate(skampi_buffer_size, skampi_buffer_alignment')
     ELSE UNCHANGED <<skampi_buffer, real_skampi_buffer, skampi_buffer_size,
                      skampi_real_buffer_size, fresh_ptr>>
  /\ UNCHANGED <<buffer_cycling, areas, pc>>

switch_buffer_cycling(on) ==
  /\ pc = "idle"
  /\ buffer_cycling' = on
  /\ UNCHANGED <<settings, fresh_ptr, areas, pc>>

-----------------------------------------------------------------------------
\* Room for one run, for two with cycling.
OneCopy(used) == used["send"] + 2 * alignment["send"] + used["recv"] + 2 * alignment["recv"]
is_buffer_too_small_once(used) == skampi_real_buffer_size < OneCopy(used)    \* mutant
is_buffer_too_small(used) ==
  skampi_real_buffer_size < IF buffer_cycling THEN 2 * OneCopy(used) ELSE OneCopy(used)

\* execute_measurement: init_ declares what is used; init_buffer follows if the
\* buffers are large enough, here and on all other ranks (MPI_Allreduce).
Begin(used, sliced) ==
  /\ pc = "idle"
  /\ usage' = used /\ slice_usage' = sliced
  /\ \/ UNCHANGED <<fresh_ptr, pc>>
     \/ ~is_buffer_too_small(used) /\ fresh_ptr' = skampi_buffer /\ pc' = "begun"
  /\ UNCHANGED <<settings, buffer_cycling, buffer, slice, given>>

\* Where the areas of a run begin if it starts at p, and where they end.
SendAt(p) == align_ptr(p, alignment["send"])
RecvAt(p) == align_ptr(SendAt(p) + usage["send"], alignment["recv"])
EndAt(p) == RecvAt(p) + usage["recv"]

\* The tests of check_buffer, one after the other.
SendFits(p) ==                                                          \* mutant
  /\ p - skampi_buffer <= skampi_real_buffer_size - alignment["send"]
  /\ SendAt(p) - skampi_buffer <= skampi_real_buffer_size - usage["send"] - alignment["recv"]
Fits(p) ==
  /\ p - skampi_buffer <= skampi_real_buffer_size - alignment["send"]
  /\ SendAt(p) - skampi_buffer <= skampi_real_buffer_size - usage["send"] - alignment["recv"]
  /\ RecvAt(p) - skampi_buffer <= skampi_real_buffer_size - usage["recv"]

check_buffer ==
  LET p == IF Fits(fresh_ptr) THEN fresh_ptr ELSE skampi_buffer
  IN /\ buffer' = [s \in Side |-> IF s = "send" THEN SendAt(p) ELSE RecvAt(p)]
     /\ fresh_ptr' = IF buffer_cycling THEN EndAt(p) ELSE p

\* The next run of measurement_loop.
Repeat ==
  /\ pc \in {"begun", "run"}
  /\ check_buffer
  /\ slice' = [s \in Side |-> NULL] /\ given' = [s \in Side |-> {}]
  /\ pc' = "run"
  /\ UNCHANGED <<settings, buffer_cycling, usage, slice_usage>>

\* Where the next slice of an area would begin; whether it is in the area.
NextSlice(s) == IF slice[s] = NULL THEN buffer[s]
                ELSE align_ptr(slice[s] + slice_usage[s], alignment[s])
BeginsInArea(s, p) == p - buffer[s] <= usage[s]                         \* mutant
InArea(s, p) == p - buffer[s] <= usage[s] - slice_usage[s]

\* get_send_buffer_slice and get_recv_buffer_slice.
get_buffer_slice(s) ==
  /\ pc = "run" /\ slice_usage[s] > 0
  /\ slice' = [slice EXCEPT ![s] = IF InArea(s, NextSlice(s)) THEN NextSlice(s) ELSE NULL]
  /\ given' = [given EXCEPT ![s] =
       (IF slice[s] = NULL THEN {} ELSE @) \cup (IF slice'[s] = NULL THEN {} ELSE {slice'[s]})]
  /\ UNCHANGED <<settings, buffer_cycling, fresh_ptr, buffer, usage, slice_usage, pc>>

\* get_send_buffer_min_size and get_recv_buffer_min_size.
get_buffer_min_size(s, size, n) ==
  LET a   == alignment[s]
      fix == (a - (size % a)) % a
  IN (size + (IF (a + size + fix) % (2 * a) = 0 THEN fix + a ELSE fix)) * n

End ==
  /\ pc \in {"begun", "run"}
  /\ pc' = "idle"
  /\ UNCHANGED <<settings, buffer_cycling, fresh_ptr, areas>>

Next ==
  \/ \E n \in Size : set_skampi_buffer(n)
  \/ \E s \in Side, a \in Alignment : set_buffer_alignment(s, a)
  \/ \E on \in BOOLEAN : switch_buffer_cycling(on)
  \/ \E used \in [Side -> Usage], sliced \in [Side -> SliceUsage] : Begin(used, sliced)
  \/ Repeat
  \/ \E s \in Side : get_buffer_slice(s)
  \/ End

Spec == Init /\ [][Next]_vars

-----------------------------------------------------------------------------
\* The areas of a run are apart, in the order check_buffer takes them, behind the
\* aligned beginning of a block that is in use, and end at most the allocated length
\* behind it.  A measurement never runs without a block, or with one too small.
AreasInBuffer ==
  pc = "run" =>
    /\ real_skampi_buffer # NULL /\ real_skampi_buffer <= skampi_buffer
    /\ skampi_buffer <= buffer["send"]
    /\ buffer["send"] + usage["send"] <= buffer["recv"]
    /\ buffer["recv"] + usage["recv"] <= skampi_buffer + skampi_real_buffer_size

\* With buffer cycling no run uses memory of the run before, also when it starts
\* again at the beginning: "there should be enough buffer memory for two different
\* copies" (set_skampi_buffer).
FreshMemory ==
  [][Repeat /\ pc = "run" /\ buffer_cycling =>
       \/ buffer'["send"] >= buffer["recv"] + usage["recv"]
       \/ buffer'["recv"] + usage["recv"] <= buffer["send"]]_vars

\* The slices of an area lie in it, apart from each other and aligned, and if the area
\* has the size that get_..._buffer_min_size gives for n slices there are n before NULL.
SlicesUsable ==
  pc = "run" => \A s \in Side :
    /\ \A p \in given[s] :
         /\ buffer[s] <= p /\ p + slice_usage[s] <= buffer[s] + usage[s]
         /\ p % (2 * alignment[s]) = alignment[s]
         /\ \A q \in given[s] \ {p} : p + slice_usage[s] <= q \/ q + slice_usage[s] <= p
    /\ slice[s] = NULL /\ given[s] # {} =>
         get_buffer_min_size(s, slice_usage[s], Cardinality(given[s]) + 1) > usage[s]
=============================================================================
