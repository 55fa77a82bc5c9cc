--------------------------- MODULE DiskReservation --------------------------
(***************************************************************************)
(* Jobs that share one disk: the reservation each makes before it          *)
(* transfers or merges, and the growth checks made while it does           *)
(* (ResourceGovernor.reserve_job_disk and growth_is_safe, over             *)
(* reserve_disk_atomic and extend_disk_reservation_atomic).                *)
(*                                                                         *)
(* Free space and the job's usage are sampled first; the transaction that  *)
(* uses the samples runs later, on a connection it has yet to open.  Other *)
(* jobs go on in between.  A byte here stands for a chunk of the program.  *)
(***************************************************************************)
EXTENDS Integers, FiniteSets

CONSTANTS
    Jobs,
    Capacity,       \* of the disk
    Safety,         \* disk_safety_bytes
    MaxJobSize,     \* max_job_size_bytes; 0 means no cap
    Requests,       \* projections that jobs ask for
    MinExtension,   \* of a growing reservation: 8 MiB in the program,
    MaxExtension    \* and 256 MiB

ASSUME JobsAssumption == IsFiniteSet(Jobs)
ASSUME SizesAssumption ==
    /\ Capacity \in Nat /\ Safety \in Nat /\ MaxJobSize \in Nat
    /\ Requests \subseteq Nat
    /\ MinExtension \in Nat \ {0} /\ MaxExtension \in Nat \ {0}

VARIABLES
    disk,     \* bytes each job has on the disk
    row,      \* its row in disk_reservations
    pc,       \* what it is doing
    seen      \* what it sampled: free space, its own usage, its request

vars == <<disk, row, pc, seen>>

NoRow == [projected |-> -1, actual |-> -1, reserved |-> 0]
Nothing == [free |-> 0, actual |-> 0, want |-> 0]

\* The bytes of some jobs, when each has so many.
Bytes(count, S) == UNION {{j} \X (1..count[j]) : j \in S}

HasRow(j) == row[j] # NoRow
Free == Capacity - Cardinality(Bytes(disk, Jobs))
Reserved(S) == Cardinality(Bytes([j \in Jobs |-> row[j].reserved], S))

Larger(a, b) == IF a >= b THEN a ELSE b
Smaller(a, b) == IF a <= b THEN a ELSE b

TypeOK ==
    /\ disk \in [Jobs -> 0..Capacity]
    /\ row \in [Jobs -> {NoRow} \cup [projected : Nat, actual : Nat, reserved : Nat]]
    /\ pc \in [Jobs -> {"idle", "reserving", "writing", "checking", "failed", "clean"}]
    /\ seen \in [Jobs -> [free : 0..Capacity, actual : 0..Capacity, want : Nat]]

Init ==
    /\ disk = [j \in Jobs |-> 0]
    /\ row = [j \in Jobs |-> NoRow]
    /\ pc = [j \in Jobs |-> "idle"]
    /\ seen = [j \in Jobs |-> Nothing]

-----------------------------------------------------------------------------
(***************************************************************************)
(* The arithmetic of the two transactions                                  *)
(***************************************************************************)

\* Mutated form: the job's own earlier reservation counts against it and the
\* others' does not.
AvailableToAnybody(j) == Larger(0, seen[j].free - Safety)

\* Of the projected bytes, those that are not on the disk yet.
ToBeWritten(projected, actual) == Larger(0, projected - actual)

\* What a transaction of j thinks it may reserve.
Available(j) == Larger(0, seen[j].free - Reserved(Jobs \ {j}) - Safety)

\* growth_is_safe asks for a quarter of the usable space, within limits.
Extension(j) ==
    LET usable == Larger(0, seen[j].free - Safety)
    IN  Larger(MinExtension, Smaller(MaxExtension, Larger(1, usable \div 4)))

\* What is left of bytes under the cap on a job's size.
Capped(actual, bytes) ==
    IF MaxJobSize = 0 THEN bytes ELSE Smaller(bytes, Larger(0, MaxJobSize - actual))

\* Mutated form: a reservation that ran out counts as one that suffices.
ExtendedIfPossible(outstanding, extended) == TRUE

\* A job whose reservation ran out goes on only with an extension.
HasRoom(outstanding, extended) == outstanding > 0 \/ extended > 0

\* extend_disk_reservation_atomic, after the cap's own two checks: the bytes
\* outstanding when the job has actual bytes of projected on the disk.
Outstanding(projected, actual) == Capped(actual, ToBeWritten(projected, actual))

-----------------------------------------------------------------------------
(***************************************************************************)
(* Reserving                                                               *)
(***************************************************************************)
Goto(j, p) == pc' = [pc EXCEPT ![j] = p]

\* reserve_job_disk samples the disk for a request within the cap.
AskToReserve(j) ==
    /\ pc[j] = "idle"
    /\ \E want \in Requests :
          /\ MaxJobSize = 0 \/ want <= MaxJobSize
          /\ seen' = [seen EXCEPT ![j] =
                 [free |-> Larger(0, Free), actual |-> disk[j], want |-> want]]
    /\ Goto(j, "reserving")
    /\ UNCHANGED <<disk, row>>

\* reserve_disk_atomic: the space still to be written must be available.
Reserve(j) ==
    /\ pc[j] = "reserving"
    /\ LET remaining == ToBeWritten(seen[j].want, seen[j].actual)
       IN  IF remaining > Available(j)
           THEN Goto(j, "idle") /\ UNCHANGED row
           ELSE /\ row' = [row EXCEPT ![j] = [projected |-> seen[j].want,
                                              actual    |-> seen[j].actual,
                                              reserved  |-> remaining]]
                /\ Goto(j, "writing")
    /\ UNCHANGED <<disk, seen>>

-----------------------------------------------------------------------------
(***************************************************************************)
(* Growing                                                                 *)
(***************************************************************************)

\* The transfer or merge process writes, during the checks as well.
Write(j) ==
    /\ pc[j] \in {"writing", "checking"}
    /\ Free > 0
    /\ disk' = [disk EXCEPT ![j] = @ + 1]
    /\ UNCHANGED <<row, pc, seen>>

\* growth_is_safe samples the disk; a job over the cap is refused at once.
AskToGrow(j) ==
    /\ pc[j] = "writing"
    /\ seen' = [seen EXCEPT ![j] =
           [free |-> Larger(0, Free), actual |-> disk[j], want |-> 0]]
    /\ Goto(j, IF MaxJobSize > 0 /\ disk[j] > MaxJobSize THEN "failed" ELSE "checking")
    /\ UNCHANGED <<disk, row>>

\* Mutated form: the record keeps the bytes that are already on the disk.
RecordedTwice(j, outstanding) ==
    [projected |-> seen[j].actual + outstanding, actual |-> seen[j].actual,
     reserved |-> seen[j].actual + outstanding]

Recorded(j, outstanding) ==
    [projected |-> seen[j].actual + outstanding, actual |-> seen[j].actual,
     reserved |-> outstanding]

\* extend_disk_reservation_atomic records what is on the disk, extends a
\* reservation that runs low, and refuses a job that has no room left.
Grow(j) ==
    /\ pc[j] = "checking"
    /\ LET actual      == seen[j].actual
           outstanding == Outstanding(Larger(actual, row[j].projected), actual)
           low         == outstanding <= Larger(1, Extension(j) \div 2)
           extended    == Smaller(Capped(actual, Extension(j)), Available(j))
       IN  IF MaxJobSize > 0 /\ actual >= MaxJobSize
           THEN row' = [row EXCEPT ![j] = Recorded(j, 0)] /\ Goto(j, "failed")
           ELSE IF outstanding > Available(j) \/ (low /\ ~HasRoom(outstanding, extended))
           THEN Goto(j, "failed") /\ UNCHANGED row
           ELSE /\ row' = [row EXCEPT ![j] =
                      Recorded(j, IF low THEN Larger(outstanding, extended) ELSE outstanding)]
                /\ Goto(j, "writing")
    /\ UNCHANGED <<disk, seen>>

\* The transfer ends: its process has exited and no check is under way.
\* What follows, a merge for one, reserves again.
Finish(j) ==
    /\ pc[j] = "writing"
    /\ Goto(j, "idle")
    /\ UNCHANGED <<disk, row, seen>>

-----------------------------------------------------------------------------
(***************************************************************************)
(* The end of the job: first the reservation, then the files               *)
(***************************************************************************)
Release(j) ==
    /\ pc[j] \in {"idle", "failed"} /\ HasRow(j)
    /\ row' = [row EXCEPT ![j] = NoRow]
    /\ Goto(j, "clean")
    /\ UNCHANGED <<disk, seen>>

CleanUp(j) ==
    /\ pc[j] = "clean"
    /\ disk' = [disk EXCEPT ![j] = 0]
    /\ Goto(j, "idle")
    /\ UNCHANGED <<row, seen>>

-----------------------------------------------------------------------------
Next == \E j \in Jobs :
    \/ AskToReserve(j) \/ Reserve(j)
    \/ Write(j) \/ AskToGrow(j) \/ Grow(j) \/ Finish(j)
    \/ Release(j) \/ CleanUp(j)

Spec == Init /\ [][Next]_vars

-----------------------------------------------------------------------------
(***************************************************************************)
(* Properties                                                              *)
(***************************************************************************)

\* Two jobs are never granted the same bytes of a sample: whatever a transaction
\* grants, all reservations together fit into the free space it was given,
\* with the safety margin left over (BEGIN IMMEDIATE in both transactions).
\* A job may be granted again, for its merge: the new row replaces the old.
NoDoubleBooking ==
    [][\A j \in Jobs : row'[j] # row[j] /\ row'[j].reserved > 0
          => Reserved(Jobs)' <= seen[j].free - Safety]_vars

\* A reservation is what is still to be written, so that a byte is counted
\* either on the disk or in the reservation, never in both.
CountedOnce ==
    \A j \in Jobs : HasRow(j) =>
        row[j].reserved = Larger(0, row[j].projected - row[j].actual)

\* extend_disk_reservation_atomic: a growth check lets a job go on only with
\* bytes reserved for it that fit, beside everybody else's reservations and
\* the margin, into the free space it sampled, and under the cap beside what
\* the job had written: also when the check leaves the row as it was.
GrowthHasRoom ==
    [][\A j \in Jobs : pc[j] = "checking" /\ pc'[j] = "writing" =>
          /\ row'[j].reserved > 0
          /\ Reserved(Jobs)' <= seen[j].free - Safety
          /\ MaxJobSize > 0 => seen[j].actual + row'[j].reserved <= MaxJobSize]_vars

\* No reservation promises a job more than the cap on its size.
CapRespected ==
    MaxJobSize > 0 => \A j \in Jobs : row[j].projected <= MaxJobSize

\* However grants, growth and ends interleave, a byte is counted once and no
\* job is promised more than its cap.  That the transfers fit on the disk is
\* not said: a job writes on while its check is under way.
Accounted == TypeOK /\ CountedOnce /\ CapRespected

\* What the messages say: a job fails that "exceeded the configured per-job
\* size limit" (downloads/downloader.py); one that reaches it exactly, with
\* disk enough, does not.
OnlyExcessIsRefused ==
    [][\A j \in Jobs :
          (/\ pc[j] = "checking" /\ pc'[j] = "failed"
           /\ Larger(seen[j].actual, row[j].projected) - seen[j].actual < Available(j))
              => seen[j].actual > MaxJobSize]_vars

=============================================================================
