------------------------- MODULE Dispatcher_proofs --------------------------
(***************************************************************************)
(* Proofs about the dispatch loop, for any jobs, users, owners, capacities *)
(* and worker limit.  Starvation-freedom is checked by TLC only.           *)
(***************************************************************************)
EXTENDS Dispatcher, FiniteSetTheorems, TLAPS

USE JobsAssumption, NoneAssumption, OwnerAssumption, BudgetAssumption

LEMMA CappedProperties ==
    /\ Capped(MaxBudget) \in Nat
    /\ \A n \in Nat : Capped(n) \in Nat /\ Capped(n) <= n
    /\ \A m, n \in Nat : m <= n => Capped(m) <= Capped(n)
    /\ \A n \in Nat : n <= Capped(MaxBudget) => Capped(n) = n
    BY DEF Capped

LEMMA SetsOfJobs ==
    ASSUME NEW S, S \subseteq Jobs
    PROVE  IsFiniteSet(S) /\ Cardinality(S) \in Nat
    BY FS_Subset, FS_CardinalityType

LEMMA FewerJobs ==
    ASSUME NEW S, NEW T, S \subseteq T, T \subseteq Jobs
    PROVE  Cardinality(S) <= Cardinality(T)
    BY SetsOfJobs, FS_Subset

\* The list without a job is a list of jobs.
LEMMA WithoutType ==
    ASSUME NEW list \in Seq(Jobs), NEW j PROVE Without(list, j) \in Seq(Jobs)
    <1>1. CASE j \notin Listed(list)
        BY <1>1 DEF Without
    <1>2. CASE j \in Listed(list)
        <2>1. Len(list) \in Nat /\ DOMAIN list = 1..Len(list)
            OBVIOUS
        <2>2. Len(list) >= 1
            BY <1>2, <2>1 DEF Listed
        <2>3. \A i \in 1..(Len(list) - 1) :
                list[IF i < Place(list, j) THEN i ELSE i + 1] \in Jobs
            <3> TAKE i \in 1..(Len(list) - 1)
            <3>1. (IF i < Place(list, j) THEN i ELSE i + 1) \in 1..Len(list)
                BY <2>1
            <3> QED BY <3>1
        <2>4. Without(list, j) \in [1..(Len(list) - 1) -> Jobs]
            BY <1>2, <2>3 DEF Without
        <2>5. Len(list) - 1 \in Nat
            BY <2>1, <2>2
        <2> QED BY <2>4, <2>5
    <1> QED BY <1>1, <1>2

LEMMA InitHolds == Init => IInv
    <1> SUFFICES ASSUME Init PROVE IInv
        OBVIOUS
    <1>0. <<>> \in Seq(Jobs)
        OBVIOUS
    <1>1. TypeOK
        <2>1. queue \in Seq(Jobs) /\ pending \in Seq(Jobs)
            BY <1>0 DEF Init
        <2>2. status \in [Jobs -> Statuses] /\ task \in [Jobs -> {"none", "live", "done"}]
            BY DEF Init, Statuses
        <2>3. running \subseteq Jobs /\ last \in Users \cup {Nobody} /\ current \in Jobs \cup {NoJob}
            BY DEF Init
        <2>4. counted \in Nat /\ room \in 0..MaxBudget
              /\ pc \in {"idle", "capacity", "list", "claim", "create"}
            BY DEF Init
        <2>5. paused \in BOOLEAN
            BY DEF Init
        <2> QED BY <2>1, <2>2, <2>3, <2>4, <2>5 DEF TypeOK
    <1>2. RunningInv /\ CurrentInv /\ RoomInv /\ ClaimedJobsRun
        BY DEF Init, RunningInv, CurrentInv, RoomInv, ClaimedJobsRun
    <1>3. CapacityKept
        BY FS_EmptySet, CappedProperties DEF Init, CapacityKept
    <1> QED BY <1>1, <1>2, <1>3 DEF IInv

(***************************************************************************)
(* The steps of a round                                                    *)
(***************************************************************************)
LEMMA BeginHolds == ASSUME IInv, Begin PROVE IInv'
    <1> DEFINE left == {j \in running : task[j] # "done"}
    <1> USE DEF IInv
    <1>1. /\ running' = left
          /\ task' = [j \in Jobs |-> IF j \in running \ left THEN "none" ELSE task[j]]
          /\ counted' = Cardinality(left)
          /\ pc = "idle" /\ pc' = "capacity"
          /\ UNCHANGED <<queue, status, last, paused, room, pending, current>>
        BY DEF Begin, Reapable
    <1>2. left \subseteq running /\ running \subseteq Jobs
        BY DEF TypeOK
    <1>3. Cardinality(left) \in Nat /\ Cardinality(left) <= Cardinality(running)
          /\ Cardinality(running) \in Nat
        BY <1>2, SetsOfJobs, FewerJobs
    <1>4. TypeOK'
        BY <1>1, <1>2, <1>3 DEF TypeOK
    <1>5. RunningInv'
        BY <1>1, <1>2 DEF RunningInv, TypeOK
    <1>6. CurrentInv'
        BY <1>1 DEF CurrentInv
    <1>7. CapacityKept' /\ RoomInv'
        BY <1>1, <1>3, CappedProperties DEF CapacityKept, RoomInv, Capped
    <1>8. ClaimedJobsRun'
        BY <1>1 DEF ClaimedJobsRun, RunningInv, TypeOK
    <1> QED BY <1>4, <1>5, <1>6, <1>7, <1>8

LEMMA SizedHolds == ASSUME IInv, NEW n \in 0..MaxBudget, Sized(n) PROVE IInv'
    <1> USE DEF IInv
    <1>1. /\ pc = "capacity"
          /\ \/ /\ Capacity(n) - Cardinality(running) > 0
                /\ room' = Capacity(n) - Cardinality(running)
                /\ pc' = "list"
             \/ room' = 0 /\ pc' = "idle"
          /\ UNCHANGED <<queue, status, task, running, last, paused, counted, pending, current>>
        BY DEF Sized, Free
    <1>2. Capacity(n) \in Nat /\ Capacity(n) <= Capped(MaxBudget)
        <2>1. counted \in Nat /\ counted <= Capped(MaxBudget) /\ n \in Nat /\ n <= MaxBudget
            BY <1>1 DEF RoomInv, TypeOK
        <2>2. CASE counted > n
            BY <2>1, <2>2, CappedProperties DEF Capacity
        <2>3. CASE ~(counted > n)
            BY <2>1, <2>3, CappedProperties DEF Capacity
        <2> QED BY <2>1, <2>2, <2>3
    <1>3. Cardinality(running) \in Nat
        BY SetsOfJobs DEF TypeOK
    <1>4. TypeOK'
        <2>1. room' \in 0..MaxBudget
            BY <1>1, <1>2, <1>3, CappedProperties
        <2> QED BY <1>1, <2>1 DEF TypeOK
    <1>5. RunningInv' /\ CurrentInv' /\ ClaimedJobsRun' /\ CapacityKept'
        BY <1>1 DEF RunningInv, CurrentInv, ClaimedJobsRun, CapacityKept, Capped
    <1>6. RoomInv'
        BY <1>1, <1>2, <1>3, CappedProperties DEF RoomInv, Capped
    <1> QED BY <1>4, <1>5, <1>6

LEMMA ListHolds == ASSUME IInv, List PROVE IInv'
    <1> USE DEF IInv
    <1>1. PICK sorted \in [DOMAIN queue -> Jobs] : InTurn(queue, sorted) /\ pending' = sorted
        BY DEF List
    <1>2. pending' \in Seq(Jobs)
        <2>1. DOMAIN queue = 1..Len(queue) /\ Len(queue) \in Nat
            BY DEF TypeOK
        <2> QED BY <1>1, <2>1
    <1>3. TypeOK'
        BY <1>2 DEF List, TypeOK
    <1>4. RunningInv' /\ CurrentInv' /\ RoomInv' /\ CapacityKept' /\ ClaimedJobsRun'
        BY DEF List, RunningInv, CurrentInv, RoomInv, CapacityKept, ClaimedJobsRun, Capped
    <1> QED BY <1>3, <1>4

LEMMA ClaimHolds == ASSUME IInv, Claim PROVE IInv'
    <1> DEFINE j == Head(pending)
    <1> USE DEF IInv
    <1>1. /\ pc = "claim" /\ room > 0
          /\ pending' = Tail(pending)
          /\ UNCHANGED <<task, running, last, paused, counted, room>>
        BY DEF Claim, HasRoom
    <1>2. j \in Jobs /\ Tail(pending) \in Seq(Jobs)
        BY DEF Claim, TypeOK
    <1>3. CASE Claimable(j)
        <2>1. /\ status' = [status EXCEPT ![j] = "claimed"]
              /\ queue' = Without(queue, j)
              /\ current' = j
              /\ pc' = "create"
            BY <1>3 DEF Claim
        <2>2. j \notin running
            BY <1>3 DEF Claimable
        <2>3. queue' \in Seq(Jobs)
            BY <2>1, WithoutType DEF TypeOK
        <2>4. TypeOK'
            BY <1>1, <1>2, <2>1, <2>3 DEF TypeOK, Statuses
        <2>5. RunningInv' /\ CurrentInv' /\ CapacityKept'
            BY <1>1, <1>2, <2>1, <2>2 DEF RunningInv, CurrentInv, CapacityKept, Capped
        <2>6. RoomInv'
            BY <1>1, <2>1 DEF RoomInv, Capped
        <2>7. ClaimedJobsRun'
            <3>1. current = NoJob
                BY <1>1 DEF CurrentInv
            <3> QED BY <1>1, <1>2, <2>1, <3>1 DEF ClaimedJobsRun, TypeOK
        <2> QED BY <2>4, <2>5, <2>6, <2>7
    <1>4. CASE ~Claimable(j)
        <2>1. UNCHANGED <<status, queue, current, pc>>
            BY <1>4 DEF Claim
        <2>2. TypeOK'
            BY <1>1, <1>2, <2>1 DEF TypeOK
        <2>3. RunningInv' /\ CurrentInv' /\ RoomInv' /\ CapacityKept' /\ ClaimedJobsRun'
            BY <1>1, <2>1 DEF RunningInv, CurrentInv, RoomInv, CapacityKept, ClaimedJobsRun, Capped
        <2> QED BY <2>2, <2>3
    <1> QED BY <1>3, <1>4

LEMMA CreateHolds == ASSUME IInv, Create PROVE IInv'
    <1> USE DEF IInv
    <1>1. /\ pc = "create" /\ pc' = "claim"
          /\ task' = [task EXCEPT ![current] = "live"]
          /\ running' = running \cup {current}
          /\ last' = Owner[current]
          /\ room' = room - 1
          /\ current' = NoJob
          /\ UNCHANGED <<queue, status, paused, counted, pending>>
        BY DEF Create
    <1>2. current \in Jobs /\ current \notin running /\ room > 0
        BY <1>1 DEF CurrentInv
    <1>3. Cardinality(running) \in Nat /\ Cardinality(running') = Cardinality(running) + 1
        BY <1>1, <1>2, SetsOfJobs, FS_AddElement DEF TypeOK
    <1>4. TypeOK'
        BY <1>1, <1>2 DEF TypeOK
    <1>5. RunningInv'
        BY <1>1, <1>2 DEF RunningInv, TypeOK
    <1>6. CurrentInv'
        BY <1>1 DEF CurrentInv
    <1>7. RoomInv' /\ CapacityKept'
        BY <1>1, <1>2, <1>3, CappedProperties DEF RoomInv, CapacityKept, Capped, TypeOK
    <1>8. ClaimedJobsRun'
        BY <1>1, <1>2 DEF ClaimedJobsRun, TypeOK
    <1> QED BY <1>4, <1>5, <1>6, <1>7, <1>8

LEMMA EndRoundHolds == ASSUME IInv, EndRound PROVE IInv'
    <1>1. <<>> \in Seq(Jobs)
        OBVIOUS
    <1>2. TypeOK'
        BY <1>1 DEF IInv, EndRound, TypeOK
    <1>3. RunningInv' /\ CurrentInv' /\ RoomInv' /\ CapacityKept' /\ ClaimedJobsRun'
        BY DEF IInv, EndRound, RunningInv, CurrentInv, RoomInv, CapacityKept, ClaimedJobsRun, Capped
    <1> QED BY <1>2, <1>3 DEF IInv

(***************************************************************************)
(* What happens to one job                                                 *)
(***************************************************************************)
\* A change of the statuses that claims no job leaves the dispatcher's part of
\* the invariant alone.
LEMMA StatusHolds ==
    ASSUME IInv, NEW j \in Jobs, NEW s \in Statuses \ {"claimed"},
           status' = [status EXCEPT ![j] = s], queue' \in Seq(Jobs),
           UNCHANGED <<task, running, last, paused, round>>
    PROVE  IInv'
    <1> USE DEF IInv, round
    <1>1. TypeOK'
        BY DEF TypeOK
    <1>2. RunningInv' /\ CurrentInv' /\ RoomInv' /\ CapacityKept'
        BY DEF RunningInv, CurrentInv, RoomInv, CapacityKept, Capped
    <1>3. ClaimedJobsRun'
        BY DEF ClaimedJobsRun, TypeOK
    <1> QED BY <1>1, <1>2, <1>3

LEMMA EndTaskHolds == ASSUME IInv, NEW j \in Jobs, EndTask(j) PROVE IInv'
    <1> USE DEF IInv, EndTask, round
    <1>1. TypeOK'
        BY DEF TypeOK
    <1>2. RunningInv' /\ CurrentInv' /\ RoomInv' /\ CapacityKept'
        BY DEF RunningInv, CurrentInv, RoomInv, CapacityKept, Capped, TypeOK
    <1>3. ClaimedJobsRun'
        BY DEF ClaimedJobsRun, TypeOK
    <1> QED BY <1>1, <1>2, <1>3

LEMMA DropHolds == ASSUME IInv, NEW j \in Jobs, Drop(j) PROVE IInv'
    <1> USE DEF IInv
    <1>1. /\ status[j] = "cancelled" /\ j \in running /\ task[j] # "live"
          /\ running' = running \ {j}
          /\ task' = [task EXCEPT ![j] = IF @ = "done" THEN "none" ELSE @]
          /\ UNCHANGED <<queue, status, last, paused, pc, counted, room, pending, current>>
        BY DEF Drop, Ended, round
    <1>2. task' = [task EXCEPT ![j] = "none"]
        BY <1>1 DEF RunningInv, TypeOK
    <1>3. Cardinality(running') <= Cardinality(running)
          /\ Cardinality(running') \in Nat /\ Cardinality(running) \in Nat
        BY <1>1, SetsOfJobs, FewerJobs DEF TypeOK
    <1>4. TypeOK'
        BY <1>1, <1>2 DEF TypeOK
    <1>5. RunningInv'
        BY <1>1, <1>2 DEF RunningInv, TypeOK
    <1>6. CurrentInv'
        BY <1>1 DEF CurrentInv
    <1>7. RoomInv' /\ CapacityKept'
        BY <1>1, <1>3, CappedProperties DEF RoomInv, CapacityKept, Capped, TypeOK
    <1>8. ClaimedJobsRun'
        BY <1>1, <1>2 DEF ClaimedJobsRun, TypeOK
    <1> QED BY <1>4, <1>5, <1>6, <1>7, <1>8

\* Every step keeps the inductive invariant.
LEMMA StepHolds == IInv /\ [Next]_vars => IInv'
    <1> SUFFICES ASSUME IInv, [Next]_vars PROVE IInv'
        OBVIOUS
    <1>t. queue \in Seq(Jobs)
        BY DEF IInv, TypeOK
    <1>1. CASE Dispatch
        BY <1>1, BeginHolds, SizedHolds, ListHolds, ClaimHolds, CreateHolds, EndRoundHolds
           DEF Dispatch
    <1>2. ASSUME NEW j \in Jobs, Deny(j) PROVE IInv'
        <2>1. Append(queue, j) \in Seq(Jobs)
            BY <1>t
        <2>2. queue' \in Seq(Jobs)
            BY <1>2, <2>1 DEF Deny, Requeued
        <2>3. "waiting" \in Statuses \ {"claimed"}
            BY DEF Statuses
        <2> QED BY <1>2, <2>2, <2>3, StatusHolds DEF Deny
    <1>3. ASSUME NEW j \in Jobs, Finish(j) PROVE IInv'
        <2>1. "none" \in Statuses \ {"claimed"}
            BY DEF Statuses
        <2> QED BY <1>t, <1>3, <2>1, StatusHolds DEF Finish
    <1>4. ASSUME NEW j \in Jobs, EndTask(j) PROVE IInv'
        BY <1>4, EndTaskHolds
    <1>5. ASSUME NEW j \in Jobs, Submit(j) PROVE IInv'
        <2>1. queue' \in Seq(Jobs)
            BY <1>t, <1>5 DEF Submit
        <2>2. "waiting" \in Statuses \ {"claimed"}
            BY DEF Statuses
        <2> QED BY <1>5, <2>1, <2>2, StatusHolds DEF Submit
    <1>6. ASSUME NEW j \in Jobs, Cancel(j) PROVE IInv'
        <2>1. queue' \in Seq(Jobs)
            BY <1>t, <1>6, WithoutType DEF Cancel
        <2>2. "cancelled" \in Statuses \ {"claimed"}
            BY DEF Statuses
        <2> QED BY <1>6, <2>1, <2>2, StatusHolds DEF Cancel
    <1>7. ASSUME NEW j \in Jobs, Drop(j) PROVE IInv'
        BY <1>7, DropHolds
    <1>8. ASSUME NEW b \in BOOLEAN, Pause(b) PROVE IInv'
        BY <1>8 DEF Pause, round, IInv, TypeOK, RunningInv, CurrentInv, RoomInv, CapacityKept,
                    ClaimedJobsRun, Capped
    <1>9. CASE UNCHANGED vars
        BY <1>9 DEF vars, round, IInv, TypeOK, RunningInv, CurrentInv, RoomInv, CapacityKept,
                    ClaimedJobsRun, Capped
    <1> QED
        BY <1>1, <1>2, <1>3, <1>4, <1>5, <1>6, <1>7, <1>8, <1>9 DEF Next

THEOREM InvariantHolds == Spec => []IInv
    BY InitHolds, StepHolds, PTL DEF Spec

\* A claimed job has one task, or is about to get it, and every live task can
\* be found in _running.
THEOREM TasksAndClaims == Spec => []TasksMatchClaims
    <1>1. IInv => OneTaskPerJob
        BY DEF IInv, RunningInv, CurrentInv, OneTaskPerJob, TypeOK
    <1>2. IInv => TasksAreTracked
        BY DEF IInv, RunningInv, TasksAreTracked, TypeOK
    <1>3. IInv => ClaimedJobsRun
        BY DEF IInv
    <1> QED BY <1>1, <1>2, <1>3, InvariantHolds, PTL DEF TasksMatchClaims

\* The capacity and the worker limit hold however stale the counts are.
THEOREM CapacityIsKept == Spec => []CapacityKept
    <1>1. IInv => CapacityKept
        BY DEF IInv
    <1> QED BY <1>1, InvariantHolds, PTL

=============================================================================
