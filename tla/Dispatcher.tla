----------------------------- MODULE Dispatcher -----------------------------
(***************************************************************************)
(* The dispatch loop over many jobs (JobScheduler.run and dispatch_once):  *)
(* a round counts the running tasks, awaits the capacity, awaits the list  *)
(* of waiting jobs, and claims them one by one, with an await in every     *)
(* claim, in an order that takes turns between the users.  Meanwhile tasks *)
(* are denied their resources or end, users submit and the administrator   *)
(* cancels.                                                                *)
(*                                                                         *)
(* A job that is denied waits again with a new updated_at, and so at the   *)
(* end of the list.  What a task does with its job in between is the       *)
(* subject of JobLifecycle; here it is "claimed".                          *)
(***************************************************************************)
EXTENDS Integers, Sequences, FiniteSets

CONSTANTS
    Jobs,
    Users,
    Owner,        \* the user of each job
    Nobody,       \* no user
    NoJob,        \* no job
    MaxBudget,    \* bound: the largest capacity the governor reports
    MaxWorkers    \* settings.scheduler_max_workers; 0 is no limit

ASSUME JobsAssumption == IsFiniteSet(Jobs)
ASSUME NoneAssumption == NoJob \notin Jobs /\ Nobody \notin Users
ASSUME OwnerAssumption == Owner \in [Jobs -> Users]
ASSUME BudgetAssumption == MaxBudget \in Nat \ {0} /\ MaxWorkers \in Nat

VARIABLES
    queue,     \* the waiting jobs, by updated_at and created_at
    status,    \* the status of each job, as far as the dispatcher sees it
    task,      \* the task of each job
    running,   \* JobScheduler._running
    last,      \* JobScheduler._last_user_id
    paused,    \* JobScheduler._paused
    pc,        \* where dispatch_once is
    counted,   \* the argument of scheduler_capacity
    room,      \* slots - dispatched
    pending,   \* what is left of the sorted list
    current    \* the job just claimed

round == <<pc, counted, room, pending, current>>
vars == <<queue, status, task, running, last, paused, round>>

Statuses == {"none", "waiting", "claimed", "cancelled"}

TypeOK ==
    /\ queue \in Seq(Jobs)
    /\ status \in [Jobs -> Statuses]
    /\ task \in [Jobs -> {"none", "live", "done"}]
    /\ running \subseteq Jobs
    /\ last \in Users \cup {Nobody}
    /\ paused \in BOOLEAN
    /\ pc \in {"idle", "capacity", "list", "claim", "create"}
    /\ counted \in Nat
    /\ room \in 0..MaxBudget
    /\ pending \in Seq(Jobs)
    /\ current \in Jobs \cup {NoJob}

Init ==
    /\ queue = <<>>
    /\ status = [j \in Jobs |-> "none"]
    /\ task = [j \in Jobs |-> "none"]
    /\ running = {}
    /\ last = Nobody
    /\ paused = FALSE
    /\ pc = "idle"
    /\ counted = 0
    /\ room = 0
    /\ pending = <<>>
    /\ current = NoJob

-----------------------------------------------------------------------------
(***************************************************************************)
(* The order                                                               *)
(***************************************************************************)
\* The place of a job in a list without repetitions.
Place(list, j) == CHOOSE i \in DOMAIN list : list[i] = j
Listed(list) == {list[i] : i \in DOMAIN list}

\* How many older jobs its user has in the list.
Rank(list, j) ==
    Cardinality({i \in 1..(Place(list, j) - 1) : Owner[list[i]] = Owner[j]})

\* By rank; within a rank the user served last comes last; then by age.
Before(list, j, k) ==
    \/ Rank(list, j) < Rank(list, k)
    \/ /\ Rank(list, j) = Rank(list, k)
       /\ \/ Owner[j] # last /\ Owner[k] = last
          \/ /\ Owner[j] = last <=> Owner[k] = last
             /\ Place(list, j) < Place(list, k)

\* The list, sorted.
InTurn(list, sorted) ==
    /\ Listed(sorted) = Listed(list)
    /\ \A i, k \in DOMAIN list : i < k => Before(list, sorted[i], sorted[k])

\* A job leaves the list of those that wait.
Without(list, j) ==
    IF j \in Listed(list)
    THEN [i \in 1..(Len(list) - 1) |-> list[IF i < Place(list, j) THEN i ELSE i + 1]]
    ELSE list

\* Mutated form: a denied job keeps its updated_at.
RequeuedInFront(j) == <<j>> \o queue

Requeued(j) == Append(queue, j)

-----------------------------------------------------------------------------
(***************************************************************************)
(* A round                                                                 *)
(***************************************************************************)

Reapable(j) == task[j] = "done"

\* _reap_completed, and the number of those still running.
Begin ==
    /\ pc = "idle" /\ ~paused
    /\ LET left == {j \in running : ~Reapable(j)} IN
          /\ running' = left
          /\ task' = [j \in Jobs |-> IF j \in running \ left THEN "none" ELSE task[j]]
          /\ counted' = Cardinality(left)
    /\ pc' = "capacity"
    /\ UNCHANGED <<queue, status, last, paused, room, pending, current>>

\* Mutated form: the slots are not reduced by the tasks that run already.
FreeOfAll(capacity) == capacity

Free(capacity) == capacity - Cardinality(running)

Capped(n) == IF 0 < MaxWorkers /\ MaxWorkers < n THEN MaxWorkers ELSE n

\* Capacity never asks for fewer than were counted; tasks that left since then
\* leave slots.
Capacity(budget) == Capped(IF counted > budget THEN counted ELSE budget)

Sized(budget) ==
    /\ pc = "capacity"
    /\ LET slots == Free(Capacity(budget)) IN
          IF slots > 0
          THEN room' = slots /\ pc' = "list"
          ELSE room' = 0 /\ pc' = "idle"
    /\ UNCHANGED <<queue, status, task, running, last, paused, counted, pending, current>>

List ==
    /\ pc = "list"
    /\ \E sorted \in [DOMAIN queue -> Jobs] :
          /\ InTurn(queue, sorted)
          /\ pending' = sorted
    /\ pc' = "claim"
    /\ UNCHANGED <<queue, status, task, running, last, paused, counted, room, current>>

HasRoom == room > 0

\* Mutated form: a job whose task has not ended yet is claimed again.
ClaimableIfWaiting(j) == status[j] = "waiting"

\* Not in _running, and claim_job finds it still waiting.
Claimable(j) == j \notin running /\ status[j] = "waiting"

Claim ==
    /\ pc = "claim"
    /\ pending # <<>> /\ HasRoom
    /\ LET j == Head(pending) IN
          IF Claimable(j)
          THEN /\ status' = [status EXCEPT ![j] = "claimed"]
               /\ queue' = Without(queue, j)
               /\ current' = j
               /\ pc' = "create"
          ELSE UNCHANGED <<status, queue, current, pc>>
    /\ pending' = Tail(pending)
    /\ UNCHANGED <<task, running, last, paused, counted, room>>

Create ==
    /\ pc = "create"
    /\ task' = [task EXCEPT ![current] = "live"]
    /\ running' = running \cup {current}
    /\ last' = Owner[current]
    /\ room' = room - 1
    /\ current' = NoJob
    /\ pc' = "claim"
    /\ UNCHANGED <<queue, status, paused, counted, pending>>

\* The list or the slots are used up.
EndRound ==
    /\ pc = "claim"
    /\ pending = <<>> \/ ~HasRoom
    /\ pending' = <<>>
    /\ pc' = "idle"
    /\ UNCHANGED <<queue, status, task, running, last, paused, counted, room, current>>

-----------------------------------------------------------------------------
(***************************************************************************)
(* The tasks, the users, the administrator                                 *)
(***************************************************************************)
\* WAITING_RESOURCES is saved; the task has not ended yet.
Deny(j) ==
    /\ task[j] = "live" /\ status[j] = "claimed"
    /\ status' = [status EXCEPT ![j] = "waiting"]
    /\ queue' = Requeued(j)
    /\ UNCHANGED <<task, running, last, paused, round>>

\* Completed or failed.
Finish(j) ==
    /\ task[j] = "live" /\ status[j] = "claimed"
    /\ status' = [status EXCEPT ![j] = "none"]
    /\ UNCHANGED <<queue, task, running, last, paused, round>>

\* The task returns; it stays in _running until it is reaped.
EndTask(j) ==
    /\ task[j] = "live" /\ status[j] # "claimed"
    /\ task' = [task EXCEPT ![j] = "done"]
    /\ UNCHANGED <<queue, status, running, last, paused, round>>

\* A new job of the same user, under the name of one that is gone.
Submit(j) ==
    /\ status[j] \in {"none", "cancelled"} /\ task[j] = "none" /\ current # j
    /\ status' = [status EXCEPT ![j] = "waiting"]
    /\ queue' = Append(queue, j)
    /\ UNCHANGED <<task, running, last, paused, round>>

\* cancel_running_job saves the cancellation; the task, if any, is cancelled.
Cancel(j) ==
    /\ status[j] \in {"waiting", "claimed"}
    /\ status' = [status EXCEPT ![j] = "cancelled"]
    /\ queue' = Without(queue, j)
    /\ UNCHANGED <<task, running, last, paused, round>>

\* gather(task).
Ended(j) == task[j] # "live"

\* It takes the ended task out of _running itself.
Drop(j) ==
    /\ status[j] = "cancelled" /\ j \in running
    /\ Ended(j)
    /\ running' = running \ {j}
    /\ task' = [task EXCEPT ![j] = IF @ = "done" THEN "none" ELSE @]
    /\ UNCHANGED <<queue, status, last, paused, round>>

Pause(b) ==
    /\ paused # b
    /\ paused' = b
    /\ UNCHANGED <<queue, status, task, running, last, round>>

-----------------------------------------------------------------------------
Dispatch == Begin \/ (\E n \in 0..MaxBudget : Sized(n)) \/ List \/ Claim \/ Create \/ EndRound

Next ==
    \/ Dispatch
    \/ \E j \in Jobs : Deny(j) \/ Finish(j) \/ EndTask(j) \/ Submit(j) \/ Cancel(j) \/ Drop(j)
    \/ \E b \in BOOLEAN : Pause(b)

Spec == Init /\ [][Next]_vars

\* The loop goes round (a wake or the timeout of its wait), the administrator
\* resumes, tasks come to an end, and capacity beyond the running tasks is
\* reported again and again.
FairSpec ==
    /\ Spec
    /\ SF_vars(Begin)
    /\ SF_vars(\E n \in 0..MaxBudget : Sized(n) /\ pc' = "list")
    /\ WF_vars(Dispatch)
    /\ WF_vars(Pause(FALSE))
    /\ \A j \in Jobs : WF_vars(Deny(j) \/ Finish(j)) /\ WF_vars(EndTask(j))

-----------------------------------------------------------------------------
(***************************************************************************)
(* Properties                                                              *)
(***************************************************************************)
\* A job is never given a second task while its first one is still alive or
\* not yet reaped.
OneTaskPerJob == pc = "create" => task[current] = "none"

\* Every live task is in _running, where a cancel and the shutdown find it.
TasksAreTracked == \A j \in Jobs : task[j] = "live" => j \in running

\* However stale the count the capacity was computed from, and whatever ends
\* or is cancelled in between, no more tasks run than the governor and the
\* worker limit ever allowed.
CapacityKept == Cardinality(running) <= Capped(MaxBudget)

\* A claimed job has its task, or is about to get it.
ClaimedJobsRun ==
    \A j \in Jobs : status[j] = "claimed" => task[j] = "live" \/ current = j

\* Claims and tasks match at every await of a round, although tasks end, are
\* denied and are cancelled in between: one task for a claim, and known.
TasksMatchClaims == OneTaskPerJob /\ TasksAreTracked /\ ClaimedJobsRun

\* The inductive invariant: the tasks are those in _running, the job just
\* claimed has none yet, and the slots left fit beside the tasks.
RunningInv == running = {j \in Jobs : task[j] # "none"}
CurrentInv ==
    /\ pc = "create" => current \in Jobs \ running /\ room > 0
    /\ pc # "create" => current = NoJob
RoomInv ==
    /\ pc = "capacity" => counted <= Capped(MaxBudget)
    /\ pc \in {"list", "claim", "create"} =>
          Cardinality(running) + room <= Capped(MaxBudget)
IInv == TypeOK /\ RunningInv /\ CurrentInv /\ RoomInv /\ CapacityKept /\ ClaimedJobsRun

\* "Fairly reclaimed": no job waits for ever, whatever the others submit and
\* however often all are denied.
NobodyStarves == \A j \in Jobs : status[j] = "waiting" ~> status[j] # "waiting"

=============================================================================
