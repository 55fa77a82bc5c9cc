-------------------------- MODULE Admission_proofs ---------------------------
(***************************************************************************)
(* Admission, for any users, messages, outputs, jobs, handlers and limits: *)
(* an output has one active job at a time, the limits of a user and of the *)
(* program are kept, nobody waits at a job that is over, and every request *)
(* is on record until it is settled, once.                                 *)
(***************************************************************************)
EXTENDS Admission, Integers, FiniteSetTheorems, TLAPS

USE OwnerAssumption, LimitAssumption

-----------------------------------------------------------------------------
(***************************************************************************)
(* The invariant.  A handler at work knows what it was asked for; whoever  *)
(* is about to join has a job in view, which may be over by now.           *)
(***************************************************************************)
RowsInv ==
    /\ status \in [Jobs -> Statuses]
    /\ product \in [Jobs -> Outputs \cup {None}]
    /\ waiting \in [Jobs -> SUBSET Messages]
    /\ totalLimit \in TotalLimits

Handlers == [pc : Pcs, msg : Messages \cup {None}, out : Outputs \cup {None},
             job : Jobs \cup {None}, left : Int, rest : SUBSET Outputs, all : BOOLEAN]

PressInv ==
    /\ press \in [Presses -> Handlers]
    /\ \A p \in Presses : ~At(p, "idle") => press[p].msg \in Messages /\ press[p].out \in Outputs
    /\ \A p \in Presses : At(p, "join") => press[p].job \in Jobs

IInv ==
    /\ RowsInv /\ PressInv
    /\ OneActivePerOutput /\ LimitsKept /\ NobodyWaitsOnAFinishedJob

-----------------------------------------------------------------------------
(***************************************************************************)
(* Counting.  A step that takes somebody away leaves the counts within     *)
(* their limits; one that adds somebody adds one job at most.              *)
(***************************************************************************)
JobsOf(u) == {j \in ActiveJobs : \E m \in waiting[j] : Owner[m] = u}

\* One element more in a finite set, or fewer elements.
LEMMA OneMore ==
    ASSUME NEW S, NEW T, NEW j, IsFiniteSet(S), T \subseteq S \cup {j}
    PROVE  Cardinality(T) \in Nat /\ Cardinality(S) \in Nat
           /\ Cardinality(T) <= Cardinality(S) + 1
<1>1. IsFiniteSet(S \cup {j}) /\ Cardinality(S \cup {j}) \in Nat /\ Cardinality(S) \in Nat
      /\ Cardinality(S \cup {j}) <= Cardinality(S) + 1
  <2>1. IsFiniteSet(S \cup {j})
        /\ Cardinality(S \cup {j}) = IF j \in S THEN Cardinality(S) ELSE Cardinality(S) + 1
    BY FS_AddElement
  <2>2. Cardinality(S) \in Nat
    BY FS_CardinalityType
  <2>3. QED
    BY <2>1, <2>2
<1>2. Cardinality(T) <= Cardinality(S \cup {j}) /\ IsFiniteSet(T)
  BY <1>1, FS_Subset
<1>3. QED
  BY <1>1, <1>2, FS_CardinalityType

\* The jobs that are counted are finitely many.
LEMMA CountedIsFinite ==
    ASSUME NEW S, S \subseteq Jobs
    PROVE  IsFiniteSet(S) /\ Cardinality(S) \in Nat
BY FS_Subset, FS_CardinalityType

\* When no job starts and nobody joins, the limits are kept.
LEMMA FewerKeepLimits ==
    ASSUME LimitsKept, RowsInv, totalLimit' = totalLimit, ActiveJobs' \subseteq ActiveJobs,
           \A j \in Jobs : waiting'[j] \subseteq waiting[j]
    PROVE  LimitsKept'
<1>1. Cardinality(ActiveJobs') <= Cardinality(ActiveJobs)
      /\ Cardinality(ActiveJobs') \in Nat /\ Cardinality(ActiveJobs) \in Nat
  <2>1. ActiveJobs \subseteq Jobs
    BY DEF ActiveJobs
  <2>2. QED
    BY <2>1, CountedIsFinite, FS_Subset
<1>2. ASSUME NEW u \in Users
      PROVE  CountActiveJobsForUser(u)' <= UserLimit
  <2>1. JobsOf(u)' \subseteq JobsOf(u) /\ JobsOf(u) \subseteq Jobs
    BY DEF JobsOf, ActiveJobs
  <2>2. Cardinality(JobsOf(u)') <= Cardinality(JobsOf(u))
        /\ Cardinality(JobsOf(u)') \in Nat /\ Cardinality(JobsOf(u)) \in Nat
    BY <2>1, CountedIsFinite, FS_Subset
  <2>3. QED
    BY <2>2 DEF CountActiveJobsForUser, JobsOf, LimitsKept
<1>3. QED
  BY <1>1, <1>2 DEF LimitsKept, RowsInv

\* A recipient who joins a job, or is the first of a new one.
LEMMA OneMoreKeepsLimits ==
    ASSUME LimitsKept, RowsInv, totalLimit' = totalLimit, NEW j \in Jobs, NEW m \in Messages,
           waiting' = Held(j, m), ActiveJobs' \subseteq ActiveJobs \cup {j},
           UserHasRoom(Owner[m]),
           ActiveJobs' = ActiveJobs \/ Cardinality(ActiveJobs) < totalLimit,
           j \notin ActiveJobs => waiting[j] = {}
    PROVE  LimitsKept'
<1>1. Cardinality(ActiveJobs') <= totalLimit
  <2>1. ActiveJobs \subseteq Jobs /\ ActiveJobs' \subseteq Jobs
    BY DEF ActiveJobs
  <2>2. Cardinality(ActiveJobs') <= Cardinality(ActiveJobs) + 1
        /\ Cardinality(ActiveJobs') \in Nat /\ Cardinality(ActiveJobs) \in Nat
    BY <2>1, CountedIsFinite, OneMore
  <2>3. QED
    BY <2>2 DEF LimitsKept, RowsInv
<1>2. ASSUME NEW u \in Users
      PROVE  CountActiveJobsForUser(u)' <= UserLimit
  <2>1. JobsOf(u) \subseteq Jobs /\ JobsOf(u)' \subseteq Jobs
    BY DEF JobsOf, ActiveJobs
  <2>2. CASE u = Owner[m]
    <3>1. JobsOf(u)' \subseteq JobsOf(u) \cup {j}
      BY DEF JobsOf, Held, RowsInv
    <3>2. Cardinality(JobsOf(u)') <= Cardinality(JobsOf(u)) + 1
          /\ Cardinality(JobsOf(u)') \in Nat /\ Cardinality(JobsOf(u)) \in Nat
      BY <2>1, <3>1, CountedIsFinite, OneMore
    <3>3. QED
      BY <2>2, <3>2 DEF UserHasRoom, CountActiveJobsForUser, JobsOf
  <2>3. CASE u # Owner[m]
    <3>1. JobsOf(u)' \subseteq JobsOf(u)
      BY <2>3 DEF JobsOf, Held, RowsInv
    <3>2. Cardinality(JobsOf(u)') <= Cardinality(JobsOf(u))
          /\ Cardinality(JobsOf(u)') \in Nat /\ Cardinality(JobsOf(u)) \in Nat
      BY <2>1, <3>1, CountedIsFinite, FS_Subset
    <3>3. QED
      BY <3>2 DEF CountActiveJobsForUser, JobsOf, LimitsKept
  <2>4. QED
    BY <2>2, <2>3
<1>3. QED
  BY <1>1, <1>2 DEF LimitsKept

-----------------------------------------------------------------------------
(***************************************************************************)
(* The invariant is kept.                                                  *)
(***************************************************************************)

\* The program starts with no job and no handler.
LEMMA AtFirst == Init => IInv
<1>1. SUFFICES ASSUME Init PROVE IInv
  OBVIOUS
<1>2. RowsInv
  BY <1>1 DEF Init, RowsInv, Statuses
<1>3. PressInv
  BY <1>1 DEF Init, PressInv, Idle, At, Pcs, Handlers
<1>4. ActiveJobs = {}
  BY <1>1 DEF Init, ActiveJobs, Active
<1>5. LimitsKept
  <2>1. totalLimit \in Nat
    BY <1>1 DEF Init
  <2>2. \A u \in Users : {j \in ActiveJobs : \E m \in waiting[j] : Owner[m] = u} = {}
    BY <1>4
  <2>3. QED
    BY <1>4, <2>1, <2>2, FS_EmptySet DEF LimitsKept, CountActiveJobsForUser
<1>6. OneActivePerOutput /\ NobodyWaitsOnAFinishedJob
  BY <1>1, <1>4 DEF Init, OneActivePerOutput, NobodyWaitsOnAFinishedJob
<1>7. QED
  BY <1>2, <1>3, <1>5, <1>6 DEF IInv

\* A step of a handler that touches no job.
LEMMA JobsUntouched ==
    ASSUME IInv, UNCHANGED <<status, product, waiting, totalLimit>>, PressInv'
    PROVE  IInv'
<1>1. ActiveJobs' = ActiveJobs /\ \A u \in Users : CountActiveJobsForUser(u)' = CountActiveJobsForUser(u)
  BY DEF ActiveJobs, Active, CountActiveJobsForUser
<1>2. QED
  BY <1>1 DEF IInv, RowsInv, OneActivePerOutput, LimitsKept, NobodyWaitsOnAFinishedJob

\* A step of a job, or of one of its recipients.
LEMMA JobsGoOn ==
    ASSUME IInv, UNCHANGED <<press, product, totalLimit>>,
           status' \in [Jobs -> Statuses], waiting' \in [Jobs -> SUBSET Messages],
           ActiveJobs' \subseteq ActiveJobs,
           \A j \in Jobs : waiting'[j] \subseteq waiting[j],
           NobodyWaitsOnAFinishedJob'
    PROVE  IInv'
<1>1. RowsInv' /\ PressInv'
  BY DEF IInv, RowsInv, PressInv, At
<1>2. OneActivePerOutput'
  BY DEF IInv, OneActivePerOutput
<1>3. LimitsKept'
  BY FewerKeepLimits DEF IInv
<1>4. QED
  BY <1>1, <1>2, <1>3 DEF IInv

\* Begins, the first step of every request.
LEMMA BeginsIsTyped ==
    ASSUME IInv, NEW p \in Presses, NEW m \in Messages, NEW o \in Outputs,
           NEW rest \in SUBSET Outputs, NEW all \in BOOLEAN, Begins(p, m, o, rest, all)
    PROVE  PressInv'
BY DEF IInv, PressInv, Begins, At, Pcs, Handlers

\* The end of a request.
LEMMA AnsweredIsTyped ==
    ASSUME IInv, NEW p \in Presses, Answered(p)
    PROVE  PressInv'
BY DEF IInv, PressInv, Answered, Idle, At, Pcs, Handlers

\* A step of a handler to another await.
LEMMA GotoIsTyped ==
    ASSUME IInv, NEW p \in Presses, ~At(p, "idle"), NEW pc \in Pcs \ {"join", "idle"}, Goto(p, pc)
    PROVE  PressInv'
BY DEF IInv, PressInv, Goto, At, Handlers

\* Another round.
LEMMA AgainIsTyped ==
    ASSUME IInv, NEW p \in Presses, ~At(p, "idle"), Again(p)
    PROVE  PressInv'
BY DEF IInv, PressInv, Again, FewerAttempts, At, Pcs, Handlers

\* A request begins.
LEMMA RequestsKeepInvariant ==
    ASSUME IInv, totalLimit' = totalLimit, NEW p \in Presses,
           NEW m \in Messages, NEW o \in Outputs,
           PressFormat(p, m, o) \/ QueueAll(p, m, o) \/ NextChoice(p, m, o) \/ SkipChoice(p, o)
    PROVE  IInv'
<1>1. SUFFICES PressInv' /\ UNCHANGED <<status, product, waiting>>
  BY JobsUntouched
<1>2. press[p].rest \in SUBSET Outputs
  BY DEF IInv, PressInv, Handlers
<1>3. CASE PressFormat(p, m, o)
  BY <1>3, BeginsIsTyped DEF PressFormat, Begins, rows
<1>4. CASE QueueAll(p, m, o)
  BY <1>4, BeginsIsTyped, LimitAssumption DEF QueueAll, Begins, rows
<1>5. CASE NextChoice(p, m, o)
  BY <1>2, <1>5, BeginsIsTyped DEF NextChoice, Begins, rows
<1>6. CASE SkipChoice(p, o)
  BY <1>6 DEF SkipChoice, rows, IInv, PressInv, At, Handlers
<1>7. QED
  BY <1>3, <1>4, <1>5, <1>6

\* The steps of a handler that touch no job.
LEMMA LooksKeepInvariant ==
    ASSUME IInv, totalLimit' = totalLimit, NEW p \in Presses,
           Look(p) \/ Send(p) \/ Purge(p) \/ Find(p) \/ EndAll(p) \/ Abandon(p)
    PROVE  IInv'
<1>1. SUFFICES PressInv' /\ UNCHANGED <<status, product, waiting>>
  BY JobsUntouched
<1>2. ASSUME Missed(p), ~At(p, "idle") PROVE PressInv'
  BY <1>2, AnsweredIsTyped, GotoIsTyped DEF Missed, Pcs
<1>3. CASE Look(p)
  <2>1. ~At(p, "idle")
    BY <1>3 DEF Look, At
  <2>2. PressInv'
    BY <1>2, <1>3, <2>1, GotoIsTyped DEF Look, Pcs
  <2>3. QED
    BY <1>3, <2>2 DEF Look, rows
<1>4. CASE Send(p)
  <2>1. ~At(p, "idle")
    BY <1>4 DEF Send, At
  <2>2. PressInv'
    BY <1>4, <2>1, GotoIsTyped, AnsweredIsTyped DEF Send, AfterSend, Pcs
  <2>3. QED
    BY <1>4, <2>2 DEF Send, rows
<1>5. CASE Purge(p)
  <2>1. ~At(p, "idle")
    BY <1>5 DEF Purge, At
  <2>2. QED
    BY <1>2, <1>5, <2>1 DEF Purge
<1>6. CASE Find(p)
  <2>1. ~At(p, "idle")
    BY <1>6 DEF Find, At
  <2>2. CASE Goto(p, "create")
    BY <1>6, <2>1, <2>2, GotoIsTyped DEF Find, rows, Pcs
  <2>3. ASSUME NEW j \in ActiveFor(press[p].out),
               press' = [press EXCEPT ![p].pc = "join", ![p].job = j]
        PROVE  PressInv'
    <3>1. j \in Jobs
      BY DEF ActiveFor
    <3>2. \A q \in Presses : press'[q].msg = press[q].msg /\ press'[q].out = press[q].out
                             /\ (q # p => press'[q] = press[q]) /\ press'[p].job = j
      BY <2>3 DEF IInv, PressInv
    <3>3. press' \in [Presses -> Handlers]
      <4>1. press \in [Presses -> Handlers]
        BY DEF IInv, PressInv
      <4>2. [press[p] EXCEPT !.pc = "join", !.job = j] \in Handlers
        BY <3>1, <4>1 DEF Handlers, Pcs
      <4>3. QED
        BY <2>3, <4>1, <4>2
    <3>4. QED
      BY <2>1, <3>1, <3>2, <3>3 DEF IInv, PressInv, At
  <2>4. QED
    BY <1>6, <2>2, <2>3 DEF Find, rows
<1>7. CASE EndAll(p) \/ Abandon(p)
  <2>1. press' = [press EXCEPT ![p] = Idle(None, {}, FALSE)] /\ UNCHANGED <<status, product, waiting>>
    BY <1>7 DEF EndAll, Abandon, rows
  <2>2. Idle(None, {}, FALSE) \in Handlers /\ Idle(None, {}, FALSE).pc = "idle"
    BY DEF Idle, Handlers, Pcs
  <2>3. press \in [Presses -> Handlers]
    BY DEF IInv, PressInv
  <2>4. press' \in [Presses -> Handlers] /\ press'[p].pc = "idle"
        /\ \A q \in Presses \ {p} : press'[q] = press[q]
    BY <2>1, <2>2, <2>3
  <2>5. PressInv'
    BY <2>4 DEF IInv, PressInv, At
  <2>6. QED
    BY <2>1, <2>5
<1>8. QED
  BY <1>3, <1>4, <1>5, <1>6, <1>7

\* try_add_job_subscriber looks at the job again: one that ended meanwhile is
\* not joined.
LEMMA JoinKeepsInvariant ==
    ASSUME IInv, totalLimit' = totalLimit, NEW p \in Presses, Join(p)
    PROVE  IInv'
<1> DEFINE j == press[p].job
           m == press[p].msg
<1>1. At(p, "join") /\ ~At(p, "idle") /\ j \in Jobs /\ m \in Messages
  BY DEF Join, At, IInv, PressInv
<1>2. PressInv'
  BY <1>1, AgainIsTyped, AnsweredIsTyped DEF Join
<1>3. CASE UNCHANGED waiting
  BY <1>2, <1>3, JobsUntouched DEF Join
<1>4. CASE StillJoinable(p) /\ UserHasRoom(Owner[m]) /\ waiting' = Held(j, m)
  <2>1. ActiveJobs' = ActiveJobs /\ j \in ActiveJobs /\ UNCHANGED <<status, product>>
    BY <1>4 DEF Join, ActiveJobs, Active, StillJoinable, ActiveFor
  <2>2. RowsInv'
    BY <1>1, <1>4, <2>1 DEF IInv, RowsInv, Held
  <2>3. LimitsKept'
    BY <1>1, <1>4, <2>1, OneMoreKeepsLimits DEF IInv
  <2>4. NobodyWaitsOnAFinishedJob'
    BY <1>1, <1>4, <2>1 DEF IInv, NobodyWaitsOnAFinishedJob, RowsInv, Held, ActiveJobs, Active
  <2>5. OneActivePerOutput'
    BY <2>1 DEF IInv, OneActivePerOutput
  <2>6. QED
    BY <1>2, <2>2, <2>3, <2>4, <2>5 DEF IInv
<1>5. QED
  BY <1>3, <1>4 DEF Join

\* create_download_job counts, and looks for an active job of the output, in
\* the transaction that inserts the row.
LEMMA CreateKeepsInvariant ==
    ASSUME IInv, totalLimit' = totalLimit, NEW p \in Presses, Create(p)
    PROVE  IInv'
<1> DEFINE m == press[p].msg
           o == press[p].out
<1>1. At(p, "create") /\ ~At(p, "idle") /\ m \in Messages /\ o \in Outputs
  BY DEF Create, At, IInv, PressInv
<1>2. PressInv'
  BY <1>1, AgainIsTyped, AnsweredIsTyped DEF Create
<1>3. CASE UNCHANGED rows
  BY <1>2, <1>3, JobsUntouched DEF rows
<1>4. ASSUME NEW j \in Jobs, status[j] = "over", MayCreate(p), UserHasRoom(Owner[m]),
             Cardinality(ActiveJobs) < totalLimit,
             status' = [status EXCEPT ![j] = "active"],
             product' = [product EXCEPT ![j] = o], waiting' = Held(j, m)
      PROVE  IInv'
  <2>1. ActiveJobs' = ActiveJobs \cup {j} /\ j \notin ActiveJobs
    BY <1>4 DEF ActiveJobs, Active, IInv, RowsInv
  <2>2. RowsInv'
    BY <1>1, <1>4 DEF IInv, RowsInv, Held, Statuses
  <2>3. waiting[j] = {}
    BY <1>4 DEF IInv, NobodyWaitsOnAFinishedJob
  <2>4. LimitsKept'
    BY <1>1, <1>4, <2>1, <2>3, OneMoreKeepsLimits DEF IInv
  <2>5. OneActivePerOutput'
    <3>1. \A k \in ActiveJobs : product[k] # o /\ product'[k] = product[k]
      BY <1>4, <2>1 DEF MayCreate, ActiveFor, ActiveJobs, Active, IInv, RowsInv
    <3>2. product'[j] = o
      BY <1>4 DEF IInv, RowsInv
    <3>3. QED
      BY <2>1, <3>1, <3>2 DEF IInv, OneActivePerOutput
  <2>6. NobodyWaitsOnAFinishedJob'
    BY <1>4 DEF IInv, NobodyWaitsOnAFinishedJob, RowsInv, Held
  <2>7. QED
    BY <1>2, <2>2, <2>4, <2>5, <2>6 DEF IInv
<1>5. QED
  BY <1>3, <1>4 DEF Create

\* A job ends.
LEMMA EndsKeepInvariant ==
    ASSUME IInv, totalLimit' = totalLimit, NEW j \in Jobs, Finish(j) \/ Fail(j)
    PROVE  IInv'
<1>1. status \in [Jobs -> Statuses] /\ waiting \in [Jobs -> SUBSET Messages] /\ NobodyWaitsOnAFinishedJob
  BY DEF IInv, RowsInv
<1>2. CASE Finish(j)
  <2>1. status' \in [Jobs -> Statuses] /\ UNCHANGED <<press, product, waiting>>
    BY <1>1, <1>2 DEF Finish, Statuses
  <2>2. ActiveJobs' \subseteq ActiveJobs /\ NobodyWaitsOnAFinishedJob'
    BY <1>1, <1>2 DEF Finish, ActiveJobs, Active, NobodyWaitsOnAFinishedJob
  <2>3. QED
    BY <1>1, <2>1, <2>2, JobsGoOn
<1>3. CASE Fail(j)
  <2>1. status' \in [Jobs -> Statuses] /\ UNCHANGED <<press, product, waiting>>
    BY <1>1, <1>3 DEF Fail, Ended, Statuses
  <2>2. ActiveJobs' \subseteq ActiveJobs /\ NobodyWaitsOnAFinishedJob'
    BY <1>1, <1>3 DEF Fail, Ended, ActiveJobs, Active, NobodyWaitsOnAFinishedJob
  <2>3. QED
    BY <1>1, <2>1, <2>2, JobsGoOn
<1>4. QED
  BY <1>2, <1>3

\* One of its recipients is served or leaves.
LEMMA RecipientsKeepInvariant ==
    ASSUME IInv, totalLimit' = totalLimit, NEW j \in Jobs, NEW m \in Messages,
           Serve(j, m) \/ Notify(j, m) \/ Leave(j, m)
    PROVE  IInv'
<1>1. status \in [Jobs -> Statuses] /\ waiting \in [Jobs -> SUBSET Messages] /\ NobodyWaitsOnAFinishedJob
  BY DEF IInv, RowsInv
<1>2. CASE Serve(j, m)
  <2>1. UNCHANGED <<press, product, status>> /\ waiting' = [waiting EXCEPT ![j] = @ \ {m}]
    BY <1>2 DEF Serve, Outcome
  <2>2. ActiveJobs' \subseteq ActiveJobs /\ NobodyWaitsOnAFinishedJob'
    BY <1>1, <2>1 DEF ActiveJobs, Active, NobodyWaitsOnAFinishedJob
  <2>3. QED
    BY <1>1, <2>1, <2>2, JobsGoOn
<1>3. CASE Notify(j, m) \/ Leave(j, m)
  <2>1. /\ UNCHANGED <<press, product>>
        /\ waiting' = [waiting EXCEPT ![j] = @ \ {m}]
        /\ \/ status' = [status EXCEPT ![j] = "over"] /\ waiting[j] \ {m} = {}
           \/ status[j] = "ending" /\ status' = [status EXCEPT ![j] = "ending"]
           \/ status' = status
    BY <1>3 DEF Notify, Leave, Outcome, Ended
  <2>2. status' \in [Jobs -> Statuses]
    BY <1>1, <2>1 DEF Statuses
  <2>3. ActiveJobs' \subseteq ActiveJobs
    BY <1>1, <2>1 DEF ActiveJobs, Active
  <2>4. NobodyWaitsOnAFinishedJob'
    BY <1>1, <2>1 DEF NobodyWaitsOnAFinishedJob
  <2>5. QED
    BY <1>1, <2>1, <2>2, <2>3, <2>4, JobsGoOn
<1>4. QED
  BY <1>2, <1>3

\* The steps of drafts and of the cache, and steps of other systems.
LEMMA OthersKeepInvariant ==
    ASSUME IInv, UNCHANGED <<status, product, waiting, totalLimit, press>>
    PROVE  IInv'
<1>1. PressInv'
  BY DEF IInv, PressInv, At
<1>2. QED
  BY <1>1, JobsUntouched

\* Every step keeps the invariant.
LEMMA InvariantIsKept == IInv /\ [Next]_vars => IInv'
<1>1. SUFFICES ASSUME IInv, [Next]_vars PROVE IInv'
  OBVIOUS
<1>2. CASE UNCHANGED vars
  BY <1>1, <1>2, OthersKeepInvariant DEF vars, rows
<1>3. CASE Next
  <2>1. totalLimit' = totalLimit
    BY <1>3 DEF Next
  <2>2. ASSUME NEW p \in Presses, PressStep(p) PROVE IInv'
    <3>1. CASE Join(p)
      BY <1>1, <2>1, <3>1, JoinKeepsInvariant
    <3>2. CASE Create(p)
      BY <1>1, <2>1, <3>2, CreateKeepsInvariant
    <3>3. CASE Look(p) \/ Send(p) \/ Purge(p) \/ Find(p) \/ EndAll(p) \/ Abandon(p)
      BY <1>1, <2>1, <3>3, LooksKeepInvariant
    <3>4. QED
      BY <2>2, <3>1, <3>2, <3>3 DEF PressStep
  <2>3. ASSUME NEW p \in Presses, NEW m \in Messages, NEW o \in Outputs,
               PressFormat(p, m, o) \/ QueueAll(p, m, o) \/ NextChoice(p, m, o) \/ SkipChoice(p, o)
        PROVE  IInv'
    BY <1>1, <2>1, <2>3, RequestsKeepInvariant
  <2>4. ASSUME NEW u \in Users, PrepareAll(u) \/ CancelAll(u) PROVE IInv'
    BY <1>1, <2>1, <2>4, OthersKeepInvariant DEF PrepareAll, CancelAll, rows
  <2>5. ASSUME NEW j \in Jobs, Finish(j) \/ Fail(j) PROVE IInv'
    BY <1>1, <2>1, <2>5, EndsKeepInvariant
  <2>6. ASSUME NEW j \in Jobs, NEW m \in Messages, Serve(j, m) \/ Notify(j, m) \/ Leave(j, m)
        PROVE  IInv'
    BY <1>1, <2>1, <2>6, RecipientsKeepInvariant
  <2>7. ASSUME NEW o \in Outputs, Evict(o) PROVE IInv'
    BY <1>1, <2>1, <2>7, OthersKeepInvariant DEF Evict
  <2>8. QED
    BY <1>3, <2>2, <2>3, <2>4, <2>5, <2>6, <2>7 DEF Next, Step
<1>4. QED
  BY <1>1, <1>2, <1>3

-----------------------------------------------------------------------------
(***************************************************************************)
(* What is owed is what is recorded.  Every step moves one request at most *)
(* from a handler to the recipients of a job, or settles it.               *)
(***************************************************************************)
Asking(m, o) ==
    {p \in Presses : press[p].msg = m /\ press[p].out = o /\ ~At(p, "idle")}
Expecting(m, o) == {j \in Jobs : product[j] = o /\ m \in waiting[j]}

\* A handler that found no cached file has a round left, and somebody who
\* waits at a job waits for an output.
RoundsInv ==
    \A p \in Presses :
        /\ press[p].left \in 0..Attempts
        /\ press[p].pc \in {"find", "join", "create"} => press[p].left > 0
ProductInv == \A j \in Jobs : waiting[j] # {} => product[j] \in Outputs
DraftsInv == draft \subseteq Users /\ cache \subseteq Outputs

OwedIsTyped == owed \in [Messages -> [Outputs -> 0..MaxOwed]]

RecordInv == /\ RoundsInv /\ ProductInv /\ DraftsInv
             /\ OwedIsTyped /\ OwesWhatItRecords

\* Both counts are of finite sets.
LEMMA CountsAreFinite ==
    ASSUME NEW m, NEW o
    PROVE  /\ IsFiniteSet(Asking(m, o)) /\ IsFiniteSet(Expecting(m, o))
           /\ Cardinality(Asking(m, o)) \in Nat /\ Cardinality(Expecting(m, o)) \in Nat
<1>1. Asking(m, o) \subseteq Presses /\ Expecting(m, o) \subseteq Jobs
  BY DEF Asking, Expecting
<1>2. IsFiniteSet(Asking(m, o)) /\ IsFiniteSet(Expecting(m, o))
  BY <1>1, FS_Subset
<1>3. QED
  BY <1>2, FS_CardinalityType

\* The property in these words.
LEMMA OwedByCounts ==
    OwesWhatItRecords <=>
        \A m \in Messages, o \in Outputs :
            owed[m][o] = Cardinality(Asking(m, o)) + Cardinality(Expecting(m, o))
BY DEF OwesWhatItRecords, Asking, Expecting

\* The counts of one message and output decide what is owed to it.
OwesElsewhere(m0, o0) ==
    \A m \in Messages, o \in Outputs :
        m # m0 \/ o # o0 =>
            /\ Asking(m, o)' = Asking(m, o) /\ Expecting(m, o)' = Expecting(m, o)
            /\ owed'[m][o] = owed[m][o]
LEMMA OwedAgain ==
    ASSUME RecordInv, NEW m0 \in Messages, NEW o0 \in Outputs,
           OwesElsewhere(m0, o0),
           owed'[m0][o0] = Cardinality(Asking(m0, o0)') + Cardinality(Expecting(m0, o0)')
    PROVE  OwesWhatItRecords'
<1>1. \A m \in Messages, o \in Outputs :
          owed'[m][o] = Cardinality(Asking(m, o)') + Cardinality(Expecting(m, o)')
  BY OwedByCounts DEF RecordInv, OwesElsewhere
<1>2. QED
  BY <1>1 DEF OwesWhatItRecords, Asking, Expecting

\* Nothing is asked and nothing settled.
LEMMA NothingSettled ==
    ASSUME RecordInv, owed' = owed,
           \A m \in Messages, o \in Outputs :
               Asking(m, o)' = Asking(m, o) /\ Expecting(m, o)' = Expecting(m, o)
    PROVE  OwedIsTyped' /\ OwesWhatItRecords'
<1>1. \A m \in Messages, o \in Outputs :
          owed'[m][o] = Cardinality(Asking(m, o)') + Cardinality(Expecting(m, o)')
  BY OwedByCounts DEF RecordInv
<1>2. QED
  BY <1>1 DEF OwesWhatItRecords, Asking, Expecting, RecordInv, OwedIsTyped

\* A request is made.
LEMMA RequestStarts ==
    ASSUME RecordInv, NEW m \in Messages, NEW o \in Outputs, NEW p,
           owed[m][o] < MaxOwed, owed' = [owed EXCEPT ![m][o] = @ + 1],
           p \notin Asking(m, o), Asking(m, o)' = Asking(m, o) \cup {p},
           Expecting(m, o)' = Expecting(m, o),
           OwesElsewhere(m, o)
    PROVE  OwedIsTyped' /\ OwesWhatItRecords'
<1>1. owed \in [Messages -> [Outputs -> 0..MaxOwed]] /\ MaxOwed \in Nat
  BY DEF RecordInv, OwedIsTyped
<1>2. owed'[m][o] = owed[m][o] + 1 /\ OwedIsTyped'
  BY <1>1 DEF OwedIsTyped
<1>3. Cardinality(Asking(m, o)') = Cardinality(Asking(m, o)) + 1
  BY CountsAreFinite, FS_AddElement
<1>4. owed[m][o] = Cardinality(Asking(m, o)) + Cardinality(Expecting(m, o))
  BY OwedByCounts DEF RecordInv
<1>5. owed'[m][o] = Cardinality(Asking(m, o)') + Cardinality(Expecting(m, o)')
  BY <1>2, <1>3, <1>4, CountsAreFinite
<1>6. QED
  BY <1>2, <1>5, OwedAgain

\* A request is settled: one count less by one.
LEMMA RequestSettled ==
    ASSUME RecordInv, NEW m \in Messages, NEW o \in Outputs, Settled(m, o),
           \/ /\ Expecting(m, o)' = Expecting(m, o)
              /\ \E p \in Asking(m, o) : Asking(m, o)' = Asking(m, o) \ {p}
           \/ /\ Asking(m, o)' = Asking(m, o)
              /\ \E j \in Expecting(m, o) : Expecting(m, o)' = Expecting(m, o) \ {j},
           OwesElsewhere(m, o)
    PROVE  OwedIsTyped' /\ OwesWhatItRecords'
<1>1. owed \in [Messages -> [Outputs -> 0..MaxOwed]] /\ MaxOwed \in Nat
  BY DEF RecordInv, OwedIsTyped
<1>2. owed'[m][o] = owed[m][o] - 1
  BY <1>1 DEF Settled
<1> DEFINE count == Cardinality(Asking(m, o)) + Cardinality(Expecting(m, o))
<1>3. count' = count - 1 /\ count > 0
  <2>1. ASSUME NEW p \in Asking(m, o), Asking(m, o)' = Asking(m, o) \ {p},
               Expecting(m, o)' = Expecting(m, o)
        PROVE  count' = count - 1 /\ count > 0
    <3>1. Cardinality(Asking(m, o) \ {p}) = Cardinality(Asking(m, o)) - 1
      <4>1. IsFiniteSet(Asking(m, o))
        BY CountsAreFinite
      <4>2. QED
        BY <4>1, FS_RemoveElement
    <3>2. Cardinality(Asking(m, o)) # 0
      BY <2>1, CountsAreFinite, FS_EmptySet
    <3>3. QED
      BY <2>1, <3>1, <3>2, CountsAreFinite
  <2>2. ASSUME NEW j \in Expecting(m, o), Expecting(m, o)' = Expecting(m, o) \ {j},
               Asking(m, o)' = Asking(m, o)
        PROVE  count' = count - 1 /\ count > 0
    <3>1. Cardinality(Expecting(m, o) \ {j}) = Cardinality(Expecting(m, o)) - 1
      <4>1. IsFiniteSet(Expecting(m, o))
        BY CountsAreFinite
      <4>2. QED
        BY <4>1, FS_RemoveElement
    <3>2. Cardinality(Expecting(m, o)) # 0
      BY <2>2, CountsAreFinite, FS_EmptySet
    <3>3. QED
      BY <2>2, <3>1, <3>2, CountsAreFinite
  <2>3. QED
    BY <2>1, <2>2
<1>4. owed[m][o] = Cardinality(Asking(m, o)) + Cardinality(Expecting(m, o))
  BY OwedByCounts DEF RecordInv
<1>5. owed'[m][o] = Cardinality(Asking(m, o)') + Cardinality(Expecting(m, o)')
  BY <1>2, <1>3, <1>4, CountsAreFinite
<1>6. OwedIsTyped'
  <2>1. owed[m][o] > 0 /\ owed[m][o] - 1 \in 0..MaxOwed
    BY <1>1, <1>3, <1>4
  <2>2. QED
    BY <1>1, <2>1 DEF Settled, OwedIsTyped
<1>7. QED
  BY <1>5, <1>6, OwedAgain

\* A request is handed from its handler to a job.
LEMMA RequestWaits ==
    ASSUME RecordInv, NEW m \in Messages, NEW o \in Outputs, owed' = owed,
           NEW p \in Asking(m, o), Asking(m, o)' = Asking(m, o) \ {p},
           NEW j, j \notin Expecting(m, o), Expecting(m, o)' = Expecting(m, o) \cup {j},
           OwesElsewhere(m, o)
    PROVE  OwedIsTyped' /\ OwesWhatItRecords'
<1>1. Cardinality(Asking(m, o)') = Cardinality(Asking(m, o)) - 1
  BY CountsAreFinite, FS_RemoveElement
<1>2. Cardinality(Expecting(m, o)') = Cardinality(Expecting(m, o)) + 1
  BY CountsAreFinite, FS_AddElement
<1>3. owed[m][o] = Cardinality(Asking(m, o)) + Cardinality(Expecting(m, o))
  BY OwedByCounts DEF RecordInv
<1>4. owed'[m][o] = Cardinality(Asking(m, o)') + Cardinality(Expecting(m, o)')
  BY <1>1, <1>2, <1>3, CountsAreFinite
<1>5. QED
  BY <1>4, OwedAgain DEF RecordInv, OwedIsTyped

\* A handler that is done with its request no longer asks.
LEMMA AnsweredStopsAsking ==
    ASSUME IInv, NEW p \in Presses, ~At(p, "idle"), Answered(p)
    PROVE  /\ p \in Asking(press[p].msg, press[p].out)
           /\ \A m \in Messages, o \in Outputs :
                 Asking(m, o)' = IF m = press[p].msg /\ o = press[p].out
                                 THEN Asking(m, o) \ {p} ELSE Asking(m, o)
<1>1. press \in [Presses -> Handlers]
  BY DEF IInv, PressInv
<1>2. press'[p].pc = "idle" /\ \A q \in Presses \ {p} : press'[q] = press[q]
  BY <1>1 DEF Answered, Idle
<1>3. QED
  BY <1>2 DEF Asking, At

\* A handler that goes on with its request still asks.
LEMMA GoingOnAsks ==
    ASSUME IInv, NEW p \in Presses, ~At(p, "idle"), NEW h,
           press' = [press EXCEPT ![p] = h], h.pc # "idle",
           h.msg = press[p].msg, h.out = press[p].out
    PROVE  \A m \in Messages, o \in Outputs : Asking(m, o)' = Asking(m, o)
<1>1. press'[p] = h /\ \A q \in Presses \ {p} : press'[q] = press[q]
  BY DEF IInv, PressInv
<1>2. QED
  BY <1>1 DEF Asking, At

\* A handler between two requests asks for nothing.
LEMMA IdlersAskNothing ==
    ASSUME IInv, NEW p \in Presses, At(p, "idle"), NEW h,
           press' = [press EXCEPT ![p] = h], h.pc = "idle"
    PROVE  \A m \in Messages, o \in Outputs : Asking(m, o)' = Asking(m, o)
<1>1. press'[p] = h /\ \A q \in Presses \ {p} : press'[q] = press[q]
  BY DEF IInv, PressInv
<1>2. QED
  BY <1>1 DEF Asking, At

\* The recipients are those of the jobs' rows.
LEMMA ExpectingSame ==
    ASSUME UNCHANGED <<product, waiting>>
    PROVE  \A m \in Messages, o \in Outputs : Expecting(m, o)' = Expecting(m, o)
BY DEF Expecting

\* A request begins.
LEMMA BeginsIsRecorded ==
    ASSUME IInv, RecordInv, NEW p \in Presses, At(p, "idle"),
           NEW m \in Messages, NEW o \in Outputs, NEW rest, NEW all,
           Begins(p, m, o, rest, all)
    PROVE  RecordInv'
<1>1. press \in [Presses -> Handlers]
  BY DEF IInv, PressInv
<1>2. /\ press'[p].pc = "look" /\ press'[p].msg = m /\ press'[p].out = o
      /\ press'[p].left = Attempts
      /\ \A q \in Presses \ {p} : press'[q] = press[q]
  BY <1>1 DEF Begins
<1>3. \A mm \in Messages, oo \in Outputs :
          Asking(mm, oo)' = IF mm = m /\ oo = o THEN Asking(mm, oo) \cup {p}
                            ELSE Asking(mm, oo)
  BY <1>2 DEF Asking, At
<1>4. p \notin Asking(m, o)
  BY DEF Asking
<1>5. \A mm \in Messages, oo \in Outputs : Expecting(mm, oo)' = Expecting(mm, oo)
  BY ExpectingSame DEF Begins, rows
<1>6. OwesElsewhere(m, o)
  BY <1>3, <1>5 DEF OwesElsewhere, Begins, RecordInv, OwedIsTyped
<1>7. OwedIsTyped' /\ OwesWhatItRecords'
  BY <1>3, <1>4, <1>5, <1>6, RequestStarts DEF Begins
<1>8. RoundsInv'
  BY <1>2 DEF RecordInv, RoundsInv
<1>9. ProductInv' /\ DraftsInv'
  BY DEF RecordInv, ProductInv, DraftsInv, Begins, rows
<1>10. QED
  BY <1>7, <1>8, <1>9 DEF RecordInv

\* The jobs' rows, the drafts and the cache of a step of a handler.
RowsGoOn == UNCHANGED <<product, waiting>> /\ DraftsInv'

\* A request is answered by its handler.
LEMMA AnsweredIsRecorded ==
    ASSUME IInv, RecordInv, NEW p \in Presses, ~At(p, "idle"), Answered(p),
           Settled(press[p].msg, press[p].out), RowsGoOn
    PROVE  RecordInv'
<1> DEFINE m == press[p].msg
           o == press[p].out
<1>1. m \in Messages /\ o \in Outputs /\ press \in [Presses -> Handlers]
  BY DEF IInv, PressInv
<1>2. \A mm \in Messages, oo \in Outputs : Expecting(mm, oo)' = Expecting(mm, oo)
  BY ExpectingSame DEF RowsGoOn
<1>3. OwesElsewhere(m, o)
  BY <1>2, AnsweredStopsAsking DEF OwesElsewhere, Settled, RecordInv, OwedIsTyped
<1>4. OwedIsTyped' /\ OwesWhatItRecords'
  BY <1>1, <1>2, <1>3, AnsweredStopsAsking, RequestSettled
<1>5. RoundsInv'
  <2>1. press'[p].pc = "idle" /\ press'[p].left = 0
        /\ \A q \in Presses \ {p} : press'[q] = press[q]
    BY <1>1 DEF Answered, Idle
  <2>2. QED
    BY <2>1 DEF RecordInv, RoundsInv
<1>6. ProductInv'
  BY DEF RecordInv, ProductInv, RowsGoOn
<1>7. QED
  BY <1>4, <1>5, <1>6 DEF RecordInv, RowsGoOn

\* A handler goes on with its request, or stays between two.
LEMMA HandlerGoesOn ==
    ASSUME IInv, RecordInv, NEW p \in Presses, NEW h,
           press' = [press EXCEPT ![p] = h],
           \/ ~At(p, "idle") /\ h.pc # "idle" /\ h.msg = press[p].msg /\ h.out = press[p].out
           \/ At(p, "idle") /\ h.pc = "idle",
           h.left \in 0..Attempts, h.pc \in {"find", "join", "create"} => h.left > 0,
           owed' = owed, RowsGoOn
    PROVE  RecordInv'
<1>1. \A m \in Messages, o \in Outputs : Asking(m, o)' = Asking(m, o)
  BY GoingOnAsks, IdlersAskNothing
<1>2. \A m \in Messages, o \in Outputs : Expecting(m, o)' = Expecting(m, o)
  BY ExpectingSame DEF RowsGoOn
<1>3. OwedIsTyped' /\ OwesWhatItRecords'
  BY <1>1, <1>2, NothingSettled
<1>4. RoundsInv'
  <2>1. press'[p] = h /\ \A q \in Presses \ {p} : press'[q] = press[q]
    BY DEF IInv, PressInv
  <2>2. QED
    BY <2>1 DEF RecordInv, RoundsInv
<1>5. QED
  BY <1>3, <1>4 DEF RecordInv, ProductInv, RowsGoOn

\* The steps that begin a request, or skip it.
LEMMA RequestsAreOwed ==
    ASSUME IInv, RecordInv, NEW p \in Presses, NEW m \in Messages, NEW o \in Outputs,
           PressFormat(p, m, o) \/ QueueAll(p, m, o) \/ NextChoice(p, m, o) \/ SkipChoice(p, o)
    PROVE  RecordInv'
<1>1. CASE PressFormat(p, m, o) \/ QueueAll(p, m, o) \/ NextChoice(p, m, o)
  BY <1>1, BeginsIsRecorded DEF PressFormat, QueueAll, NextChoice
<1>2. CASE SkipChoice(p, o)
  <2> DEFINE h == [press[p] EXCEPT !.rest = @ \ {o}]
  <2>1. press[p] \in Handlers
    BY DEF IInv, PressInv
  <2>2. h.pc = press[p].pc /\ h.left = press[p].left
    BY <2>1 DEF Handlers
  <2>3. press' = [press EXCEPT ![p] = h] /\ At(p, "idle") /\ owed' = owed
    BY <1>2 DEF SkipChoice
  <2>4. RowsGoOn
    BY <1>2 DEF SkipChoice, RowsGoOn, DraftsInv, RecordInv, rows
  <2> HIDE DEF h
  <2>5. h.left \in 0..Attempts /\ h.pc = "idle"
    BY <2>2, <2>3 DEF RecordInv, RoundsInv, At
  <2>6. QED
    BY <2>3, <2>4, <2>5, HandlerGoesOn
<1>3. QED
  BY <1>1, <1>2

\* A handler goes to another await.
LEMMA GotoIsRecorded ==
    ASSUME IInv, RecordInv, NEW p \in Presses, ~At(p, "idle"),
           NEW pc \in Pcs \ {"idle"}, Goto(p, pc), owed' = owed, RowsGoOn,
           pc \in {"find", "join", "create"} => press[p].left > 0
    PROVE  RecordInv'
<1> DEFINE h == [press[p] EXCEPT !.pc = pc]
<1>1. press[p] \in Handlers
  BY DEF IInv, PressInv
<1>2. h.pc = pc /\ h.left = press[p].left /\ h.msg = press[p].msg /\ h.out = press[p].out
  BY <1>1 DEF Handlers
<1>3. press' = [press EXCEPT ![p] = h]
  BY DEF Goto
<1> HIDE DEF h
<1>4. h.left \in 0..Attempts
  BY <1>2 DEF RecordInv, RoundsInv
<1>5. QED
  BY <1>2, <1>3, <1>4, HandlerGoesOn

\* Another round of the loop.
LEMMA AgainIsRecorded ==
    ASSUME IInv, RecordInv, NEW p \in Presses, At(p, "join") \/ At(p, "create"),
           Again(p), owed' = owed, RowsGoOn
    PROVE  RecordInv'
<1> DEFINE h == [press[p] EXCEPT !.pc = "look", !.job = None, !.left = FewerAttempts(p)]
<1>1. press[p] \in Handlers
  BY DEF IInv, PressInv
<1>2. h.pc = "look" /\ h.left = press[p].left - 1
      /\ h.msg = press[p].msg /\ h.out = press[p].out
  BY <1>1 DEF Handlers, FewerAttempts
<1>3. press' = [press EXCEPT ![p] = h]
  BY <1>1 DEF Again, IInv, PressInv
<1> HIDE DEF h
<1>4. press[p].left \in 0..Attempts /\ press[p].left > 0
  BY DEF RecordInv, RoundsInv, At
<1>5. h.left \in 0..Attempts
  BY <1>2, <1>4
<1>6. ~At(p, "idle") /\ h.pc # "idle" /\ h.pc \notin {"find", "join", "create"}
  BY <1>2 DEF At
<1>7. QED
  BY <1>2, <1>3, <1>5, <1>6, HandlerGoesOn

\* The cache had nothing.
LEMMA MissedIsRecorded ==
    ASSUME IInv, RecordInv, NEW p \in Presses, ~At(p, "idle"), Missed(p), RowsGoOn
    PROVE  RecordInv'
<1>1. CASE press[p].left > 0 /\ Goto(p, "find") /\ UNCHANGED owed
  BY <1>1, GotoIsRecorded DEF Pcs
<1>2. CASE Answered(p) /\ Settled(press[p].msg, press[p].out)
  BY <1>2, AnsweredIsRecorded
<1>3. QED
  BY <1>1, <1>2 DEF Missed

\* The steps of a handler that touch no job.
LEMMA LooksAreOwed ==
    ASSUME IInv, RecordInv, NEW p \in Presses,
           Look(p) \/ Send(p) \/ Purge(p) \/ Find(p) \/ EndAll(p) \/ Abandon(p)
    PROVE  RecordInv'
<1>1. RowsGoOn
  BY DEF Look, Send, Purge, Find, EndAll, Abandon, rows, RowsGoOn, DraftsInv, RecordInv
<1>2. CASE Look(p)
  BY <1>1, <1>2, GotoIsRecorded, MissedIsRecorded DEF Look, At, Pcs
<1>3. CASE Send(p)
  BY <1>1, <1>3, GotoIsRecorded, AnsweredIsRecorded DEF Send, AfterSend, At, Pcs
<1>4. CASE Purge(p)
  BY <1>1, <1>4, MissedIsRecorded DEF Purge, At
<1>5. CASE Find(p)
  <2>1. ~At(p, "idle") /\ press[p].left \in 0..Attempts /\ press[p].left > 0
    BY <1>5 DEF Find, At, RecordInv, RoundsInv
  <2>2. CASE Goto(p, "create")
    BY <1>1, <1>5, <2>1, <2>2, GotoIsRecorded DEF Find, Pcs
  <2>3. ASSUME NEW j, press' = [press EXCEPT ![p].pc = "join", ![p].job = j]
        PROVE  RecordInv'
    <3> DEFINE h == [press[p] EXCEPT !.pc = "join", !.job = j]
    <3>1. press[p] \in Handlers
      BY DEF IInv, PressInv
    <3>2. h.pc = "join" /\ h.left = press[p].left
          /\ h.msg = press[p].msg /\ h.out = press[p].out
      BY <3>1 DEF Handlers
    <3>3. press' = [press EXCEPT ![p] = h]
      BY <2>3 DEF IInv, PressInv
    <3> HIDE DEF h
    <3>4. QED
      BY <1>1, <1>5, <2>1, <3>2, <3>3, HandlerGoesOn DEF Find
  <2>4. QED
    BY <1>5, <2>2, <2>3 DEF Find
<1>6. CASE EndAll(p) \/ Abandon(p)
  <2> DEFINE h == Idle(None, {}, FALSE)
  <2>1. press' = [press EXCEPT ![p] = h] /\ At(p, "idle") /\ owed' = owed
    BY <1>6 DEF EndAll, Abandon
  <2>2. h.pc = "idle" /\ h.left \in 0..Attempts
    BY DEF Idle
  <2> HIDE DEF h
  <2>3. h.pc \in {"find", "join", "create"} => h.left > 0
    BY <2>2
  <2>4. QED
    BY <1>1, <2>1, <2>2, <2>3, HandlerGoesOn
<1>7. QED
  BY <1>2, <1>3, <1>4, <1>5, <1>6

\* The message of a handler joins the recipients of a job of its output.
LEMMA HeldIsRecorded ==
    ASSUME IInv, RecordInv, NEW p \in Presses, ~At(p, "idle"), NEW j \in Jobs,
           press[p].msg \notin waiting[j],
           \/ product[j] = press[p].out /\ product' = product
           \/ waiting[j] = {} /\ product' = [product EXCEPT ![j] = press[p].out],
           waiting' = Held(j, press[p].msg), Answered(p), owed' = owed, DraftsInv'
    PROVE  RecordInv'
<1>0. PICK m \in Messages, o \in Outputs : m = press[p].msg /\ o = press[p].out
  BY DEF IInv, PressInv
<1>1. /\ press \in [Presses -> Handlers]
      /\ waiting \in [Jobs -> SUBSET Messages] /\ product \in [Jobs -> Outputs \cup {None}]
  BY DEF IInv, PressInv, RowsInv
<1>2. /\ waiting'[j] = waiting[j] \cup {m} /\ product'[j] = o
      /\ \A k \in Jobs \ {j} : waiting'[k] = waiting[k] /\ product'[k] = product[k]
      /\ waiting[j] # {} => product[j] = o
  BY <1>0, <1>1 DEF Held
<1>3. \A mm \in Messages, oo \in Outputs :
          Expecting(mm, oo)' = IF mm = m /\ oo = o THEN Expecting(mm, oo) \cup {j}
                               ELSE Expecting(mm, oo)
  BY <1>1, <1>2 DEF Expecting
<1>4. j \notin Expecting(m, o)
  BY <1>0 DEF Expecting
<1>5. OwesElsewhere(m, o)
  BY <1>0, <1>3, AnsweredStopsAsking DEF OwesElsewhere
<1>6. /\ p \in Asking(m, o) /\ Asking(m, o)' = Asking(m, o) \ {p}
      /\ Expecting(m, o)' = Expecting(m, o) \cup {j}
  BY <1>0, <1>3, AnsweredStopsAsking
<1>7. OwedIsTyped' /\ OwesWhatItRecords'
  BY <1>4, <1>5, <1>6, RequestWaits
<1>8. RoundsInv'
  <2>1. press'[p].pc = "idle" /\ press'[p].left = 0
        /\ \A q \in Presses \ {p} : press'[q] = press[q]
    BY <1>1 DEF Answered, Idle
  <2>2. QED
    BY <2>1 DEF RecordInv, RoundsInv
<1>9. ProductInv'
  BY <1>1, <1>2 DEF RecordInv, ProductInv
<1>10. QED
  BY <1>7, <1>8, <1>9 DEF RecordInv

\* try_add_job_subscriber hands the request over, or answers it.
LEMMA JoinIsOwed ==
    ASSUME IInv, RecordInv, NEW p \in Presses, Join(p)
    PROVE  RecordInv'
<1>1. At(p, "join") /\ ~At(p, "idle") /\ press[p].job \in Jobs /\ DraftsInv'
  BY DEF Join, At, IInv, PressInv, RecordInv, DraftsInv
<1>2. CASE Again(p) /\ UNCHANGED <<waiting, owed>>
  BY <1>1, <1>2, AgainIsRecorded DEF Join, RowsGoOn
<1>3. CASE Answered(p) /\ Settled(press[p].msg, press[p].out) /\ UNCHANGED waiting
  BY <1>1, <1>3, AnsweredIsRecorded DEF Join, RowsGoOn
<1>4. CASE /\ StillJoinable(p) /\ press[p].msg \notin waiting[press[p].job]
           /\ waiting' = Held(press[p].job, press[p].msg)
           /\ Answered(p) /\ UNCHANGED owed
  <2>1. product[press[p].job] = press[p].out /\ product' = product
    BY <1>4 DEF Join, StillJoinable, ActiveFor
  <2>2. QED
    BY <1>1, <1>4, <2>1, HeldIsRecorded
<1>5. QED
  BY <1>2, <1>3, <1>4 DEF Join

\* create_download_job hands the request over, or answers it.
LEMMA CreateIsOwed ==
    ASSUME IInv, RecordInv, NEW p \in Presses, Create(p)
    PROVE  RecordInv'
<1>1. At(p, "create") /\ ~At(p, "idle") /\ draft' = draft
  BY DEF Create, At
<1>2. CASE Answered(p) /\ Settled(press[p].msg, press[p].out) /\ UNCHANGED rows
  BY <1>1, <1>2, AnsweredIsRecorded DEF RowsGoOn, rows, RecordInv, DraftsInv
<1>3. CASE Again(p) /\ UNCHANGED <<rows, owed>>
  BY <1>1, <1>3, AgainIsRecorded DEF RowsGoOn, rows, RecordInv, DraftsInv
<1>4. ASSUME NEW j \in Jobs, status[j] = "over",
             product' = [product EXCEPT ![j] = press[p].out],
             waiting' = Held(j, press[p].msg), Answered(p), UNCHANGED <<cache, owed>>
      PROVE  RecordInv'
  <2>1. waiting[j] = {}
    BY <1>4 DEF IInv, NobodyWaitsOnAFinishedJob
  <2>2. DraftsInv'
    BY <1>1, <1>4 DEF RecordInv, DraftsInv
  <2>3. QED
    BY <1>1, <1>4, <2>1, <2>2, HeldIsRecorded
<1>5. QED
  BY <1>2, <1>3, <1>4 DEF Create

\* A recipient's outcome settles the request.
LEMMA OutcomeIsOwed ==
    ASSUME IInv, RecordInv, NEW j \in Jobs, NEW m \in Messages,
           Serve(j, m) \/ Notify(j, m) \/ Leave(j, m)
    PROVE  RecordInv'
<1>1. /\ m \in waiting[j] /\ Outcome(j, m) /\ UNCHANGED <<draft, product, press>>
      /\ cache' = cache \/ cache' = cache \cup {product[j]}
  BY DEF Serve, Notify, Leave
<1>2. PICK o \in Outputs : o = product[j]
  BY <1>1 DEF RecordInv, ProductInv
<1>3. waiting'[j] = waiting[j] \ {m} /\ \A k \in Jobs \ {j} : waiting'[k] = waiting[k]
  BY <1>1 DEF Outcome, IInv, RowsInv
<1>4. \A mm \in Messages, oo \in Outputs :
          /\ Expecting(mm, oo)' = IF mm = m /\ oo = o THEN Expecting(mm, oo) \ {j}
                                  ELSE Expecting(mm, oo)
          /\ Asking(mm, oo)' = Asking(mm, oo)
  BY <1>1, <1>2, <1>3 DEF Expecting, Asking, At
<1>5. j \in Expecting(m, o)
  BY <1>1, <1>2 DEF Expecting
<1>6. OwesElsewhere(m, o) /\ Settled(m, o)
  BY <1>1, <1>2, <1>4 DEF OwesElsewhere, Outcome, Settled, RecordInv, OwedIsTyped
<1>7. OwedIsTyped' /\ OwesWhatItRecords'
  BY <1>4, <1>5, <1>6, RequestSettled
<1>8. ProductInv' /\ DraftsInv' /\ RoundsInv'
  BY <1>1, <1>2, <1>3 DEF RecordInv, ProductInv, DraftsInv, RoundsInv
<1>9. QED
  BY <1>7, <1>8 DEF RecordInv

\* Every other step leaves the requests alone.
LEMMA OthersAreOwed ==
    ASSUME RecordInv, UNCHANGED <<product, waiting, press, owed>>, DraftsInv'
    PROVE  RecordInv'
<1>1. \A m \in Messages, o \in Outputs : Asking(m, o)' = Asking(m, o)
  BY DEF Asking, At
<1>2. OwedIsTyped' /\ OwesWhatItRecords'
  BY <1>1, ExpectingSame, NothingSettled
<1>3. QED
  BY <1>2 DEF RecordInv, RoundsInv, ProductInv

\* Every step keeps the records.
LEMMA RecordsAreKept == IInv /\ RecordInv /\ [Next]_vars => RecordInv'
<1>1. SUFFICES ASSUME IInv, RecordInv, [Next]_vars PROVE RecordInv'
  OBVIOUS
<1>2. CASE UNCHANGED vars
  BY <1>1, <1>2, OthersAreOwed DEF vars, rows, RecordInv, DraftsInv
<1>3. ASSUME NEW p \in Presses, PressStep(p) PROVE RecordInv'
  <2>1. CASE Join(p)
    BY <1>1, <2>1, JoinIsOwed
  <2>2. CASE Create(p)
    BY <1>1, <2>2, CreateIsOwed
  <2>3. CASE Look(p) \/ Send(p) \/ Purge(p) \/ Find(p) \/ EndAll(p) \/ Abandon(p)
    BY <1>1, <2>3, LooksAreOwed
  <2>4. QED
    BY <1>3, <2>1, <2>2, <2>3 DEF PressStep
<1>4. ASSUME NEW p \in Presses, NEW m \in Messages, NEW o \in Outputs,
             PressFormat(p, m, o) \/ QueueAll(p, m, o) \/ NextChoice(p, m, o) \/ SkipChoice(p, o)
      PROVE  RecordInv'
  BY <1>1, <1>4, RequestsAreOwed
<1>5. ASSUME NEW u \in Users, PrepareAll(u) \/ CancelAll(u) PROVE RecordInv'
  BY <1>1, <1>5, OthersAreOwed DEF PrepareAll, CancelAll, rows, RecordInv, DraftsInv
<1>6. ASSUME NEW j \in Jobs, Finish(j) \/ Fail(j) PROVE RecordInv'
  BY <1>1, <1>6, OthersAreOwed DEF Finish, Fail, RecordInv, DraftsInv
<1>7. ASSUME NEW j \in Jobs, NEW m \in Messages, Serve(j, m) \/ Notify(j, m) \/ Leave(j, m)
      PROVE  RecordInv'
  BY <1>1, <1>7, OutcomeIsOwed
<1>8. ASSUME NEW o \in Outputs, Evict(o) PROVE RecordInv'
  BY <1>1, <1>8, OthersAreOwed DEF Evict, RecordInv, DraftsInv
<1>9. QED
  BY <1>1, <1>2, <1>3, <1>4, <1>5, <1>6, <1>7, <1>8 DEF Next, Step

\* At first nothing is owed.
LEMMA NothingIsOwedAtFirst == Init => RecordInv
<1>1. SUFFICES ASSUME Init PROVE RecordInv
  OBVIOUS
<1>2. /\ press = [p \in Presses |-> Idle(None, {}, FALSE)]
      /\ product = [j \in Jobs |-> None] /\ waiting = [j \in Jobs |-> {}]
      /\ owed = [m \in Messages |-> [o \in Outputs |-> 0]]
      /\ draft = {} /\ cache = {}
  BY <1>1 DEF Init
<1>3. \A m \in Messages, o \in Outputs : Asking(m, o) = {} /\ Expecting(m, o) = {}
  BY <1>2 DEF Asking, Expecting, At, Idle
<1>4. OwesWhatItRecords
  <2>1. SUFFICES ASSUME NEW m \in Messages, NEW o \in Outputs
                 PROVE  owed[m][o] = Cardinality(Asking(m, o)) + Cardinality(Expecting(m, o))
    BY OwedByCounts
  <2>2. Cardinality(Asking(m, o)) = 0 /\ Cardinality(Expecting(m, o)) = 0
    BY <1>3, FS_EmptySet
  <2>3. QED
    BY <1>2, <2>2
<1>5. OwedIsTyped /\ ProductInv /\ DraftsInv
  BY <1>2 DEF OwedIsTyped, ProductInv, DraftsInv
<1>6. RoundsInv
  BY <1>2 DEF RoundsInv, Idle
<1>7. QED
  BY <1>4, <1>5, <1>6 DEF RecordInv

-----------------------------------------------------------------------------
(***************************************************************************)
(* The theorems.                                                           *)
(***************************************************************************)
\* The invariant of the admission, over all its steps.
THEOREM InvariantHolds == Spec => []IInv
BY AtFirst, InvariantIsKept, PTL DEF Spec

\* However presses, jobs and recipients overlap, no output is downloaded by
\* two jobs at a time: create_download_job looks in its own transaction.
THEOREM OneJobPerOutput == Spec => []OneActivePerOutput
<1>1. IInv => OneActivePerOutput
  BY DEF IInv
<1>2. QED
  BY <1>1, InvariantHolds, PTL

\* Joining and creating never exceed a user's limit or the program's: both
\* are counted in the transaction that adds the row.
THEOREM LimitsAreKept == Spec => []LimitsKept
<1>1. IInv => LimitsKept
  BY DEF IInv
<1>2. QED
  BY <1>1, InvariantHolds, PTL

\* Nobody is put among the recipients of a job that is over.
THEOREM NobodyJoinsTooLate == Spec => []NobodyWaitsOnAFinishedJob
<1>1. IInv => NobodyWaitsOnAFinishedJob
  BY DEF IInv
<1>2. QED
  BY <1>1, InvariantHolds, PTL

\* Every request that was made is under way, or waits at a job, or was served,
\* refused or settled once; nobody waits at a job that is over.
THEOREM NothingIsForgotten == Spec => []RequestsAreRecorded
<1>1. Spec => []RecordInv
  <2>1. Init => RecordInv
    BY NothingIsOwedAtFirst
  <2>2. IInv /\ RecordInv /\ [Next]_vars => RecordInv'
    BY RecordsAreKept
  <2>3. QED
    BY <2>1, <2>2, InvariantHolds, PTL DEF Spec
<1>2. IInv /\ RecordInv => RequestsAreRecorded
  <2>1. SUFFICES ASSUME IInv, RecordInv PROVE RequestsAreRecorded
    OBVIOUS
  <2>2. press \in [Presses -> [pc : Pcs, msg : Messages \cup {None},
                               out : Outputs \cup {None}, job : Jobs \cup {None},
                               left : 0..Attempts, rest : SUBSET Outputs,
                               all : BOOLEAN]]
    BY <2>1 DEF IInv, PressInv, Handlers, RecordInv, RoundsInv
  <2>3. TypeOK
    BY <2>1, <2>2 DEF TypeOK, IInv, RowsInv, RecordInv, DraftsInv, OwedIsTyped
  <2>4. QED
    BY <2>1, <2>3 DEF RequestsAreRecorded, IInv, RecordInv
<1>3. QED
  BY <1>1, <1>2, InvariantHolds, PTL
=============================================================================
