----------------------------- MODULE Admission ------------------------------
(***************************************************************************)
(* From a button to a job: submit_exact_selection and what it calls.       *)
(*                                                                         *)
(* A press asks for one output to be sent to one message's chat; a press   *)
(* of "queue all" goes through the choices of a saved draft.  The press    *)
(* tries the file cache, an active job of the same output, a job of its    *)
(* own, three times over.  Meanwhile other presses do the same, jobs run,  *)
(* deliver, fail and are swept, and cache entries come and go.  Access, the *)
(* pause flag and sessions change at any time: a check of one of them may  *)
(* find anything.                                                          *)
(*                                                                         *)
(* What becomes of an admitted job is JobLifecycle's matter: here it       *)
(* starts, serves and ends at will.                                        *)
(***************************************************************************)
EXTENDS Naturals, FiniteSets

CONSTANTS
    Users, Messages, Outputs, Jobs,
    Presses,     \* callback handlers that may be under way at once
    Owner,       \* the user whose chat a message is in
    Choices,     \* the outputs that a "queue all" draft lists
    UserLimit,   \* max_queued_jobs_per_user
    TotalLimits, \* values that max_total_queued_jobs may have
    Attempts,    \* rounds of the loop of submit_exact_selection
    MaxOwed,     \* bound: requests of one output for one message at a time
    None         \* no message, no output, no job

ASSUME OwnerAssumption == Owner \in [Messages -> Users]
ASSUME LimitAssumption ==
    /\ UserLimit \in Nat \ {0} /\ TotalLimits \subseteq Nat \ {0}
    /\ MaxOwed \in Nat \ {0} /\ Attempts \in Nat \ {0}
    /\ Choices \subseteq Outputs
    /\ IsFiniteSet(Jobs) /\ IsFiniteSet(Presses)
    /\ None \notin Messages \cup Outputs \cup Jobs

VARIABLES
    totalLimit, \* max_total_queued_jobs
    draft,     \* users with a download-all draft
    cache,     \* the outputs with a row in telegram_file_cache
    status,    \* of each job: active, ending, over
    product,   \* the output each job makes
    waiting,   \* job_subscribers: the messages that wait at each job
    press,     \* each handler under way
    owed       \* history: requests not yet served, refused or settled

rows == <<cache, status, product, waiting>>
vars == <<totalLimit, draft, rows, press, owed>>

Pcs == {"idle", "look", "send", "purge", "find", "join", "create"}
Statuses == {"active", "ending", "over"}

\* Between two requests: a handler of "queue all" has choices left, or is
\* about to delete its draft; any other is done.
Idle(m, rest, all) ==
    [pc |-> "idle", msg |-> IF all THEN m ELSE None, out |-> None, job |-> None,
     left |-> 0, rest |-> rest, all |-> all]

TypeOK ==
    /\ totalLimit \in TotalLimits
    /\ draft \subseteq Users
    /\ cache \subseteq Outputs
    /\ status \in [Jobs -> Statuses]
    /\ product \in [Jobs -> Outputs \cup {None}]
    /\ waiting \in [Jobs -> SUBSET Messages]
    /\ press \in [Presses -> [pc : Pcs, msg : Messages \cup {None},
                              out : Outputs \cup {None}, job : Jobs \cup {None},
                              left : 0..Attempts, rest : SUBSET Outputs,
                              all : BOOLEAN]]
    /\ owed \in [Messages -> [Outputs -> 0..MaxOwed]]

Init ==
    /\ totalLimit \in TotalLimits
    /\ draft = {}
    /\ cache = {}
    /\ status = [j \in Jobs |-> "over"]
    /\ product = [j \in Jobs |-> None]
    /\ waiting = [j \in Jobs |-> {}]
    /\ press = [p \in Presses |-> Idle(None, {}, FALSE)]
    /\ owed = [m \in Messages |-> [o \in Outputs |-> 0]]

Active(j) == status[j] = "active"
ActiveFor(o) == {j \in Jobs : Active(j) /\ product[j] = o}
ActiveJobs == {j \in Jobs : Active(j)}

\* Several recipients of one user at one job are one active job of theirs.
CountActiveJobsForUser(u) ==
    Cardinality({j \in ActiveJobs : \E m \in waiting[j] : Owner[m] = u})

At(p, pc) == press[p].pc = pc
Goto(p, pc) == press' = [press EXCEPT ![p].pc = pc]

\* The handler is done with this request: it ends, or goes on to the next
\* choice of its draft with a status message of its own.
Answered(p) ==
    press' = [press EXCEPT ![p] = Idle(@.msg, @.rest, @.all)]
Settled(m, o) == owed' = [owed EXCEPT ![m][o] = @ - 1]

-----------------------------------------------------------------------------
(***************************************************************************)
(* The mutated forms                                                       *)
(***************************************************************************)
MayCreateUnindexed(p) == TRUE
UserHasRoomOffByOne(u) == CountActiveJobsForUser(u) <= UserLimit
StillJoinableUnchecked(p) == TRUE

-----------------------------------------------------------------------------
(***************************************************************************)
(* submit_exact_selection                                                  *)
(***************************************************************************)

\* Access, the pause flag, the session and the delivery limits are checked
\* first; a press that fails there leaves nothing behind and is left out.
Begins(p, m, o, rest, all) ==
    /\ owed[m][o] < MaxOwed
    /\ press' = [press EXCEPT ![p] = [pc |-> "look", msg |-> m, out |-> o, job |-> None,
                                      left |-> Attempts, rest |-> rest, all |-> all]]
    /\ owed' = [owed EXCEPT ![m][o] = @ + 1]
    /\ UNCHANGED <<draft, rows>>

PressFormat(p, m, o) ==
    /\ At(p, "idle") /\ ~press[p].all
    /\ Begins(p, m, o, {}, FALSE)

\* "Queue all": the draft is read, not consumed; each choice is submitted.
QueueAll(p, m, o) ==
    /\ At(p, "idle") /\ ~press[p].all
    /\ Owner[m] \in draft
    /\ o \in Choices
    /\ Begins(p, m, o, Choices \ {o}, TRUE)

NextChoice(p, m, o) ==
    /\ At(p, "idle") /\ o \in press[p].rest
    /\ Owner[m] = Owner[press[p].msg]
    /\ Begins(p, m, o, press[p].rest \ {o}, TRUE)

\* A choice whose session has gone counts as failed, without a submission.
SkipChoice(p, o) ==
    /\ At(p, "idle") /\ o \in press[p].rest
    /\ press' = [press EXCEPT ![p].rest = @ \ {o}]
    /\ UNCHANGED <<draft, rows, owed>>

\* The draft goes when all its choices have been submitted.
EndAll(p) ==
    /\ At(p, "idle") /\ press[p].all /\ press[p].rest = {}
    /\ draft' = draft \ {Owner[press[p].msg]}
    /\ press' = [press EXCEPT ![p] = Idle(None, {}, FALSE)]
    /\ UNCHANGED <<rows, owed>>

\* A Telegram error between two choices ends the handler, the draft stays.
Abandon(p) ==
    /\ At(p, "idle") /\ press[p].all
    /\ press' = [press EXCEPT ![p] = Idle(None, {}, FALSE)]
    /\ UNCHANGED <<draft, rows, owed>>

\* The cache had nothing: the loop goes on, or the last look was in vain.
Missed(p) ==
    \/ press[p].left > 0 /\ Goto(p, "find") /\ UNCHANGED owed
    \/ press[p].left = 0 /\ Answered(p) /\ Settled(press[p].msg, press[p].out)

\* get_cached_file_by_execution_identity.
Look(p) ==
    /\ At(p, "look")
    /\ \/ press[p].out \in cache /\ Goto(p, "send") /\ UNCHANGED owed
       \/ press[p].out \notin cache /\ Missed(p)
    /\ UNCHANGED <<draft, rows>>

AfterSend(p) == Answered(p)

\* Telegram takes the file reference, or the call fails for whatever reason.
Send(p) ==
    /\ At(p, "send")
    /\ \/ AfterSend(p) /\ Settled(press[p].msg, press[p].out)
       \/ Goto(p, "purge") /\ UNCHANGED owed
    /\ UNCHANGED <<draft, rows>>

\* invalidate_cached_file goes by the output: a row saved since goes too.
Purge(p) ==
    /\ At(p, "purge")
    /\ cache' = cache \ {press[p].out}
    /\ Missed(p)
    /\ UNCHANGED <<draft, status, product, waiting>>

Find(p) ==
    /\ At(p, "find")
    /\ \/ \E j \in ActiveFor(press[p].out) :
             press' = [press EXCEPT ![p].pc = "join", ![p].job = j]
       \/ ActiveFor(press[p].out) = {} /\ Goto(p, "create")
    /\ UNCHANGED <<draft, rows, owed>>

FewerAttempts(p) == press[p].left - 1
Again(p) ==
    press' = [press EXCEPT ![p].pc = "look", ![p].job = None, ![p].left = FewerAttempts(p)]

StillJoinable(p) == press[p].job \in ActiveFor(press[p].out)
UserHasRoom(u) == CountActiveJobsForUser(u) < UserLimit
Held(j, m) == [waiting EXCEPT ![j] = @ \cup {m}]

\* try_add_job_subscriber, one transaction: the job is looked at again.
Join(p) ==
    LET j == press[p].job  m == press[p].msg  o == press[p].out IN
    /\ At(p, "join")
    /\ \/ ~StillJoinable(p) /\ Again(p) /\ UNCHANGED <<waiting, owed>>
       \/ /\ StillJoinable(p) /\ m \in waiting[j]
          /\ Answered(p) /\ Settled(m, o) /\ UNCHANGED waiting
       \/ /\ StillJoinable(p) /\ m \notin waiting[j] /\ ~UserHasRoom(Owner[m])
          /\ Answered(p) /\ Settled(m, o) /\ UNCHANGED waiting
       \/ /\ StillJoinable(p) /\ m \notin waiting[j] /\ UserHasRoom(Owner[m])
          /\ waiting' = Held(j, m)
          /\ Answered(p) /\ UNCHANGED owed
    /\ UNCHANGED <<draft, cache, status, product>>

MayCreate(p) == ActiveFor(press[p].out) = {}

\* create_download_job, one transaction: limits, session, unique index.  A
\* name of a job that is over stands for the name of the new one.
Create(p) ==
    LET m == press[p].msg  o == press[p].out
        room == UserHasRoom(Owner[m]) /\ Cardinality(ActiveJobs) < totalLimit
    IN
    /\ At(p, "create")
    /\ \/ /\ ~room
          /\ Answered(p) /\ Settled(m, o) /\ UNCHANGED rows
       \/ /\ room      \* the session has gone
          /\ Answered(p) /\ Settled(m, o) /\ UNCHANGED rows
       \/ /\ room /\ ~MayCreate(p)
          /\ Again(p) /\ UNCHANGED <<rows, owed>>
       \/ /\ room /\ MayCreate(p)
          /\ \E j \in Jobs :
                /\ status[j] = "over" /\ \A q \in Presses : press[q].job # j
                /\ status' = [status EXCEPT ![j] = "active"]
                /\ product' = [product EXCEPT ![j] = o]
                /\ waiting' = Held(j, m)
          /\ Answered(p)
          /\ UNCHANGED <<cache, owed>>
    /\ UNCHANGED draft

-----------------------------------------------------------------------------
(***************************************************************************)
(* Jobs, seen from here                                                    *)
(***************************************************************************)
Outcome(j, m) ==
    /\ waiting' = [waiting EXCEPT ![j] = @ \ {m}]
    /\ Settled(m, product[j])

\* A recipient is served; an upload (not a resend) is saved in the cache.
Serve(j, m) ==
    /\ Active(j) /\ m \in waiting[j]
    /\ Outcome(j, m)
    /\ cache' \in {cache, cache \cup {product[j]}}
    /\ UNCHANGED <<draft, status, product, press>>

Finish(j) ==
    /\ Active(j) /\ waiting[j] = {}
    /\ status' = [status EXCEPT ![j] = "over"]
    /\ UNCHANGED <<draft, cache, product, waiting, press, owed>>

Ended(j, W) == [status EXCEPT ![j] = IF W = {} THEN "over" ELSE "ending"]

\* A failure or a cancel: the job's row first, its recipients afterwards.
Fail(j) ==
    /\ Active(j)
    /\ status' = Ended(j, waiting[j])
    /\ UNCHANGED <<draft, cache, product, waiting, press, owed>>

Notify(j, m) ==
    /\ status[j] = "ending" /\ m \in waiting[j]
    /\ Outcome(j, m)
    /\ status' = Ended(j, waiting[j] \ {m})
    /\ UNCHANGED <<draft, cache, product, press>>

\* cancel_subscriber: the last one to leave ends the job.
Leave(j, m) ==
    /\ m \in waiting[j]
    /\ Outcome(j, m)
    /\ status' = IF waiting[j] = {m} THEN Ended(j, {}) ELSE status
    /\ UNCHANGED <<draft, cache, product, press>>

\* Retention evicts a row.
Evict(o) ==
    /\ o \in cache
    /\ cache' = cache \ {o}
    /\ UNCHANGED <<draft, status, product, waiting, press, owed>>

-----------------------------------------------------------------------------
(***************************************************************************)
(* Drafts                                                                  *)
(***************************************************************************)
PrepareAll(u) ==
    /\ draft' = draft \cup {u}
    /\ UNCHANGED <<rows, press, owed>>

CancelAll(u) ==
    /\ u \in draft
    /\ draft' = draft \ {u}
    /\ UNCHANGED <<rows, press, owed>>

PressStep(p) ==
    \/ Look(p) \/ Send(p) \/ Purge(p) \/ Find(p)
    \/ Join(p) \/ Create(p) \/ EndAll(p) \/ Abandon(p)

Step ==
    \/ \E p \in Presses : PressStep(p)
    \/ \E p \in Presses, m \in Messages, o \in Outputs :
          \/ PressFormat(p, m, o) \/ QueueAll(p, m, o)
          \/ NextChoice(p, m, o) \/ SkipChoice(p, o)
    \/ \E u \in Users : PrepareAll(u) \/ CancelAll(u)
    \/ \E j \in Jobs : Finish(j) \/ Fail(j)
    \/ \E j \in Jobs, m \in Messages : Serve(j, m) \/ Notify(j, m) \/ Leave(j, m)
    \/ \E o \in Outputs : Evict(o)

Next == Step /\ UNCHANGED totalLimit

Spec == Init /\ [][Next]_vars

-----------------------------------------------------------------------------
(***************************************************************************)
(* Properties                                                              *)
(***************************************************************************)
\* However presses overlap, an output is downloaded by one job at a time.
OneActivePerOutput ==
    \A j, k \in ActiveJobs : product[j] = product[k] => j = k

\* Joining, creating and queueing all in parallel never exceed the limits.
LimitsKept ==
    /\ Cardinality(ActiveJobs) <= totalLimit
    /\ \A u \in Users : CountActiveJobsForUser(u) <= UserLimit

\* A press whose job ends between find_active_job_by_identity and
\* try_add_job_subscriber is not put among the recipients of a job that is
\* over, where nobody would ever serve it.
NobodyWaitsOnAFinishedJob ==
    \A j \in Jobs : status[j] = "over" => waiting[j] = {}

\* What the bot owes is what it has on record: every request that was made
\* is under way, or waits at a job, or was served, refused or settled, once.
OwesWhatItRecords ==
    \A m \in Messages, o \in Outputs :
        owed[m][o] =
            Cardinality({p \in Presses : press[p].msg = m /\ press[p].out = o
                                          /\ ~At(p, "idle")})
            + Cardinality({j \in Jobs : product[j] = o /\ m \in waiting[j]})

\* Nothing is forgotten and nobody waits in vain, however presses race with
\* each other and with the ends of jobs.
RequestsAreRecorded == TypeOK /\ NobodyWaitsOnAFinishedJob /\ OwesWhatItRecords
=============================================================================
