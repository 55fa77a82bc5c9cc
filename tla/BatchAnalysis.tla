---------------------------- MODULE BatchAnalysis ----------------------------
(***************************************************************************)
(* A message with several links: one stored session, one managed task that *)
(* analyses the links in parallel, buttons that retry a link or stop the   *)
(* batch, and a shutdown, a crash and a restart in the middle of it.       *)
(*                                                                         *)
(* The session exists several times: the row in media_sessions, the object *)
(* that the batch's children share, and the copy that each retry loads and *)
(* later writes back whole.                                                *)
(*                                                                         *)
(* A statement of the database is one step: aiosqlite runs them in the     *)
(* order in which they were issued, also those whose caller was cancelled. *)
(***************************************************************************)
EXTENDS Naturals

CONSTANTS
    Items,         \* the links of the message
    Retries,       \* presses of "Try analysis again" that may be under way
    MaxFailures,   \* bound: saves that fail
    MaxRestarts,   \* bound: exits and crashes
    None

ASSUME ItemsAssumption == Items # {} /\ None \notin Items
ASSUME BoundsAssumption == MaxFailures \in Nat /\ MaxRestarts \in Nat

VARIABLES
    row,        \* the stored session: the status of each link, or None
    memory,     \* the session object of the batch task
    child,      \* the program counter of each link's analysis
    task,       \* the batch's asyncio task
    tasks,      \* BatchAnalysisManager._tasks has it
    marker,     \* BatchAnalysisManager._cancelled has it
    starter,    \* handle_potential_url
    retry,      \* each retry: where it is, its link, its copy of the session
    stop,       \* callback_cancel_batch_confirm
    down,       \* BotApplication.shutdown
    joined,     \* the task is among those that shutdown awaits
    failures, restarts,
    harm        \* history: what has gone wrong or overlapped

sessions == <<row, memory>>
manager == <<task, tasks, marker>>
handlers == <<starter, retry, stop>>
ending == <<down, joined, restarts>>
vars == <<sessions, child, manager, handlers, ending, failures, harm>>

Statuses == {"waiting", "analyzing", "ready", "failed"}
Session == [Items -> Statuses]
ChildPcs == {"new", "say1", "lease", "say2", "extract", "say3", "last", "stopping", "end"}
RetryPcs == {"idle", "open", "extract", "save"}
Harms == {"reply", "save", "overlap", "restart", "late"}

Resting == [pc |-> "idle", item |-> None, copy |-> None]

TypeOK ==
    /\ row \in Session \cup {None}
    /\ memory \in Session
    /\ child \in [Items -> ChildPcs]
    /\ task \in {"none", "running", "over"}
    /\ tasks \in BOOLEAN /\ marker \in BOOLEAN
    /\ starter \in {"idle", "reply", "over"}
    /\ retry \in [Retries -> [pc : RetryPcs, item : Items \cup {None},
                              copy : Session \cup {None}]]
    /\ stop \in {"idle", "cancel", "await", "delete", "over"}
    /\ down \in {"up", "batches", "handlers", "closed"}
    /\ joined \in BOOLEAN
    /\ failures \in 0..MaxFailures /\ restarts \in 0..MaxRestarts
    /\ harm \subseteq Harms

Init ==
    /\ row = None /\ memory = [i \in Items |-> "waiting"]
    /\ child = [i \in Items |-> "new"]
    /\ task = "none" /\ tasks = FALSE /\ marker = FALSE
    /\ starter = "idle" /\ retry = [r \in Retries |-> Resting] /\ stop = "idle"
    /\ down = "up" /\ joined = FALSE
    /\ failures = 0 /\ restarts = 0 /\ harm = {}

Running == task = "running"
AtWork == {i \in Items : child[i] \notin {"new", "stopping", "end"}}
Retrying(r) == retry[r].pc # "idle"
Stopping == stop \notin {"idle", "over"}

-----------------------------------------------------------------------------
(***************************************************************************)
(* The mutated forms                                                       *)
(***************************************************************************)
TrackedIfOver == tasks /\ ~Running
GatheredFirst == \E i \in Items : child[i] = "end"
OutcomesUnreported == {"ready", "analyzing"}
ExtractInTurn(i) ==
    /\ child[i] = "extract"
    /\ \A k \in Items \ {i} : child[k] # "extract"
    /\ memory' = [memory EXCEPT ![i] = "failed"]
    /\ child' = [child EXCEPT ![i] = "last"]
    /\ UNCHANGED <<row, manager, starter, retry, stop, ending, failures, harm>>

-----------------------------------------------------------------------------
(***************************************************************************)
(* handle_potential_url, several links                                     *)
(***************************************************************************)
AllWaiting == [i \in Items |-> "waiting"]

SaveSession ==
    /\ starter = "idle" /\ down = "up"
    /\ row' = AllWaiting /\ memory' = AllWaiting
    /\ starter' = "reply"
    /\ UNCHANGED <<child, manager, retry, stop, ending, failures, harm>>

\* The status card is sent; then BatchAnalysisManager.start.  The session id
\* is fresh, so that start finds no other task under it.
Start ==
    /\ starter = "reply"
    /\ starter' = "over"
    /\ task' = "running" /\ tasks' = TRUE /\ marker' = FALSE
    /\ child' = [i \in Items |-> "say1"]
    /\ harm' = IF down = "up" THEN harm ELSE harm \cup {"late"}
    /\ UNCHANGED <<sessions, retry, stop, ending, failures>>

ReplyFails ==
    /\ starter = "reply"
    /\ starter' = "over"
    /\ harm' = harm \cup {"reply"}
    /\ UNCHANGED <<sessions, child, manager, retry, stop, ending, failures>>

-----------------------------------------------------------------------------
(***************************************************************************)
(* _analyze_batch: one child for each link                                 *)
(***************************************************************************)
Goto(i, pc) == child' = [child EXCEPT ![i] = pc]
Note(i, status) == memory' = [memory EXCEPT ![i] = status]

Publishing(i) == child[i] \in {"say1", "say2", "say3", "last"}
NextPc(i) == CASE child[i] = "say1" -> "lease"
               [] child[i] = "say2" -> "extract"
               [] OTHER -> "end"

\* publish() stores the whole session, unless the batch is being stopped.
MayPublish(i) == ~marker
Publish(i) ==
    /\ Publishing(i)
    /\ row' = IF MayPublish(i) THEN memory ELSE row
    /\ Goto(i, NextPc(i))
    /\ UNCHANGED <<memory, manager, handlers, ending, failures, harm>>

\* The save raises.  Within the try block, the link has failed, and that is
\* published; outside of it the exception ends the gathering task, and the
\* other children go on without one.
PublishFails(i) ==
    /\ Publishing(i) /\ ~marker
    /\ failures < MaxFailures
    /\ failures' = failures + 1
    /\ harm' = harm \cup {"save"}
    /\ \/ /\ child[i] \in {"say2", "say3"}
          /\ Note(i, "failed") /\ Goto(i, "last")
          /\ UNCHANGED task
       \/ /\ child[i] \in {"say1", "last"}
          /\ Goto(i, "end")
          /\ task' = "over"
          /\ UNCHANGED memory
    /\ UNCHANGED <<row, tasks, marker, handlers, ending>>

\* The wait for an extraction lease ends: with one, or with access revoked.
Lease(i) ==
    /\ child[i] = "lease"
    /\ \/ Note(i, "analyzing") /\ Goto(i, "say2")
       \/ Note(i, "failed") /\ Goto(i, "say3")
    /\ UNCHANGED <<row, manager, handlers, ending, failures, harm>>

Outcomes == {"ready", "failed"}
Extract(i) ==
    /\ child[i] = "extract"
    /\ \/ marker /\ Goto(i, "end") /\ UNCHANGED memory
       \/ /\ ~marker
          /\ \E status \in Outcomes :
                /\ Note(i, status)
                /\ Goto(i, IF status = "failed" THEN "last" ELSE "say3")
    /\ UNCHANGED <<row, manager, handlers, ending, failures, harm>>

\* A cancelled child gives back its lease, reaps its process and ends.
ChildStops(i) ==
    /\ child[i] = "stopping"
    /\ Goto(i, "end")
    /\ UNCHANGED <<sessions, manager, handlers, ending, failures, harm>>

\* gather() returns when all children have ended, or with the first that was
\* cancelled, the others still cleaning up.
Gathered ==
    \/ \A i \in Items : child[i] = "end"
    \/ \E i, k \in Items : child[i] = "end" /\ child[k] = "stopping"

TaskEnds ==
    /\ Running /\ Gathered
    /\ task' = "over"
    /\ UNCHANGED <<sessions, child, tasks, marker, handlers, ending, failures, harm>>

-----------------------------------------------------------------------------
(***************************************************************************)
(* BatchAnalysisManager                                                    *)
(***************************************************************************)
Forget == tasks' = FALSE /\ marker' = FALSE

OnDone ==
    /\ task = "over" /\ tasks
    /\ Forget
    /\ UNCHANGED <<sessions, child, task, handlers, ending, failures, harm>>

\* task.cancel() reaches every child that has not ended, at once.
Stopped(c) == IF c = "end" THEN "end" ELSE "stopping"
CancelTask ==
    child' = IF Running THEN [i \in Items |-> Stopped(child[i])] ELSE child

-----------------------------------------------------------------------------
(***************************************************************************)
(* The buttons: stop the batch, retry a link                               *)
(***************************************************************************)
Overlap(cond) == harm' = IF cond THEN harm \cup {"overlap"} ELSE harm

ConfirmStop ==
    /\ stop = "idle" /\ down = "up"
    /\ row # None
    /\ stop' = "cancel"
    /\ Overlap(starter = "reply" \/ \E r \in Retries : Retrying(r))
    /\ UNCHANGED <<sessions, child, manager, starter, retry, ending, failures>>

Tracked == tasks
MarkerOfNoTask == FALSE

\* BatchAnalysisManager.cancel, up to its await.
Cancel ==
    /\ stop = "cancel"
    /\ \/ /\ Tracked
          /\ marker' = TRUE /\ CancelTask /\ stop' = "await"
       \/ /\ ~Tracked
          /\ marker' = MarkerOfNoTask /\ stop' = "delete" /\ UNCHANGED child
    /\ UNCHANGED <<sessions, task, tasks, starter, retry, ending, failures, harm>>

Cancelled ==
    /\ stop = "await" /\ ~Running
    /\ Forget
    /\ stop' = "delete"
    /\ UNCHANGED <<sessions, child, task, starter, retry, ending, failures, harm>>

DeleteSession ==
    /\ stop = "delete"
    /\ row' = None
    /\ stop' = "over"
    /\ UNCHANGED <<memory, child, manager, starter, retry, ending, failures, harm>>

Busy(r) == Running \/ Stopping \/ \E q \in Retries \ {r} : Retrying(q)

\* retry_batch_item loads the session, answers, and only then saves it.
Retry(r, i) ==
    /\ ~Retrying(r) /\ down = "up"
    /\ row # None
    /\ row[i] = "failed"
    /\ retry' = [retry EXCEPT ![r] =
                    [pc |-> "open", item |-> i, copy |-> [row EXCEPT ![i] = "analyzing"]]]
    /\ Overlap(Busy(r))
    /\ UNCHANGED <<sessions, child, manager, starter, stop, ending, failures>>

SaveCopy(r, pc) ==
    /\ row' = retry[r].copy
    /\ retry' = [retry EXCEPT ![r] = IF pc = "idle" THEN Resting ELSE [@ EXCEPT !.pc = pc]]
    /\ UNCHANGED <<memory, child, manager, starter, stop, ending, failures, harm>>

RetryShows(r) == retry[r].pc = "open" /\ SaveCopy(r, "extract")
RetryEnds(r) == retry[r].pc = "save" /\ SaveCopy(r, "idle")

\* However the analysis ends, the link is ready or has failed.
RetryExtracts(r) ==
    /\ retry[r].pc = "extract"
    /\ \E status \in Outcomes :
          retry' = [retry EXCEPT ![r].pc = "save", ![r].copy[retry[r].item] = status]
    /\ UNCHANGED <<sessions, child, manager, starter, stop, ending, failures, harm>>

RetryFails(r) ==
    /\ retry[r].pc \in {"open", "save"}
    /\ failures < MaxFailures
    /\ failures' = failures + 1
    /\ harm' = harm \cup {"save"}
    /\ retry' = [retry EXCEPT ![r] = Resting]
    /\ UNCHANGED <<sessions, child, manager, starter, stop, ending>>

-----------------------------------------------------------------------------
(***************************************************************************)
(* The end of the program                                                  *)
(***************************************************************************)
\* BotApplication.shutdown ends the batches first; handlers are still at work.
Shutdown ==
    /\ down = "up" /\ restarts < MaxRestarts
    /\ down' = "batches"
    /\ joined' = tasks
    /\ IF tasks THEN CancelTask ELSE UNCHANGED child
    /\ UNCHANGED <<sessions, manager, handlers, restarts, failures, harm>>

Awaited == joined => ~Running
BatchesAreDown ==
    /\ down = "batches" /\ Awaited
    /\ Forget
    /\ down' = "handlers"
    /\ UNCHANGED <<sessions, child, task, handlers, joined, restarts, failures, harm>>

HandlersEnd ==
    starter' = "over" /\ stop' = "over" /\ retry' = [r \in Retries |-> Resting]
HandlersAreDown ==
    /\ down = "handlers"
    /\ down' = "closed"
    /\ HandlersEnd
    /\ UNCHANGED <<sessions, child, manager, joined, restarts, failures, harm>>

\* The program exits, or is killed at any time, and starts again: the row is
\* all that is left, and nothing takes the analysis up.
Restart ==
    /\ restarts < MaxRestarts
    /\ restarts' = restarts + 1
    /\ child' = [i \in Items |-> "end"]
    /\ task' = "none" /\ tasks' = FALSE /\ marker' = FALSE
    /\ starter' = "over" /\ stop' = "idle" /\ retry' = [r \in Retries |-> Resting]
    /\ down' = "up" /\ joined' = FALSE
    /\ harm' = harm \cup {"restart"}
    /\ UNCHANGED <<sessions, failures>>

ChildStep(i) == Publish(i) \/ Lease(i) \/ Extract(i) \/ ChildStops(i)
RetryStep(r) == RetryShows(r) \/ RetryExtracts(r) \/ RetryEnds(r)
StopStep == Cancel \/ Cancelled \/ DeleteSession
ManagerStep == TaskEnds \/ OnDone
EndStep == BatchesAreDown \/ HandlersAreDown

Next ==
    \/ SaveSession \/ Start \/ ReplyFails
    \/ \E i \in Items : ChildStep(i) \/ PublishFails(i)
    \/ ManagerStep
    \/ ConfirmStop \/ StopStep
    \/ \E r \in Retries : RetryStep(r) \/ RetryFails(r) \/ \E i \in Items : Retry(r, i)
    \/ Shutdown \/ EndStep \/ Restart

\* Extractions have a timeout, and a lease is given in the end (StageLeases);
\* the event loop runs whatever is ready.  Nobody has to press a button.
Spec ==
    /\ Init /\ [][Next]_vars
    /\ WF_vars(Start) /\ WF_vars(ManagerStep) /\ WF_vars(StopStep) /\ WF_vars(EndStep)
    /\ \A i \in Items : WF_vars(ChildStep(i))
    /\ \A r \in Retries : WF_vars(RetryStep(r))

-----------------------------------------------------------------------------
(***************************************************************************)
(* Properties                                                              *)
(***************************************************************************)
Pending(i) == row # None /\ row[i] \in {"waiting", "analyzing"}
Worked(i) ==
    \/ starter = "reply"
    \/ child[i] \in {"say1", "lease", "say2", "extract", "say3", "last"}
    \/ \E r \in Retries : Retrying(r) /\ retry[r].item = i
    \/ Stopping

\* The batch's card and the page of a link say of a link that waits or is
\* being analysed: "Analysis continues automatically. No resend is needed."
\* Somebody works on it, or the batch is about to be deleted (or the card
\* that says so was never sent).
AnalysisContinues ==
    \A i \in Items : Pending(i) => Worked(i) \/ "reply" \in harm

\* AnalysisContinues holds as long as no save fails, the program was neither
\* ended nor killed, and no retry overlapped with the batch, with another
\* retry or with a stop, nor a stop with the start.
ContinuesUnlessDisturbed ==
    harm = {} /\ down = "up" => AnalysisContinues

\* A stopped batch is gone: nothing that its children had under way brings
\* the session back after it was deleted.
StopIsFinal ==
    stop = "over" /\ down = "up" /\ harm \cap {"overlap", "save"} = {}
        => row = None

\* When the managed task is over, its children have ended or are cleaning up
\* after their cancellation: none is left that would still publish.
EndsWithItsChildren ==
    task = "over" /\ "save" \notin harm => AtWork = {}

\* cancel() leaves no marker behind by which a later batch would be taken for
\* a stopped one: a marker means that the stop is under way.
MarkerWhileStopping == marker /\ down = "up" => tasks /\ stop = "await"

\* A stop is for this batch and for good: the session stays deleted, and no
\* marker outlives the stop.
StoppedForGood == StopIsFinal /\ MarkerWhileStopping

\* After shutdown neither a batch nor a retry is at work on the database that
\* is about to be closed, unless its handler started it when shutdown had already begun, or
\* a failed save had separated the children from their task.
NothingWorksAfterShutdown ==
    down = "closed" /\ harm \cap {"late", "save"} = {}
        => AtWork = {} /\ \A r \in Retries : ~Retrying(r)

\* A batch ends as a whole, with its task and with the program.
EndsAsAWhole == TypeOK /\ EndsWithItsChildren /\ NothingWorksAfterShutdown

\* A link is analysed to an end, as long as nothing of the above disturbs it.
EveryLinkIsSettled ==
    \A i \in Items :
        Pending(i) ~> (~Pending(i) \/ harm # {} \/ down # "up")
=============================================================================
