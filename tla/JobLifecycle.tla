---------------------------- MODULE JobLifecycle ----------------------------
(***************************************************************************)
(* One download job and everybody who touches it: the scheduler task that  *)
(* executes it (jobqueue/scheduler.py), the recipients who share it, their *)
(* cancel buttons, the administrator's cancel operations, retention, and   *)
(* shutdown, crash and recovery (bot/main.py, jobqueue/manager.py).        *)
(*                                                                         *)
(* Control in the program moves only at an await, and every statement or   *)
(* transaction sent to SQLite is atomic.  An action below is therefore the *)
(* code between two awaits, with the one database statement it contains.   *)
(*                                                                         *)
(* Data left out: sizes, progress figures, texts and message ids, and the  *)
(* Telegram file id (a cached resend and a fresh upload are both a send).  *)
(* DOWNLOADING_VIDEO and DOWNLOADING_AUDIO are the one status              *)
(* "downloading", and both transfers the one stage "downloading".          *)
(***************************************************************************)
EXTENDS Naturals, FiniteSets

CONSTANTS
    Recipients,    \* rows of job_subscribers that may come to exist for the job
    Admin,         \* the administrator's cancel operation
    NoOne,         \* "no recipient is being served"
    AdminActs,     \* which of the administrator's operations are in use
    SeparateAudio, \* whether the selection has a companion audio to be merged
    MaxRestarts    \* bound: shutdowns and crashes in a behaviour

ASSUME RecipientsAssumption ==
    Admin \notin Recipients /\ NoOne \notin Recipients
ASSUME FlagsAssumption ==
    AdminActs \subseteq {"cancel", "sweep"} /\ SeparateAudio \in BOOLEAN
ASSUME MaxRestartsAssumption == MaxRestarts \in Nat

VARIABLES
    status,      \* download_jobs.status
    sub,         \* job_subscribers.status of each recipient
    reserved,    \* the job has a row in disk_reservations
    files,       \* what the job directory holds
    sent,        \* history: how often Telegram took the media for each recipient
    mode,        \* the process: up, draining and stopping (shutdown), down
    restarts,    \* history: shutdowns and crashes so far
    pc,          \* where the job's scheduler task is; "none" without a task
    interrupted, \* task.cancel() was called and is not yet delivered
    view,        \* the task's in-memory job.status
    todo,        \* recipients listed for this upload round, not yet visited
    cur,         \* the recipient being served
    anyDelivered,\* the task's delivered_any
    final,       \* the status finalize_delivery_if_idle returned
    terminal,    \* the task's terminal flag
    dispatcher,  \* the dispatch loop: idle, or between claim and create_task
    hpc,         \* where each cancel handler is
    sweep        \* cancel_all_waiting_jobs: idle, or between its statements

durable == <<status, sub, reserved, files>>
locals  == <<view, todo, cur, anyDelivered, final, terminal>>
service == <<mode, restarts, dispatcher, hpc, sweep>>
vars == <<durable, sent, service, pc, interrupted, locals>>

-----------------------------------------------------------------------------
(***************************************************************************)
(* Statuses                                                                *)
(***************************************************************************)
Active == {"queued", "claimed", "waiting_resources", "downloading",
           "merging", "uploading"}
Terminal == {"completed", "failed", "cancelled"}
JobStatus == Active \cup Terminal

Outcome == {"delivered", "failed", "cancelled"}
SubStatus == {"absent", "waiting"} \cup Outcome

\* A transfer fills part files and renames them when they are whole.  FFmpeg
\* writes the merged file under its final name from the start.
FileStates == {"none", "parts", "streams", "unfinished_merge", "merged"}
FinishedFile == IF SeparateAudio THEN "merged" ELSE "streams"

Waiting == {r \in Recipients : sub[r] = "waiting"}
Known == {r \in Recipients : sub[r] # "absent"}

Cancellers == Recipients \cup {Admin}

\* Where the task is inside the try block of execute_job, inside one of its
\* except clauses, and inside its finally clause.
TryPcs ==
    {"formats", "check", "download_lease", "reserve", "check_download",
     "download_status", "download_save", "downloading", "merge_check",
     "merge_lease", "merge_reserve", "merge_status", "merge_save", "merging",
     "upload_check", "upload_lease", "upload_status", "upload_save", "list",
     "pick", "send", "mark_delivered", "mark_failed", "round_save",
     "finalize", "reread", "notify_end", "wait_status", "wait_save"}
ExceptPcs ==
    {"requeue_read", "requeue_save", "deny_status", "deny_save",
     "fail_read", "fail_status", "fail_save", "notify_failed"}
FinallyPcs == {"final_read", "release", "cleanup"}
Pcs == {"none", "begin"} \cup TryPcs \cup ExceptPcs \cup FinallyPcs

HandlerPcs == {"idle", "count", "get", "save", "kill", "reap", "release",
               "clean", "notify"}

TypeOK ==
    /\ status \in JobStatus
    /\ sub \in [Recipients -> SubStatus]
    /\ reserved \in BOOLEAN
    /\ files \in FileStates
    /\ sent \in [Recipients -> Nat]
    /\ mode \in {"up", "draining", "stopping", "down"}
    /\ restarts \in 0..MaxRestarts
    /\ pc \in Pcs
    /\ interrupted \in BOOLEAN
    /\ view \in JobStatus \cup {"none"}
    /\ view = "none" => pc \in {"none", "begin"}
    /\ todo \in SUBSET Recipients
    /\ cur \in Recipients \cup {NoOne}
    /\ anyDelivered \in BOOLEAN
    /\ final \in JobStatus \cup {"none"}
    /\ terminal \in BOOLEAN
    /\ dispatcher \in {"idle", "claimed"}
    /\ hpc \in [Cancellers -> HandlerPcs]
    /\ sweep \in {"idle", "subscribers"}

-----------------------------------------------------------------------------
(***************************************************************************)
(* The database statements (storage/database.py)                           *)
(***************************************************************************)

\* Mutated form: an UPDATE without the guard on a cancelled row.
SaveJobUnguarded(old, new) == new

\* save_job writes the whole row, unless the row is cancelled already.
SaveJob(old, new) == IF old = "cancelled" THEN old ELSE new

\* Mutated form: the outcome of a settled recipient is overwritten.
MarkAnything(r, outcome) == [sub EXCEPT ![r] = outcome]

\* Mutated form: the mark never reaches the database.
MarkNobody(r, outcome) == sub

\* mark_subscriber settles a recipient only from waiting.
Mark(r, outcome) ==
    [sub EXCEPT ![r] = IF @ = "waiting" THEN outcome ELSE @]

\* Mutated form: admission looks for the job's row, whatever its status.
JoinableAlways(s) == TRUE

\* try_add_job_subscriber admits a recipient to an active job only.
Joinable(s) == s \in Active

\* claim_job takes a job that is queued or was denied resources.
Claimable(s) == s \in {"queued", "waiting_resources"}

\* Mutated form: cancelling one's own delivery always cancels the job.
AfterLeaveAlways(remaining, s) == IF s \in Active THEN "cancelled" ELSE s

\* cancel_subscriber: the job goes with its last waiting recipient.
AfterLeave(remaining, s) ==
    IF remaining = {} /\ s \in Active THEN "cancelled" ELSE s

\* Mutated form: finalising does not look for late recipients.
FinalizedIgnoringLate(waiting, s, any) ==
    IF s = "uploading" THEN IF any THEN "completed" ELSE "failed" ELSE s

\* finalize_delivery_if_idle: the status after it; "uploading" means that it
\* found a waiting recipient and the upload loop goes round again.
Finalized(waiting, s, any) ==
    IF s = "uploading" /\ waiting = {}
    THEN IF any THEN "completed" ELSE "failed"
    ELSE s

\* reconcile_on_startup: the status of a job whose recipients have these
\* outcomes.  Terminal jobs are not looked at.
Recovered(outcomes, s) ==
    IF s \notin Active THEN s
    ELSE IF outcomes = {} \/ "waiting" \in outcomes THEN "queued"
    ELSE IF "delivered" \in outcomes THEN "completed"
    ELSE IF "failed" \in outcomes THEN "failed"
    ELSE "cancelled"

-----------------------------------------------------------------------------
Init ==
    /\ status = "queued"
    /\ \E creator \in Recipients :
          sub = [r \in Recipients |-> IF r = creator THEN "waiting" ELSE "absent"]
    /\ reserved = FALSE
    /\ files = "none"
    /\ sent = [r \in Recipients |-> 0]
    /\ mode = "up"
    /\ restarts = 0
    /\ pc = "none"
    /\ interrupted = FALSE
    /\ view = "none"
    /\ todo = {}
    /\ cur = NoOne
    /\ anyDelivered = FALSE
    /\ final = "none"
    /\ terminal = FALSE
    /\ dispatcher = "idle"
    /\ hpc = [c \in Cancellers |-> "idle"]
    /\ sweep = "idle"

-----------------------------------------------------------------------------
(***************************************************************************)
(* The dispatch loop (dispatch_once)                                       *)
(***************************************************************************)

\* claim_job succeeds.  The loop does so only for a job that has no task in
\* _running; a loop that is under way when new work is paused goes on.
Claim ==
    /\ mode \in {"up", "draining"}
    /\ dispatcher = "idle"
    /\ pc = "none"
    /\ Claimable(status)
    /\ status' = "claimed"
    /\ dispatcher' = "claimed"
    /\ UNCHANGED <<sub, reserved, files, sent, mode, restarts, hpc, sweep,
                   pc, interrupted, locals>>

\* The claim's result arrives and the task is created.
CreateTask ==
    /\ dispatcher = "claimed"
    /\ dispatcher' = "idle"
    /\ pc' = "begin"
    /\ UNCHANGED <<durable, sent, mode, restarts, hpc, sweep, interrupted, locals>>

-----------------------------------------------------------------------------
(***************************************************************************)
(* The job's task (execute_job, the upload handler, _update_progress)      *)
(***************************************************************************)

\* The task is at p and no cancellation is waiting to be delivered to it.
At(p) == pc = p /\ ~interrupted

Goto(p) == pc' = p /\ UNCHANGED interrupted

ResetLocals ==
    /\ view' = "none"
    /\ todo' = {}
    /\ cur' = NoOne
    /\ anyDelivered' = FALSE
    /\ final' = "none"
    /\ terminal' = FALSE

EndTask == pc' = "none" /\ interrupted' = FALSE /\ ResetLocals

\* Where a CancelledError raised at p takes the task: into the handler of the
\* try block, out of an except clause, or out of the finally clause (and out
\* of a task that has not entered the try block).
OnCancel(p) == IF p \in TryPcs THEN "requeue_read"
               ELSE IF p \in ExceptPcs THEN "final_read"
               ELSE "none"

Raise(p) == pc' = OnCancel(p) /\ UNCHANGED interrupted

\* task.cancel() is delivered: CancelledError is raised at the task's await.
DeliverCancel ==
    /\ interrupted
    /\ pc # "none"
    /\ IF OnCancel(pc) = "none"
       THEN EndTask
       ELSE pc' = OnCancel(pc) /\ interrupted' = FALSE /\ UNCHANGED locals
    /\ UNCHANGED <<durable, sent, service>>

\* execute_job reads the row it is going to work on.
Begin ==
    /\ At("begin")
    /\ Goto("formats")
    /\ view' = status
    /\ UNCHANGED <<durable, sent, service, todo, cur, anyDelivered, final, terminal>>

\* _execution_formats: the exact formats are found again, or extraction is
\* refused its lease.
FormatsResolved ==
    /\ At("formats")
    /\ Goto("check")
    /\ UNCHANGED <<durable, sent, service, locals>>

FormatsDenied ==
    /\ At("formats")
    /\ Goto("deny_status")
    /\ UNCHANGED <<durable, sent, service, locals>>

\* Mutated form: the companion audio is forgotten.
AfterDownloadUnmerged == "upload_check"

AfterDownload == IF SeparateAudio THEN "merge_check" ELSE "upload_check"

\* _raise_if_cancelled, before the download, the merge and the upload.
\* Streams and a merged file that an earlier attempt left are used again:
\* find_job_file looks for their names.
AfterCheck(p) ==
    CASE p = "check"          -> "download_lease"
      [] p = "check_download" -> IF files \in {"none", "parts"}
                                 THEN "download_status" ELSE AfterDownload
      [] p = "merge_check"    -> IF files \in {"unfinished_merge", "merged"}
                                 THEN "upload_check" ELSE "merge_lease"
      [] p = "upload_check"   -> "upload_lease"

CheckCancelled ==
    /\ \E p \in {"check", "check_download", "merge_check", "upload_check"} :
          At(p) /\ IF status = "cancelled" THEN Raise(p) ELSE Goto(AfterCheck(p))
    /\ UNCHANGED <<durable, sent, service, locals>>

\* acquire_stage grants or denies a lease.
LeaseThen == [download_lease |-> "reserve",
              merge_lease    |-> "merge_reserve",
              upload_lease   |-> "upload_status"]

LeaseGranted(p) ==
    /\ At(p)
    /\ Goto(LeaseThen[p])
    /\ UNCHANGED <<durable, sent, service, locals>>

\* A job that is denied a lease, or disk for its download, waits.
Denied ==
    /\ \E p \in DOMAIN LeaseThen \cup {"reserve"} : At(p)
    /\ Goto("wait_status")
    /\ UNCHANGED <<durable, sent, service, locals>>

\* reserve_job_disk commits the job's reservation.
ReserveGranted(p, next) ==
    /\ At(p)
    /\ reserved' = TRUE
    /\ Goto(next)
    /\ UNCHANGED <<status, sub, files, sent, service, locals>>

\* _set_status: read the row, save the new status, go on.
SetStatusCalls ==
    {[read |-> "download_status", save |-> "download_save",
      to |-> "downloading",       next |-> "downloading"],
     [read |-> "merge_status",    save |-> "merge_save",
      to |-> "merging",           next |-> "merging"],
     [read |-> "upload_status",   save |-> "upload_save",
      to |-> "uploading",         next |-> "list"],
     [read |-> "wait_status",     save |-> "wait_save",
      to |-> "waiting_resources", next |-> "final_read"],
     [read |-> "deny_status",     save |-> "deny_save",
      to |-> "waiting_resources", next |-> "final_read"],
     [read |-> "fail_status",     save |-> "fail_save",
      to |-> "failed",            next |-> "notify_failed"]}

SetStatusRead ==
    /\ \E c \in SetStatusCalls :
          At(c.read) /\ IF status = "cancelled" THEN Raise(c.read) ELSE Goto(c.save)
    /\ UNCHANGED <<durable, sent, service, locals>>

SetStatusSave ==
    /\ \E c \in SetStatusCalls :
          /\ At(c.save)
          /\ status' = SaveJob(status, c.to)
          /\ view' = c.to
          /\ Goto(c.next)
    /\ UNCHANGED <<sub, reserved, files, sent, service,
                   todo, cur, anyDelivered, final, terminal>>

\* A process id, a progress figure or the turn to the companion audio is saved,
\* with the task's own copy of the status, while a transfer fills its parts.
Progress ==
    /\ At("downloading")
    /\ status' = SaveJob(status, view)
    /\ files' = "parts"
    /\ UNCHANGED <<sub, reserved, sent, service, pc, interrupted, locals>>

Downloaded ==
    /\ At("downloading")
    /\ files' = "streams"
    /\ Goto(AfterDownload)
    /\ UNCHANGED <<status, sub, reserved, sent, service, locals>>

\* FFmpeg opens the merged file, and closes it; its codecs are verified.
MergeBegins ==
    /\ At("merging")
    /\ files' = "unfinished_merge"
    /\ UNCHANGED <<status, sub, reserved, sent, service, pc, interrupted, locals>>

Merged ==
    /\ At("merging")
    /\ files' = "merged"
    /\ Goto("upload_check")
    /\ UNCHANGED <<status, sub, reserved, sent, service, locals>>

\* An exception that is no cancellation: the exact format is gone, the file
\* is too large for Telegram, a transfer or a merge fails (as it does when
\* cancel_job kills its process), disk for the merge is refused.
Fails ==
    /\ \E p \in {"formats", "check", "downloading", "merge_reserve", "merging",
                 "upload_check"} : At(p)
    /\ Goto("fail_read")
    /\ UNCHANGED <<durable, sent, service, locals>>

\* The upload handler lists the waiting recipients, then visits each.
ListRecipients ==
    /\ At("list")
    /\ todo' = Waiting
    /\ Goto("pick")
    /\ UNCHANGED <<durable, sent, service, view, cur, anyDelivered, final, terminal>>

\* subscriber_is_waiting is asked again just before the send.
PickRecipient ==
    /\ At("pick")
    /\ \E r \in todo :
          /\ todo' = todo \ {r}
          /\ IF sub[r] = "waiting"
             THEN cur' = r /\ Goto("send")
             ELSE UNCHANGED cur /\ Goto("pick")
    /\ UNCHANGED <<durable, sent, service, view, anyDelivered, final, terminal>>

\* Telegram took the media: the call returned.
Send ==
    /\ At("send")
    /\ sent' = [sent EXCEPT ![cur] = @ + 1]
    /\ anyDelivered' = TRUE
    /\ Goto("mark_delivered")
    /\ UNCHANGED <<durable, service, view, todo, cur, final, terminal>>

\* Telegram took the media, but no usable file id came of it.
SendUnusable ==
    /\ At("send")
    /\ sent' = [sent EXCEPT ![cur] = @ + 1]
    /\ Goto("mark_failed")
    /\ UNCHANGED <<durable, service, locals>>

SendFails ==
    /\ At("send")
    /\ Goto("mark_failed")
    /\ UNCHANGED <<durable, sent, service, locals>>

MarkAs == [mark_delivered |-> "delivered", mark_failed |-> "failed"]

MarkRecipient ==
    /\ \E p \in DOMAIN MarkAs : At(p) /\ sub' = Mark(cur, MarkAs[p])
    /\ cur' = NoOne
    /\ Goto("pick")
    /\ UNCHANGED <<status, reserved, files, sent, service,
                   view, todo, anyDelivered, final, terminal>>

EndRound ==
    /\ At("pick") /\ todo = {}
    /\ Goto("round_save")
    /\ UNCHANGED <<durable, sent, service, locals>>

SaveRound ==
    /\ At("round_save")
    /\ status' = SaveJob(status, view)
    /\ Goto("finalize")
    /\ UNCHANGED <<sub, reserved, files, sent, service, locals>>

\* One transaction closes the delivery, or finds a late recipient.
Finalize ==
    /\ At("finalize")
    /\ LET delivered == anyDelivered \/ \E r \in Recipients : sub[r] = "delivered"
       IN  status' = Finalized(Waiting, status, delivered)
    /\ IF status' = "uploading"
       THEN Goto("list") /\ UNCHANGED final
       ELSE Goto("reread") /\ final' = status'
    /\ UNCHANGED <<sub, reserved, files, sent, service,
                   view, todo, cur, anyDelivered, terminal>>

Reread ==
    /\ At("reread")
    /\ view' = status
    /\ Goto("notify_end")
    /\ UNCHANGED <<durable, sent, service, todo, cur, anyDelivered, final, terminal>>

\* _update_progress settles the recipients still waiting on a job that is
\* failed or cancelled, one statement each.  Nobody can join meanwhile.
NotifiedAs == [failed |-> "failed", cancelled |-> "cancelled"]

NotifyOne ==
    /\ At("notify_end") \/ At("notify_failed")
    /\ view \in DOMAIN NotifiedAs
    /\ \E r \in Waiting : sub' = Mark(r, NotifiedAs[view])
    /\ UNCHANGED <<status, reserved, files, sent, service, pc, interrupted, locals>>

Notified == view \in DOMAIN NotifiedAs => Waiting = {}

NotifyEndDone ==
    /\ At("notify_end") /\ Notified
    /\ terminal' = (final \in Terminal)
    /\ Goto("final_read")
    /\ UNCHANGED <<durable, sent, service, view, todo, cur, anyDelivered, final>>

NotifyFailedDone ==
    /\ At("notify_failed") /\ Notified
    /\ terminal' = TRUE
    /\ Goto("final_read")
    /\ UNCHANGED <<durable, sent, service, view, todo, cur, anyDelivered, final>>

\* except CancelledError: a job that was not cancelled is queued again, be it
\* finished or not.
RequeueRead ==
    /\ At("requeue_read")
    /\ Goto(IF status = "cancelled" THEN "final_read" ELSE "requeue_save")
    /\ UNCHANGED <<durable, sent, service, locals>>

RequeueSave ==
    /\ At("requeue_save")
    /\ status' = SaveJob(status, "queued")
    /\ Goto("final_read")
    /\ UNCHANGED <<sub, reserved, files, sent, service, locals>>

\* except Exception: a job that was not cancelled fails.
FailRead ==
    /\ At("fail_read")
    /\ Goto(IF status = "cancelled" THEN "final_read" ELSE "fail_status")
    /\ UNCHANGED <<durable, sent, service, locals>>

\* finally: a terminal or cancelled job gives up its reservation and files.
FinalRead ==
    /\ At("final_read")
    /\ IF terminal \/ status = "cancelled"
       THEN Goto("release") /\ UNCHANGED locals
       ELSE EndTask
    /\ UNCHANGED <<durable, sent, service>>

TaskRelease ==
    /\ At("release")
    /\ reserved' = FALSE
    /\ Goto("cleanup")
    /\ UNCHANGED <<status, sub, files, sent, service, locals>>

TaskCleanup ==
    /\ At("cleanup")
    /\ files' = "none"
    /\ EndTask
    /\ UNCHANGED <<status, sub, reserved, sent, service>>

Task ==
    \/ DeliverCancel \/ Begin \/ FormatsResolved \/ FormatsDenied
    \/ CheckCancelled
    \/ \E p \in DOMAIN LeaseThen : LeaseGranted(p)
    \/ Denied
    \/ ReserveGranted("reserve", "check_download")
    \/ ReserveGranted("merge_reserve", "merge_status")
    \/ SetStatusRead \/ SetStatusSave \/ Progress \/ Downloaded \/ MergeBegins \/ Merged \/ Fails
    \/ ListRecipients \/ PickRecipient \/ Send \/ SendUnusable \/ SendFails \/ MarkRecipient
    \/ EndRound \/ SaveRound \/ Finalize \/ Reread
    \/ NotifyOne \/ NotifyEndDone \/ NotifyFailedDone
    \/ RequeueRead \/ RequeueSave \/ FailRead
    \/ FinalRead \/ TaskRelease \/ TaskCleanup

-----------------------------------------------------------------------------
(***************************************************************************)
(* Recipients and the administrator (bot/callbacks, services/selection.py) *)
(***************************************************************************)

\* try_add_job_subscriber: one more requester shares the job.
Join(r) ==
    /\ mode = "up"
    /\ sub[r] = "absent"
    /\ Joinable(status)
    /\ sub' = [sub EXCEPT ![r] = "waiting"]
    /\ UNCHANGED <<status, reserved, files, sent, service, pc, interrupted, locals>>

HandlerGoto(c, p) == hpc' = [hpc EXCEPT ![c] = p]

\* "Cancel" pressed under a recipient's own message: cancel_subscriber.
LeaveJob(r) ==
    /\ mode = "up"
    /\ hpc[r] = "idle"
    /\ sub[r] = "waiting"
    /\ sub' = [sub EXCEPT ![r] = "cancelled"]
    /\ status' = AfterLeave(Waiting \ {r}, status)
    /\ HandlerGoto(r, "count")
    /\ UNCHANGED <<reserved, files, sent, mode, restarts, dispatcher, sweep,
                   pc, interrupted, locals>>

\* count_waiting_subscribers decides whether the whole job is cancelled.
CountWaiting(r) ==
    /\ hpc[r] = "count"
    /\ HandlerGoto(r, IF Waiting = {} THEN "get" ELSE "idle")
    /\ UNCHANGED <<durable, sent, mode, restarts, dispatcher, sweep,
                   pc, interrupted, locals>>

\* The administrator confirms "Cancel this shared download".
AdminCancels ==
    /\ "cancel" \in AdminActs
    /\ mode = "up"
    /\ hpc[Admin] = "idle"
    /\ HandlerGoto(Admin, "get")
    /\ UNCHANGED <<durable, sent, mode, restarts, dispatcher, sweep,
                   pc, interrupted, locals>>

\* cancel_running_job reads the job ...
CancelGet(c) ==
    /\ hpc[c] = "get"
    /\ HandlerGoto(c, IF status \in {"completed", "failed"} THEN "idle"
                      ELSE IF status = "cancelled" THEN "kill"
                      ELSE "save")
    /\ UNCHANGED <<durable, sent, mode, restarts, dispatcher, sweep,
                   pc, interrupted, locals>>

\* ... saves it as cancelled ...
CancelSave(c) ==
    /\ hpc[c] = "save"
    /\ status' = SaveJob(status, "cancelled")
    /\ HandlerGoto(c, "kill")
    /\ UNCHANGED <<sub, reserved, files, sent, mode, restarts, dispatcher, sweep,
                   pc, interrupted, locals>>

\* ... kills the job's processes and cancels its task, if it has one ...
CancelKill(c) ==
    /\ hpc[c] = "kill"
    /\ HandlerGoto(c, IF pc = "none" THEN "release" ELSE "reap")
    /\ interrupted' = (pc # "none")
    /\ UNCHANGED <<durable, sent, mode, restarts, dispatcher, sweep, pc, locals>>

\* Mutated form: the handler does not wait for the task it cancelled.
ReapedAtOnce(p) == TRUE

Reaped(p) == p = "none"

\* ... waits for the task to end ...
CancelReap(c) ==
    /\ hpc[c] = "reap"
    /\ Reaped(pc)
    /\ HandlerGoto(c, "release")
    /\ UNCHANGED <<durable, sent, mode, restarts, dispatcher, sweep,
                   pc, interrupted, locals>>

\* ... releases the reservation, removes the files ...
CancelRelease(c) ==
    /\ hpc[c] = "release"
    /\ reserved' = FALSE
    /\ HandlerGoto(c, "clean")
    /\ UNCHANGED <<status, sub, files, sent, mode, restarts, dispatcher, sweep,
                   pc, interrupted, locals>>

CancelClean(c) ==
    /\ hpc[c] = "clean"
    /\ files' = "none"
    /\ HandlerGoto(c, "notify")
    /\ UNCHANGED <<status, sub, reserved, sent, mode, restarts, dispatcher, sweep,
                   pc, interrupted, locals>>

\* ... and notifies, which settles whoever is still waiting as cancelled.
CancelNotifyOne(c) ==
    /\ hpc[c] = "notify"
    /\ \E r \in Waiting : sub' = Mark(r, "cancelled")
    /\ UNCHANGED <<status, reserved, files, sent, service, pc, interrupted, locals>>

CancelDone(c) ==
    /\ hpc[c] = "notify"
    /\ Waiting = {}
    /\ HandlerGoto(c, "idle")
    /\ UNCHANGED <<durable, sent, mode, restarts, dispatcher, sweep,
                   pc, interrupted, locals>>

CancelJob(c) ==
    \/ CancelGet(c) \/ CancelSave(c) \/ CancelKill(c) \/ CancelReap(c)
    \/ CancelRelease(c) \/ CancelClean(c) \/ CancelNotifyOne(c) \/ CancelDone(c)

\* cancel_all_waiting_jobs: first the jobs that are not running, in a
\* statement of its own the recipients of every cancelled job.
SweepJobs ==
    /\ "sweep" \in AdminActs
    /\ mode = "up"
    /\ sweep = "idle"
    /\ Claimable(status)
    /\ status' = "cancelled"
    /\ sweep' = "subscribers"
    /\ UNCHANGED <<sub, reserved, files, sent, mode, restarts, dispatcher, hpc,
                   pc, interrupted, locals>>

SweepSubscribers ==
    /\ sweep = "subscribers"
    /\ sub' = IF status = "cancelled"
              THEN [r \in Recipients |-> IF sub[r] = "waiting" THEN "cancelled"
                                         ELSE sub[r]]
              ELSE sub
    /\ sweep' = "idle"
    /\ UNCHANGED <<status, reserved, files, sent, mode, restarts, dispatcher, hpc,
                   pc, interrupted, locals>>

\* Mutated forms: retention takes every reservation, or forgets the cancelled.
MaintainEverything ==
    /\ mode = "up"
    /\ reserved' = FALSE
    /\ UNCHANGED <<status, sub, files, sent, service, pc, interrupted, locals>>

MaintainFinished ==
    /\ mode = "up"
    /\ status \in {"completed", "failed"}
    /\ reserved' = FALSE
    /\ UNCHANGED <<status, sub, files, sent, service, pc, interrupted, locals>>

\* Database.maintain deletes reservations of jobs that are not active.
Maintain ==
    /\ mode = "up"
    /\ status \notin Active
    /\ reserved' = FALSE
    /\ UNCHANGED <<status, sub, files, sent, service, pc, interrupted, locals>>

\* clean_orphans removes the directory of a job that is not active, once it
\* was left alone for the grace period: no task works in it.
CleanOrphans ==
    /\ mode = "up"
    /\ status \notin Active
    /\ pc = "none"
    /\ files' = "none"
    /\ UNCHANGED <<status, sub, reserved, sent, service, pc, interrupted, locals>>

-----------------------------------------------------------------------------
(***************************************************************************)
(* Shutdown, crash, recovery                                               *)
(***************************************************************************)

\* DownloadBot.shutdown pauses the scheduler and cancels every handler; the
\* cancellation of a handler that waits for the task reaches the task again.
ShutdownBegin ==
    /\ mode = "up"
    /\ restarts < MaxRestarts
    /\ restarts' = restarts + 1
    /\ mode' = "draining"
    /\ hpc' = [c \in Cancellers |-> "idle"]
    /\ interrupted' = (interrupted \/ (pc # "none" /\ \E c \in Cancellers : hpc[c] = "reap"))
    /\ sweep' = "idle"
    /\ UNCHANGED <<durable, sent, dispatcher, pc, locals>>

\* JobScheduler.stop cancels the dispatch loop, then the job's task.
StopTasks ==
    /\ mode = "draining"
    /\ mode' = "stopping"
    /\ dispatcher' = "idle"
    /\ interrupted' = (pc # "none")
    /\ UNCHANGED <<durable, sent, restarts, hpc, sweep, pc, locals>>

\* prepare_shutdown queues every active job once the task has ended.
PrepareShutdown ==
    /\ mode = "stopping"
    /\ pc = "none"
    /\ mode' = "down"
    /\ status' = IF status \in Active THEN "queued" ELSE status
    /\ UNCHANGED <<sub, reserved, files, sent, restarts, dispatcher, hpc, sweep,
                   pc, interrupted, locals>>

\* The process dies: only the database and the job directory remain.
Crash ==
    /\ mode # "down"
    /\ mode = "up" => restarts < MaxRestarts
    /\ restarts' = IF mode = "up" THEN restarts + 1 ELSE restarts
    /\ mode' = "down"
    /\ EndTask
    /\ dispatcher' = "idle"
    /\ hpc' = [c \in Cancellers |-> "idle"]
    /\ sweep' = "idle"
    /\ UNCHANGED <<durable, sent>>

\* reconcile_on_startup decides what became of the job, or finds that its
\* directory or snapshot is no longer usable; no reservation outlives it.
Restart ==
    /\ mode = "down"
    /\ mode' = "up"
    /\ \/ status' = Recovered({sub[r] : r \in Known}, status)
       \/ status \in Active /\ status' = "failed"
    /\ reserved' = FALSE
    /\ UNCHANGED <<sub, files, sent, restarts, dispatcher, hpc, sweep,
                   pc, interrupted, locals>>

-----------------------------------------------------------------------------
Environment ==
    \/ \E r \in Recipients : Join(r) \/ LeaveJob(r)
    \/ AdminCancels \/ SweepJobs
    \/ ShutdownBegin \/ Crash

Program ==
    \/ Claim \/ CreateTask
    \/ Task
    \/ \E r \in Recipients : CountWaiting(r)
    \/ \E c \in Cancellers : CancelJob(c)
    \/ SweepSubscribers \/ Maintain \/ CleanOrphans
    \/ StopTasks \/ PrepareShutdown \/ Restart

Next == Environment \/ Program

Spec == Init /\ [][Next]_vars

(***************************************************************************)
(* Fairness.  The event loop runs whatever is ready: the dispatch loop     *)
(* wakes at least every scheduler_retry_seconds, the task, the handlers    *)
(* and the maintenance loop go on, transfers end (they have timeouts), the *)
(* process is started again.  A stage that is tried again and again is     *)
(* granted in the end: pressure on the host passes.                        *)
(***************************************************************************)
Fairness ==
    /\ WF_vars(Claim \/ CreateTask)
    /\ WF_vars(Task)
    /\ SF_vars(FormatsResolved)
    /\ \A p \in DOMAIN LeaseThen : SF_vars(LeaseGranted(p))
    /\ SF_vars(ReserveGranted("reserve", "check_download"))
    /\ \A r \in Recipients : WF_vars(CountWaiting(r))
    /\ \A c \in Cancellers : WF_vars(CancelJob(c))
    /\ WF_vars(SweepSubscribers)
    /\ WF_vars(Maintain) /\ WF_vars(CleanOrphans)
    /\ WF_vars(StopTasks) /\ WF_vars(PrepareShutdown) /\ WF_vars(Restart)

FairSpec == Spec /\ Fairness

-----------------------------------------------------------------------------
(***************************************************************************)
(* Properties                                                              *)
(***************************************************************************)

\* A job is never recorded as COMPLETED while somebody who asked for it is
\* still waiting: finalize_delivery_if_idle and try_add_job_subscriber cannot
\* slip past each other, and recovery looks at every recipient.
CompletedLeavesNobodyWaiting == status = "completed" => Waiting = {}

\* COMPLETED means that the media went out to at least one recipient.
CompletedMeansSent == status = "completed" => \E r \in Recipients : sent[r] > 0

\* A recipient recorded as delivered was sent the media.
DeliveredMeansSent ==
    \A r \in Recipients : sub[r] = "delivered" => sent[r] > 0

\* The records tell the truth about the deliveries: COMPLETED and DELIVERED
\* are neither too early nor for nothing.
RecordsAreTrue ==
    CompletedLeavesNobodyWaiting /\ CompletedMeansSent /\ DeliveredMeansSent

\* Nobody is sent the media twice, except once more for each time the process
\* was stopped or died between the send and its mark.
ResentOnlyAfterRestart == \A r \in Recipients : sent[r] <= 1 + restarts

\* CANCELLED is durable: no save of a stale in-memory job, no claim and no
\* recovery brings a cancelled job back.
CancelledIsFinal == [][status = "cancelled" => status' = "cancelled"]_vars

\* A job in a running status has somebody who will carry it on, so it cannot
\* sit in the queue for ever: the claim, the task, or (shutting down) the
\* sweep that queues it again.
RunningJobHasTask ==
    (mode = "up" /\ status \in Active /\ ~Claimable(status))
        => (dispatcher = "claimed" \/ pc \in {"begin"} \cup TryPcs \cup ExceptPcs)

\* Bytes are transferred and merged only under a reservation, as long as the
\* job is wanted: no cancel, sweep or retention pass takes it away.
TransferIsReserved ==
    (pc \in {"downloading", "merging"} /\ status # "cancelled") => reserved

\* Whatever is cancelled, swept, retained, stopped or recovered around it, a
\* job that runs has somebody to carry it on and, for its bytes, the disk.
RunningJobIsBacked == RunningJobHasTask /\ TransferIsReserved

\* The job directory is never removed under a task that works in it.
WorkingPcs == TryPcs \ {"formats", "check"}
FilesOutliveTheTask ==
    [][files # "none" /\ files' = "none" => pc \notin WorkingPcs]_vars

\* While the process has not been stopped, a recipient waiting on a job that
\* is over has somebody on the way to tell them.
NobodyForgotten ==
    (restarts = 0 /\ status \in Terminal /\ Waiting # {})
        => \/ pc # "none"
           \/ sweep = "subscribers"
           \/ \E c \in Cancellers : hpc[c] # "idle"

\* Everybody who asked is told an outcome in the end.
EverybodyIsSettled ==
    \A r \in Recipients : (sub[r] = "waiting") ~> (sub[r] # "waiting")

\* A job that is over gives its reserved disk back and its files are removed:
\* by its task, its canceller or, when neither was there (a sweep over a job
\* that waited for resources), by the retention pass.
NothingIsLeftBehind == (status \in Terminal) ~> (~reserved /\ files = "none")

\* Only a whole file is sent to anybody: the streams that were renamed, or
\* the merge that FFmpeg finished and the codec probe accepted.
OnlyFinishedFilesAreSent ==
    [][\A r \in Recipients : sent'[r] # sent[r] => files = FinishedFile]_vars

\* So it is in the first process; in a later one also an unfinished merge that an
\* earlier one left under the final name may be sent.
OnlyFinishedFilesUnlessInterrupted ==
    [][\A r \in Recipients : sent'[r] # sent[r]
          => files = FinishedFile \/ (restarts > 0 /\ files = "unfinished_merge")]_vars

\* What a comment says: each recipient has "the same independent
\* delivery/cancellation semantics" (storage/database.py, _migration_v5).
\* Without the administrator, nobody's delivery is cancelled by another's.
OnlyOneselfCancels ==
    [][\A r \in Recipients : sub[r] = "waiting" /\ sub'[r] = "cancelled"
          => hpc[r] = "idle" /\ hpc'[r] = "count"]_vars

\* What the administrator is told: a finished job "is already terminal" and
\* stays as it is.
CompletedIsFinal == [][status = "completed" => status' = "completed"]_vars

-----------------------------------------------------------------------------
(***************************************************************************)
(* The inductive invariant behind the safety properties                    *)
(***************************************************************************)

UploadPcs == {"list", "pick", "send", "mark_delivered", "mark_failed",
              "round_save", "finalize"}
\* The job is not over while its task is here, unless it was cancelled.
OngoingPcs == {"begin"} \cup (TryPcs \ {"reread", "notify_end"})
                        \cup (ExceptPcs \ {"requeue_read", "requeue_save",
                                           "notify_failed"})
ReservedPcs == {"check_download", "download_status", "download_save",
                "downloading", "merge_check", "merge_lease", "merge_reserve",
                "merge_status", "merge_save", "merging"}
CancellingPcs == {"kill", "reap", "release", "clean", "notify"}

\* The status of the job, and the task's copy of it, at each point of the task.
TaskInv ==
    /\ dispatcher = "claimed" => pc = "none" /\ status \in {"claimed", "cancelled"}
    /\ pc \in OngoingPcs => status \in Active \cup {"cancelled"}
    /\ pc \in OngoingPcs \ {"begin"} => view \in Active \cup {"cancelled"}
    /\ pc = "downloading" => view = "downloading"
    /\ pc \in UploadPcs => status \in {"uploading", "cancelled"} /\ view = "uploading"
    /\ pc \in {"reread", "notify_end"} => status \in Terminal
    /\ pc = "notify_failed" => status \in {"failed", "cancelled"}
    /\ RunningJobHasTask
    /\ (pc \in ReservedPcs /\ status # "cancelled") => reserved

\* A cancel handler past its save works on a cancelled job, and past its reap
\* beside no task at work; only such a handler or the shutdown cancels the task.
CancelInv ==
    /\ \A c \in Cancellers : hpc[c] \in CancellingPcs => status = "cancelled"
    /\ \A c \in Cancellers :
          hpc[c] \in {"release", "clean", "notify"} => pc \notin WorkingPcs
    /\ mode # "up" => \A c \in Cancellers : hpc[c] = "idle"
    /\ interrupted => pc # "none" /\ (status = "cancelled" \/ mode = "stopping")
    /\ (mode = "stopping" /\ ~interrupted) => pc \notin {"begin"} \cup TryPcs
    /\ mode \in {"stopping", "down"} => dispatcher = "idle"
    /\ mode = "down" => pc = "none"
    /\ mode # "up" => restarts > 0

\* Restarts that are over.
PastRestarts == IF mode = "up" THEN restarts ELSE restarts - 1

\* A recipient still waiting was sent the media in an earlier incarnation of
\* the process only, unless the send of this one is not marked yet or was cut
\* off before its mark.
CutOff(r) ==
    \/ pc \in {"mark_delivered", "mark_failed"} /\ cur = r
    \/ mode \in {"stopping", "down"}
    \/ /\ status = "cancelled"
       /\ pc \notin {"begin"} \cup TryPcs
       /\ dispatcher = "idle"

SendInv ==
    /\ \A r \in Recipients : sent[r] <= PastRestarts + 1
    /\ \A r \in Recipients :
          sub[r] = "waiting" => sent[r] <= PastRestarts \/ CutOff(r)
    /\ \A r \in Recipients : sub[r] = "absent" => sent[r] = 0
    /\ pc \in {"send", "mark_delivered", "mark_failed"} => cur \in Known
    /\ pc = "send" => sent[cur] <= PastRestarts
    /\ pc = "mark_delivered" => sent[cur] > 0
    /\ DeliveredMeansSent
    /\ anyDelivered \/ status = "completed" => \E r \in Recipients : sent[r] > 0

\* Whoever still waits on a job that is over is told by somebody: on a failed
\* job by its task, on a cancelled one by a cancel handler or by the sweep.
\* A stop or crash takes them all away.
TellInv ==
    restarts = 0 /\ Waiting # {} =>
        /\ status = "failed" => pc = "notify_failed" /\ view = "failed"
        /\ status = "cancelled" =>
              \/ sweep = "subscribers"
              \/ \E c \in Cancellers : hpc[c] \in CancellingPcs

\* The merged file has its name before it is whole, and a task that finds the
\* name takes the file for finished.  Without a stop or crash nobody finds a
\* half merged file: the merge that left it ended its job.
MergePcs == {"merge_check", "merge_lease", "merge_reserve", "merge_status",
             "merge_save", "merging"}
SendingPcs == UploadPcs \cup {"upload_check", "upload_lease", "upload_status",
                              "upload_save"}
FilesInv ==
    /\ ~SeparateAudio => /\ files \in {"none", "parts", "streams"}
                         /\ pc \notin MergePcs
    /\ pc \in SendingPcs =>
          files = FinishedFile \/ (restarts > 0 /\ files = "unfinished_merge")
    /\ restarts = 0 /\ files = "unfinished_merge" =>
          \/ pc \in {"merging", "fail_read", "fail_status", "fail_save"}
          \/ /\ pc \in {"none", "requeue_read", "notify_failed"} \cup FinallyPcs
             /\ status \in Terminal
             /\ pc = "requeue_read" => status = "cancelled"
             /\ dispatcher = "idle"

IInv == /\ TypeOK /\ TaskInv /\ CancelInv /\ SendInv
        /\ CompletedLeavesNobodyWaiting /\ TellInv /\ FilesInv

=============================================================================
