-------------------------- MODULE ProcessSupervisor --------------------------
(***************************************************************************)
(* Who owns a child process: the registry of ProcessSupervisor, its        *)
(* coroutines that spawn, run and reap, cancel_job and shutdown beside      *)
(* them, and the two callers that lie between a job and its processes:      *)
(* FFmpegManager's merge, which runs in a task of its own, and              *)
(* cancel_running_job.                                                      *)
(*                                                                         *)
(* asyncio.Lock is fair: `line` holds whoever has the lock, and behind it  *)
(* who waits, in the order of their requests.                              *)
(***************************************************************************)
EXTENDS Naturals, Sequences, FiniteSets

CONSTANTS
    Workers,     \* coroutines that run a process, each a stage of its own
    Merger,      \* the one that runs a merge; its stage is the job's
    MaxHandles   \* bound: processes that somebody still refers to

ASSUME MergerAssumption == Merger \in Workers
ASSUME HandleAssumption == MaxHandles \in Nat

VARIABLES
    line,       \* _lock
    registry,   \* _processes: the handle of each stage, 0 when it has none
    alive,      \* the handles whose process has not exited
    closed,     \* _closed
    worker,     \* each coroutine: where it is, its handle, whether cancelled
    sweep,      \* cancel_job and shutdown: where they are, what they listed
    merge,      \* the caller of the merge
    admin,      \* cancel_running_job
    missed      \* history: the merge was cancelled before its task had begun

processes == <<registry, alive, closed>>
vars == <<line, processes, worker, sweep, merge, admin, missed>>

Handles == 1..MaxHandles
Sweepers == {"merge", "admin", "down"}
Turns == [act : {"make", "drop"}, who : Workers] \cup [act : {"sweep"}, who : Sweepers]
WorkerPcs == {"idle", "called", "queued", "creating", "running", "reaping", "dropping"}
SweepPcs == {"idle", "list", "kill", "pop", "over", "left"}

Idle == [pc |-> "idle", handle |-> 0, cancelled |-> FALSE]
NoSweep == [pc |-> "idle", got |-> {}]

TypeOK ==
    /\ line \in Seq(Turns)
    /\ registry \in [Workers -> 0..MaxHandles]
    /\ alive \subseteq Handles
    /\ closed \in BOOLEAN
    /\ worker \in [Workers -> [pc : WorkerPcs, handle : 0..MaxHandles, cancelled : BOOLEAN]]
    /\ sweep \in [Sweepers -> [pc : SweepPcs, got : SUBSET Handles]]
    /\ merge \in {"idle", "watch", "sweep", "gather", "over", "left"}
    /\ admin \in {"idle", "sweep", "cancel", "gather", "over"}
    /\ missed \in BOOLEAN

Init ==
    /\ line = <<>>
    /\ registry = [w \in Workers |-> 0] /\ alive = {} /\ closed = FALSE
    /\ worker = [w \in Workers |-> Idle]
    /\ sweep = [c \in Sweepers |-> NoSweep]
    /\ merge = "idle" /\ admin = "idle"
    /\ missed = FALSE

At(w, pc) == worker[w].pc = pc
MineIs(w) == registry[w] = worker[w].handle

-----------------------------------------------------------------------------
(***************************************************************************)
(* The mutated forms                                                       *)
(***************************************************************************)
AfterCancelledSpawn(w, h) == [pc |-> "idle", handle |-> h, cancelled |-> FALSE]
GatheredAtOnce == TRUE
LockIsKept == UNCHANGED line

Asks(act, who) == line' = Append(line, [act |-> act, who |-> who])
Holds(act, who) == line # <<>> /\ Head(line) = [act |-> act, who |-> who]
Release == line' = Tail(line)

-----------------------------------------------------------------------------
(***************************************************************************)
(* spawn_owned_process and run                                             *)
(***************************************************************************)
\* The caller makes a task for the creation and awaits it, shielded.
Calls(w) == worker' = [worker EXCEPT ![w].pc = "called"]

\* The task begins and asks for the lock.
Queues(w) ==
    /\ worker' = [worker EXCEPT ![w].pc = "queued"]
    /\ Asks("make", w)
    /\ UNCHANGED <<processes, sweep, merge, admin, missed>>

\* Only the caller of the merge can be cancelled between the two.
Call(w) == w # Merger /\ At(w, "idle") /\ Queues(w)
Queue(w) == At(w, "called") /\ Queues(w)

Taken(w) == registry[w] \in alive
Enter(w) ==
    /\ At(w, "queued") /\ Holds("make", w)
    /\ \/ /\ closed \/ Taken(w)
          /\ worker' = [worker EXCEPT ![w] = Idle] /\ Release
       \/ /\ ~closed /\ ~Taken(w)
          /\ worker' = [worker EXCEPT ![w].pc = "creating"] /\ UNCHANGED line
    /\ UNCHANGED <<processes, sweep, merge, admin, missed>>

AfterSpawn(w, h) ==
    [pc |-> IF worker[w].cancelled THEN "reaping" ELSE "running",
     handle |-> h, cancelled |-> FALSE]
\* The first handle that nobody refers to any more stands for a new one.
Free == Handles \ ({registry[w] : w \in Workers} \cup {worker[w].handle : w \in Workers}
                   \cup UNION {sweep[c].got : c \in Sweepers})

\* The process is there, and registered before the lock is released; or there
\* is no such program.
Create(w) ==
    /\ At(w, "creating")
    /\ Release
    /\ \/ \E h \in Free :
             /\ \A g \in Free : h <= g
             /\ alive' = alive \cup {h}
             /\ registry' = [registry EXCEPT ![w] = h]
             /\ worker' = [worker EXCEPT ![w] = AfterSpawn(w, h)]
       \/ /\ worker' = [worker EXCEPT ![w] = Idle]
          /\ UNCHANGED <<registry, alive>>
    /\ UNCHANGED <<closed, sweep, merge, admin, missed>>

\* A process exits, by itself or because it was told to.
Exit(h) ==
    /\ h \in alive
    /\ alive' = alive \ {h}
    /\ UNCHANGED <<line, registry, closed, worker, sweep, merge, admin, missed>>

\* run() is through: the process has exited, or the time is up, or the output
\* is too long.  In any case the process is terminated and reaped.
RunEnds(w) ==
    /\ At(w, "running")
    /\ worker' = [worker EXCEPT ![w].pc = "reaping"]
    /\ UNCHANGED <<line, processes, sweep, merge, admin, missed>>

\* The owner of a run is cancelled, perhaps again.  While the process is made
\* or reaped, the shielded task goes on; a run that has not begun never does.
AfterInterrupt(w) ==
    CASE worker[w].pc \in {"queued", "creating"} -> {[worker[w] EXCEPT !.cancelled = TRUE]}
      [] At(w, "called")  -> {Idle, [worker[w] EXCEPT !.cancelled = TRUE]}
      [] At(w, "running") -> {[worker[w] EXCEPT !.pc = "reaping"]}
      [] OTHER            -> {worker[w]}

Interrupt(w) ==
    /\ w # Merger
    /\ worker' \in {[worker EXCEPT ![w] = after] : after \in AfterInterrupt(w)}
    /\ UNCHANGED <<line, processes, sweep, merge, admin, missed>>

\* _terminate_handle returns when the process has exited: TERM, then KILL.
Dead(S) == S \cap alive = {}

Reap(w) ==
    /\ At(w, "reaping") /\ Dead({worker[w].handle})
    /\ worker' = [worker EXCEPT ![w].pc = "dropping"]
    /\ Asks("drop", w)
    /\ UNCHANGED <<processes, sweep, merge, admin, missed>>

Unregister(w) ==
    /\ At(w, "dropping") /\ Holds("drop", w)
    /\ Release
    /\ registry' = IF MineIs(w) THEN [registry EXCEPT ![w] = 0] ELSE registry
    /\ worker' = [worker EXCEPT ![w] = Idle]
    /\ UNCHANGED <<alive, closed, sweep, merge, admin, missed>>

-----------------------------------------------------------------------------
(***************************************************************************)
(* cancel_job and shutdown                                                 *)
(***************************************************************************)
Sweeps(c) ==
    /\ sweep' = [sweep EXCEPT ![c] = [pc |-> "list", got |-> {}]]
    /\ Asks("sweep", c)

\* The job of the merge, or every job.
Listed(c) ==
    {registry[w] : w \in IF c = "down" THEN Workers ELSE {Merger}} \ {0}

List(c) ==
    /\ sweep[c].pc = "list" /\ Holds("sweep", c)
    /\ Release
    /\ sweep' = [sweep EXCEPT ![c] = [pc |-> "kill", got |-> Listed(c)]]
    /\ closed' = (closed \/ c = "down")
    /\ UNCHANGED <<registry, alive, worker, merge, admin, missed>>

Killed(c) ==
    /\ sweep[c].pc = "kill" /\ Dead(sweep[c].got)
    /\ sweep' = [sweep EXCEPT ![c].pc = "pop"]
    /\ Asks("sweep", c)
    /\ UNCHANGED <<processes, worker, merge, admin, missed>>

\* Only what was listed goes: a stage may have a new process by now.
Popped(c) ==
    [w \in Workers |-> IF c = "down" \/ registry[w] \in sweep[c].got THEN 0 ELSE registry[w]]

Pop(c) ==
    /\ sweep[c].pc = "pop" /\ Holds("sweep", c)
    /\ Release
    /\ registry' = Popped(c)
    /\ sweep' = [sweep EXCEPT ![c] = [pc |-> "over", got |-> {}]]
    /\ UNCHANGED <<alive, closed, worker, merge, admin, missed>>

\* Who waited for the lock and was cancelled is passed over: nobody who waits
\* behind sees a difference.
PassedOver(c) ==
    /\ sweep[c].pc = "left" /\ Holds("sweep", c)
    /\ Release
    /\ sweep' = [sweep EXCEPT ![c].pc = "over"]
    /\ UNCHANGED <<processes, worker, merge, admin, missed>>

Shutdown ==
    /\ sweep["down"].pc = "idle"
    /\ Sweeps("down")
    /\ UNCHANGED <<processes, worker, merge, admin, missed>>

-----------------------------------------------------------------------------
(***************************************************************************)
(* FFmpegManager's merge, and cancel_running_job                           *)
(***************************************************************************)
\* The merge runs in a task of its own; its caller looks in on it.  There may
\* be a second attempt, into another container.
Merge ==
    /\ merge = "idle" /\ At(Merger, "idle")
    /\ merge' = "watch"
    /\ Calls(Merger)
    /\ UNCHANGED <<line, processes, sweep, admin, missed>>

MergeEnds ==
    /\ merge = "watch" /\ At(Merger, "idle")
    /\ merge' \in {"idle", "over"}
    /\ UNCHANGED <<line, processes, worker, sweep, admin, missed>>

\* The caller is cancelled, or the disk is full: cancel_job, and then it
\* waits for the task.
MergeIsCancelled ==
    /\ merge = "watch"
    /\ merge' = "sweep"
    /\ Sweeps("merge")
    /\ missed' = At(Merger, "called")

GrowthFails ==
    /\ MergeIsCancelled
    /\ UNCHANGED <<processes, worker, admin>>

MergeSwept ==
    /\ merge = "sweep" /\ sweep["merge"].pc = "over"
    /\ merge' = "gather"
    /\ UNCHANGED <<line, processes, worker, sweep, admin, missed>>

ExecutionIsOver == At(Merger, "idle")
MergeGathered ==
    /\ merge = "gather" /\ ExecutionIsOver
    /\ merge' = "over"
    /\ UNCHANGED <<line, processes, worker, sweep, admin, missed>>

\* The caller is cancelled while it cancels its merge.  Out of cancel_job it
\* goes at once, and leaves the merge's task to itself (an exit after TERM is
\* any exit); gather passes the cancel on to that task and waits for it.
LeavesSweep ==
    /\ merge = "sweep" /\ sweep["merge"].pc \in {"list", "kill", "pop"}
    /\ merge' = "left"
    /\ sweep' = [sweep EXCEPT !["merge"] =
                    [pc |-> IF @.pc = "kill" THEN "over" ELSE "left", got |-> {}]]
    /\ UNCHANGED worker

CancelsExecution ==
    /\ merge = "gather"
    /\ worker' \in {[worker EXCEPT ![Merger] = after] : after \in AfterInterrupt(Merger)}
    /\ UNCHANGED <<merge, sweep>>

CancelledAgain == (LeavesSweep \/ CancelsExecution) /\ UNCHANGED <<line, missed>>

\* JobScheduler.stop, or another administrator, after the first cancel.
StopScheduler ==
    /\ CancelledAgain
    /\ UNCHANGED <<processes, admin>>

\* cancel_running_job: the processes of the job, then its task.
CancelRunningJob ==
    /\ admin = "idle"
    /\ admin' = "sweep"
    /\ Sweeps("admin")
    /\ UNCHANGED <<processes, worker, merge, missed>>

CancelTask ==
    /\ admin = "sweep" /\ sweep["admin"].pc = "over"
    /\ admin' = "gather"
    /\ \/ MergeIsCancelled /\ UNCHANGED worker
       \/ CancelledAgain
       \/ /\ merge \in {"idle", "over", "left"} /\ UNCHANGED <<line, worker, sweep, missed>>
          /\ merge' = IF merge = "idle" THEN "over" ELSE merge
    /\ UNCHANGED processes

JobGathered ==
    /\ admin = "gather" /\ merge \in {"over", "left"}
    /\ admin' = "over"
    /\ UNCHANGED <<line, processes, worker, sweep, merge, missed>>

WorkerStep(w) ==
    Queue(w) \/ Enter(w) \/ Create(w) \/ RunEnds(w) \/ Reap(w) \/ Unregister(w)
SweepStep(c) == List(c) \/ Killed(c) \/ Pop(c) \/ PassedOver(c)
MergeStep == MergeEnds \/ MergeSwept \/ MergeGathered
CancelStep == CancelTask \/ JobGathered

Next ==
    \/ \E w \in Workers : Call(w) \/ WorkerStep(w) \/ Interrupt(w)
    \/ \E h \in Handles : Exit(h)
    \/ \E c \in Sweepers : SweepStep(c)
    \/ Shutdown \/ Merge \/ GrowthFails \/ CancelRunningJob \/ StopScheduler
    \/ MergeStep \/ CancelStep

\* Runs have timeouts, and a process that is sent KILL exits.
Spec ==
    /\ Init /\ [][Next]_vars
    /\ \A w \in Workers : WF_vars(WorkerStep(w))
    /\ \A h \in Handles : WF_vars(Exit(h))
    /\ \A c \in Sweepers : WF_vars(SweepStep(c))
    /\ WF_vars(MergeStep) /\ WF_vars(CancelStep)

-----------------------------------------------------------------------------
(***************************************************************************)
(* Properties                                                              *)
(***************************************************************************)
Owner(h) == {w \in Workers : worker[w].handle = h}

\* Each live process belongs to one coroutine that has yet to reap it, and to
\* the registry, where cancel_job and shutdown find it: however spawning,
\* cancelling, sweeping and shutting down interleave, nothing is orphaned.
NothingIsOrphaned ==
    \A h \in alive :
        /\ \E w \in Workers : Owner(h) = {w} /\ registry[w] = h
        /\ \A w \in Owner(h) : worker[w].pc \in {"running", "reaping"}

\* Once shutdown has ended no process is alive, and none will be.
ShutdownIsFinal == sweep["down"].pc = "over" => alive = {} /\ closed

\* cancel_running_job returns when no process of the job is left.  It does not
\* hold of the code: a caller that is cancelled while it is in cancel_job
\* leaves FFmpeg behind, and the job's files are deleted beside it.
CancelledIsAlwaysGone ==
    admin = "over" => worker[Merger].handle \notin alive

\* So it is unless the caller was cancelled a second time, in cancel_job; one
\* that is cancelled when it waits for its task waits on.
CancelledMeansGone ==
    admin = "over" /\ merge # "left" => worker[Merger].handle \notin alive

\* A caller that has cancelled its merge waits for a process that has been
\* terminated, not for the whole merge; unless it was cancelled before the
\* merge's task had asked for the lock, when cancel_job finds no process.
CancelledMergeIsTerminated ==
    merge = "gather" /\ ~missed => worker[Merger].handle \notin alive

\* Whoever was told that a process is gone can rely on it: the administrator,
\* the caller of a merge, the program that exits.
GoneWhenTold ==
    TypeOK /\ ShutdownIsFinal /\ CancelledMeansGone /\ CancelledMergeIsTerminated

\* Whoever cancels a job, and shutdown, come to an end: nobody waits for a
\* lock or a process for ever.
EverybodyReturns ==
    /\ (admin # "idle") ~> (admin = "over")
    /\ (sweep["down"].pc # "idle") ~> (sweep["down"].pc = "over")
=============================================================================
