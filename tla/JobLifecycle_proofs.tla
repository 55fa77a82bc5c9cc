------------------------ MODULE JobLifecycle_proofs -------------------------
EXTENDS JobContract, TLAPS

USE RecipientsAssumption, FlagsAssumption, MaxRestartsAssumption

(***************************************************************************)
(* What the database statements and the control operators return           *)
(***************************************************************************)

\* A save leaves the row alone or writes the new status.
LEMMA SaveJobValue ==
    ASSUME NEW old, NEW new
    PROVE  /\ SaveJob(old, new) \in {old, new}
           /\ old = "cancelled" => SaveJob(old, new) = "cancelled"
           /\ old # "cancelled" => SaveJob(old, new) = new
  BY DEF SaveJob

\* A CancelledError takes the task to its handler, to the finally clause or
\* out of the task.
LEMMA OnCancelValue ==
    ASSUME NEW p
    PROVE  /\ OnCancel(p) \in {"requeue_read", "final_read", "none"}
           /\ p \in {"none", "begin"} => OnCancel(p) = "none"
  BY DEF OnCancel, TryPcs, ExceptPcs

\* Recovery leaves a terminal job alone and gives an active one a status.
LEMMA RecoveredValue ==
    ASSUME NEW outcomes, NEW s \in JobStatus
    PROVE  /\ Recovered(outcomes, s) \in {s, "queued"} \cup Terminal
           /\ s \in Active => Recovered(outcomes, s) \in {"queued"} \cup Terminal
           /\ s \notin Active => Recovered(outcomes, s) = s
           /\ s \in Active /\ Recovered(outcomes, s) = "completed"
                => "delivered" \in outcomes /\ "waiting" \notin outcomes
  BY DEF Recovered, Terminal

\* Settling a recipient leaves the others alone.
LEMMA MarkType ==
    ASSUME sub \in [Recipients -> SubStatus], NEW r, NEW o \in Outcome
    PROVE  Mark(r, o) \in [Recipients -> SubStatus]
  <1>1. CASE r \in Recipients
    BY <1>1 DEF Mark, SubStatus
  <1>2. CASE r \notin Recipients
    BY <1>2 DEF Mark
  <1>3. QED
    BY <1>1, <1>2

-----------------------------------------------------------------------------
(***************************************************************************)
(* Type correctness                                                        *)
(***************************************************************************)

\* Every step keeps the variables in their types; in particular the task has
\* a copy of the job's status from its first statement to its last.
LEMMA TypeStep == TypeOK /\ [Next]_vars => TypeOK'
<1> SUFFICES ASSUME TypeOK, [Next]_vars PROVE TypeOK'
  OBVIOUS
<1> USE DEF TypeOK, durable, locals, service
<1>1. CASE Claim
  BY <1>1 DEF Claim, Claimable, JobStatus, Active, Terminal
<1>2. CASE CreateTask
  BY <1>2 DEF CreateTask, Pcs, TryPcs, ExceptPcs, FinallyPcs
<1>3. CASE DeliverCancel
  BY <1>3, OnCancelValue DEF DeliverCancel, EndTask, ResetLocals, Pcs,
         ExceptPcs, FinallyPcs
<1>4. CASE Begin
  BY <1>4 DEF Begin, At, Goto, Pcs, TryPcs, ExceptPcs, FinallyPcs, JobStatus,
         Active, Terminal
<1>5. CASE FormatsResolved
  BY <1>5 DEF FormatsResolved, At, Goto, Pcs, TryPcs, ExceptPcs, FinallyPcs
<1>6. CASE FormatsDenied
  BY <1>6 DEF FormatsDenied, At, Goto, Pcs, TryPcs, ExceptPcs, FinallyPcs
<1>7. CASE CheckCancelled
  BY <1>7, OnCancelValue DEF CheckCancelled, At, Goto, Raise, AfterCheck,
         AfterDownload, Pcs, TryPcs, ExceptPcs, FinallyPcs
<1>8. CASE Denied
  BY <1>8 DEF Denied, At, Goto, LeaseThen, Pcs, TryPcs, ExceptPcs, FinallyPcs
<1>9. CASE SetStatusRead
  BY <1>9, OnCancelValue DEF SetStatusRead, At, Goto, Raise, SetStatusCalls,
         Pcs, TryPcs, ExceptPcs, FinallyPcs
<1>10. CASE SetStatusSave
  BY <1>10, SaveJobValue DEF SetStatusSave, At, Goto, SetStatusCalls, Pcs,
         TryPcs, ExceptPcs, FinallyPcs, JobStatus, Active, Terminal
<1>11. CASE Progress
  BY <1>11, SaveJobValue DEF Progress, At, Goto, FileStates, Pcs
<1>12. CASE Downloaded
  BY <1>12 DEF Downloaded, At, Goto, AfterDownload, Pcs, TryPcs, ExceptPcs,
         FinallyPcs, FileStates
<1>13. CASE MergeBegins
  BY <1>13 DEF MergeBegins, At, Goto, FileStates
<1>14. CASE Merged
  BY <1>14 DEF Merged, At, Goto, Pcs, TryPcs, ExceptPcs, FinallyPcs,
         FileStates
<1>15. CASE Fails
  BY <1>15 DEF Fails, At, Goto, Pcs, TryPcs, ExceptPcs, FinallyPcs
<1>16. CASE ListRecipients
  BY <1>16 DEF ListRecipients, At, Goto, Pcs, TryPcs, ExceptPcs, FinallyPcs,
         Waiting
<1>17. CASE PickRecipient
  BY <1>17 DEF PickRecipient, At, Goto, Pcs, TryPcs, ExceptPcs, FinallyPcs
<1>18. CASE Send
  <2>1. sent' \in [Recipients -> Nat]
    <3>1. CASE cur \in Recipients
      BY <1>18, <3>1 DEF Send
    <3>2. CASE cur \notin Recipients
      BY <1>18, <3>2 DEF Send
    <3>3. QED
      BY <3>1, <3>2
  <2>2. QED
    BY <1>18, <2>1 DEF Send, At, Goto, Pcs, TryPcs
<1>19. CASE SendUnusable
  <2>1. sent' \in [Recipients -> Nat]
    <3>1. CASE cur \in Recipients
      BY <1>19, <3>1 DEF SendUnusable
    <3>2. CASE cur \notin Recipients
      BY <1>19, <3>2 DEF SendUnusable
    <3>3. QED
      BY <3>1, <3>2
  <2>2. QED
    BY <1>19, <2>1 DEF SendUnusable, At, Goto, Pcs, TryPcs
<1>20. CASE SendFails
  BY <1>20 DEF SendFails, At, Goto, Pcs, TryPcs, ExceptPcs, FinallyPcs
<1>21. CASE MarkRecipient
  <2>1. PICK p \in DOMAIN MarkAs : At(p) /\ sub' = Mark(cur, MarkAs[p])
    BY <1>21 DEF MarkRecipient
  <2>2. MarkAs[p] \in Outcome
    BY <2>1 DEF MarkAs, Outcome
  <2>3. sub' \in [Recipients -> SubStatus]
    BY <2>1, <2>2, MarkType
  <2>4. QED
    BY <1>21, <2>1, <2>3 DEF MarkRecipient, At, MarkAs, Goto, Pcs, TryPcs
<1>22. CASE EndRound
  BY <1>22 DEF EndRound, At, Goto, Pcs, TryPcs, ExceptPcs, FinallyPcs
<1>23. CASE SaveRound
  BY <1>23, SaveJobValue DEF SaveRound, At, Goto, Pcs, TryPcs, ExceptPcs,
         FinallyPcs
<1>24. CASE Finalize
  BY <1>24 DEF Finalize, At, Goto, Finalized, Pcs, TryPcs, ExceptPcs,
         FinallyPcs, JobStatus, Active, Terminal
<1>25. CASE Reread
  BY <1>25 DEF Reread, At, Goto, Pcs, TryPcs, ExceptPcs, FinallyPcs,
         JobStatus, Active, Terminal
<1>26. CASE NotifyOne
  <2>1. PICK r \in Recipients : sub' = Mark(r, NotifiedAs[view])
    BY <1>26 DEF NotifyOne, Waiting
  <2>2. NotifiedAs[view] \in Outcome
    BY <1>26 DEF NotifyOne, NotifiedAs, Outcome
  <2>3. sub' \in [Recipients -> SubStatus]
    BY <2>1, <2>2, MarkType
  <2>4. QED
    BY <1>26, <2>3 DEF NotifyOne
<1>27. CASE NotifyEndDone
  BY <1>27 DEF NotifyEndDone, At, Goto, Pcs, TryPcs, ExceptPcs, FinallyPcs
<1>28. CASE NotifyFailedDone
  BY <1>28 DEF NotifyFailedDone, At, Goto, Pcs, TryPcs, ExceptPcs, FinallyPcs
<1>29. CASE RequeueRead
  BY <1>29 DEF RequeueRead, At, Goto, Pcs, TryPcs, ExceptPcs, FinallyPcs
<1>30. CASE RequeueSave
  BY <1>30, SaveJobValue DEF RequeueSave, At, Goto, Pcs, TryPcs, ExceptPcs,
         FinallyPcs, JobStatus, Active, Terminal
<1>31. CASE FailRead
  BY <1>31 DEF FailRead, At, Goto, Pcs, TryPcs, ExceptPcs, FinallyPcs
<1>32. CASE FinalRead
  BY <1>32 DEF FinalRead, At, Goto, EndTask, ResetLocals, Pcs, TryPcs,
         ExceptPcs, FinallyPcs
<1>33. CASE TaskRelease
  BY <1>33 DEF TaskRelease, At, Goto, Pcs, TryPcs, ExceptPcs, FinallyPcs
<1>34. CASE TaskCleanup
  BY <1>34 DEF TaskCleanup, At, Goto, EndTask, ResetLocals, Pcs, TryPcs,
         ExceptPcs, FinallyPcs, FileStates
<1>35. ASSUME NEW p \in DOMAIN LeaseThen, LeaseGranted(p)
       PROVE  TypeOK'
  BY <1>35 DEF LeaseGranted, At, Goto, LeaseThen, Pcs, TryPcs, ExceptPcs,
         FinallyPcs
<1>36. CASE ReserveGranted("reserve", "check_download")
  BY <1>36 DEF ReserveGranted, At, Goto, Pcs, TryPcs, ExceptPcs, FinallyPcs
<1>37. CASE ReserveGranted("merge_reserve", "merge_status")
  BY <1>37 DEF ReserveGranted, At, Goto, Pcs, TryPcs, ExceptPcs, FinallyPcs
<1>38. ASSUME NEW r \in Recipients, Join(r)
       PROVE  TypeOK'
  BY <1>38 DEF Join, Joinable, SubStatus, Outcome
<1>39. ASSUME NEW r \in Recipients, LeaveJob(r)
       PROVE  TypeOK'
  BY <1>39 DEF LeaveJob, HandlerGoto, AfterLeave, JobStatus, Active, Terminal,
         SubStatus, Outcome, HandlerPcs, Cancellers
<1>40. ASSUME NEW r \in Recipients, CountWaiting(r)
       PROVE  TypeOK'
  BY <1>40 DEF CountWaiting, HandlerGoto, HandlerPcs, Cancellers
<1>41. CASE AdminCancels
  BY <1>41 DEF AdminCancels, HandlerGoto, HandlerPcs, Cancellers
<1>42. ASSUME NEW c \in Cancellers, CancelGet(c)
       PROVE  TypeOK'
  BY <1>42 DEF CancelGet, HandlerGoto, HandlerPcs
<1>43. ASSUME NEW c \in Cancellers, CancelSave(c)
       PROVE  TypeOK'
  BY <1>43, SaveJobValue DEF CancelSave, HandlerGoto, JobStatus, Active,
         Terminal, HandlerPcs
<1>44. ASSUME NEW c \in Cancellers, CancelKill(c)
       PROVE  TypeOK'
  BY <1>44 DEF CancelKill, HandlerGoto, HandlerPcs
<1>45. ASSUME NEW c \in Cancellers, CancelReap(c)
       PROVE  TypeOK'
  BY <1>45 DEF CancelReap, HandlerGoto, Reaped, HandlerPcs
<1>46. ASSUME NEW c \in Cancellers, CancelRelease(c)
       PROVE  TypeOK'
  <2>1. hpc' \in [Cancellers -> HandlerPcs]
    BY <1>46 DEF CancelRelease, HandlerGoto, HandlerPcs
  <2>2. reserved' \in BOOLEAN
    BY <1>46 DEF CancelRelease
  <2>3. UNCHANGED <<status, sub, files, sent, mode, restarts, dispatcher, sweep,
                    pc, interrupted, locals>>
    BY <1>46 DEF CancelRelease
  <2>4. QED
    BY <2>1, <2>2, <2>3
<1>47. ASSUME NEW c \in Cancellers, CancelClean(c)
       PROVE  TypeOK'
  BY <1>47 DEF CancelClean, HandlerGoto, FileStates, HandlerPcs
<1>48. ASSUME NEW c \in Cancellers, CancelNotifyOne(c)
       PROVE  TypeOK'
  BY <1>48, MarkType DEF CancelNotifyOne, Waiting, SubStatus, Outcome
<1>49. ASSUME NEW c \in Cancellers, CancelDone(c)
       PROVE  TypeOK'
  BY <1>49 DEF CancelDone, HandlerGoto, HandlerPcs
<1>50. CASE SweepJobs
  BY <1>50 DEF SweepJobs, Claimable, JobStatus, Active, Terminal
<1>51. CASE SweepSubscribers
  BY <1>51 DEF SweepSubscribers, SubStatus, Outcome
<1>52. CASE Maintain
  BY <1>52 DEF Maintain
<1>52a. CASE CleanOrphans
  BY <1>52a DEF CleanOrphans, FileStates
<1>53. CASE ShutdownBegin
  BY <1>53 DEF ShutdownBegin, HandlerPcs
<1>54. CASE StopTasks
  BY <1>54 DEF StopTasks
<1>55. CASE PrepareShutdown
  BY <1>55 DEF PrepareShutdown, JobStatus, Active, Terminal
<1>56. CASE Crash
  <2>1. restarts' \in 0..MaxRestarts
    BY <1>56 DEF Crash
  <2>2. QED
    BY <1>56, <2>1 DEF Crash, EndTask, ResetLocals, Pcs, HandlerPcs
<1>57. CASE Restart
  <2> DEFINE outcomes == {sub[r] : r \in Known}
  <2>1. Recovered(outcomes, status) \in {status, "queued"} \cup Terminal
    BY RecoveredValue
  <2> HIDE DEF outcomes
  <2>2. status' \in JobStatus
    BY <1>57, <2>1 DEF Restart, outcomes, JobStatus, Active, Terminal
  <2>3. QED
    BY <1>57, <2>2 DEF Restart
<1>58. CASE UNCHANGED vars
  BY <1>58 DEF vars
<1> HIDE DEF TypeOK, durable, locals, service
<1>59. CASE Task
  BY <1>59, <1>3, <1>4, <1>5, <1>6, <1>7, <1>8, <1>9, <1>10, <1>11, <1>12,
     <1>13, <1>14, <1>15, <1>16, <1>17, <1>18, <1>19, <1>20, <1>21, <1>22,
     <1>23, <1>24, <1>25, <1>26, <1>27, <1>28, <1>29, <1>30, <1>31, <1>32,
     <1>33, <1>34, <1>35, <1>36, <1>37 DEF Task
<1>60. ASSUME NEW c \in Cancellers, CancelJob(c)
       PROVE  TypeOK'
  BY <1>60, <1>42, <1>43, <1>44, <1>45, <1>46, <1>47, <1>48, <1>49 DEF CancelJob
<1>61. CASE Environment
  BY <1>61, <1>38, <1>39, <1>41, <1>50, <1>53, <1>56
     DEF Environment
<1>62. CASE Program
  BY <1>62, <1>59, <1>60, <1>1, <1>2, <1>40, <1>51, <1>52, <1>52a, <1>54, <1>55, <1>57
     DEF Program
<1>63. QED
  BY <1>58, <1>61, <1>62 DEF Next

\* The initial values have their types.
LEMMA InitType == Init => TypeOK
<1> SUFFICES ASSUME Init PROVE TypeOK
  OBVIOUS
<1>1. sub \in [Recipients -> SubStatus]
  BY DEF Init, SubStatus
<1>2. sent \in [Recipients -> Nat] /\ hpc \in [Cancellers -> HandlerPcs]
  BY DEF Init, HandlerPcs
<1>3. restarts \in 0..MaxRestarts
  BY DEF Init
<1>4. QED
  BY <1>1, <1>2, <1>3 DEF Init, TypeOK, JobStatus, Active, FileStates, Pcs

\* Every variable keeps to its type in every behaviour.
THEOREM TypeCorrect == Spec => []TypeOK
<1>1. Init => TypeOK
  BY InitType
<1>2. TypeOK /\ [Next]_vars => TypeOK'
  BY TypeStep
<1>3. QED
  BY <1>1, <1>2, PTL DEF Spec

-----------------------------------------------------------------------------
(***************************************************************************)
(* The invariant of the task                                               *)
(***************************************************************************)

\* The task and the job's status move together.
LEMMA TaskStep == TypeOK /\ TaskInv /\ CancelInv /\ [Next]_vars => TaskInv'
<1> SUFFICES ASSUME TypeOK, TaskInv, CancelInv, [Next]_vars PROVE TaskInv'
  OBVIOUS
<1> USE DEF TaskInv, RunningJobHasTask, durable, locals, service
<1>1. CASE Claim
  BY <1>1 DEF Claim, Claimable, Active, Terminal
<1>2. CASE CreateTask
  BY <1>2 DEF CreateTask, OngoingPcs, UploadPcs, TryPcs, ExceptPcs,
         ReservedPcs, FinallyPcs, Claimable, CancelInv, Active
<1>3. CASE DeliverCancel
  BY <1>3 DEF DeliverCancel, EndTask, ResetLocals, OnCancel, OngoingPcs,
         UploadPcs, TryPcs, ExceptPcs, ReservedPcs, FinallyPcs, Active,
         Terminal, Claimable, CancelInv, TypeOK
<1>4. CASE Begin
  BY <1>4 DEF Begin, At, Goto, OngoingPcs, UploadPcs, TryPcs, ExceptPcs,
         ReservedPcs, FinallyPcs, Active, Terminal
<1>5. CASE FormatsResolved
  BY <1>5 DEF FormatsResolved, At, Goto, OngoingPcs, UploadPcs, TryPcs,
         ExceptPcs, ReservedPcs, FinallyPcs
<1>6. CASE FormatsDenied
  BY <1>6 DEF FormatsDenied, At, Goto, OngoingPcs, UploadPcs, TryPcs,
         ExceptPcs, ReservedPcs, FinallyPcs
<1>7. CASE CheckCancelled
  BY <1>7 DEF CheckCancelled, At, Goto, Raise, OnCancel, AfterCheck,
         AfterDownload, OngoingPcs, UploadPcs, TryPcs, ExceptPcs, ReservedPcs,
         FinallyPcs, Active, Terminal
<1>8. CASE Denied
  BY <1>8 DEF Denied, At, Goto, LeaseThen, OngoingPcs, UploadPcs, TryPcs,
         ExceptPcs, ReservedPcs, FinallyPcs
<1>9. CASE SetStatusRead
  BY <1>9 DEF SetStatusRead, At, Goto, Raise, OnCancel, SetStatusCalls,
         OngoingPcs, UploadPcs, TryPcs, ExceptPcs, ReservedPcs, FinallyPcs,
         Active, Terminal
<1>10. CASE SetStatusSave
  BY <1>10, SaveJobValue DEF SetStatusSave, At, Goto, SetStatusCalls,
         OngoingPcs, UploadPcs, TryPcs, ExceptPcs, ReservedPcs, FinallyPcs,
         Active, Terminal, Claimable
<1>11. CASE Progress
  BY <1>11, SaveJobValue DEF Progress, At, Goto, Active, Terminal, Claimable,
         OngoingPcs, UploadPcs, TryPcs, ExceptPcs, ReservedPcs, FinallyPcs
<1>12. CASE Downloaded
  BY <1>12 DEF Downloaded, At, Goto, AfterDownload, OngoingPcs, UploadPcs,
         TryPcs, ExceptPcs, ReservedPcs, FinallyPcs
<1>13. CASE MergeBegins
  BY <1>13 DEF MergeBegins, At, Goto
<1>14. CASE Merged
  BY <1>14 DEF Merged, At, Goto, OngoingPcs, UploadPcs, TryPcs, ExceptPcs,
         ReservedPcs, FinallyPcs
<1>15. CASE Fails
  BY <1>15 DEF Fails, At, Goto, OngoingPcs, UploadPcs, TryPcs, ExceptPcs,
         ReservedPcs, FinallyPcs
<1>16. CASE ListRecipients
  BY <1>16 DEF ListRecipients, At, Goto, OngoingPcs, UploadPcs, TryPcs,
         ExceptPcs, ReservedPcs, FinallyPcs
<1>17. CASE PickRecipient
  BY <1>17 DEF PickRecipient, At, Goto, OngoingPcs, UploadPcs, TryPcs,
         ExceptPcs, ReservedPcs, FinallyPcs
<1>18. CASE Send
  BY <1>18 DEF Send, At, Goto, OngoingPcs, UploadPcs, TryPcs, ExceptPcs,
         ReservedPcs, FinallyPcs
<1>19. CASE SendUnusable
  BY <1>19 DEF SendUnusable, At, Goto, OngoingPcs, UploadPcs, TryPcs,
         ExceptPcs, ReservedPcs, FinallyPcs
<1>20. CASE SendFails
  BY <1>20 DEF SendFails, At, Goto, OngoingPcs, UploadPcs, TryPcs, ExceptPcs,
         ReservedPcs, FinallyPcs
<1>21. CASE MarkRecipient
  BY <1>21 DEF MarkRecipient, At, Goto, MarkAs, OngoingPcs, UploadPcs, TryPcs,
         ExceptPcs, ReservedPcs, FinallyPcs
<1>22. CASE EndRound
  BY <1>22 DEF EndRound, At, Goto, OngoingPcs, UploadPcs, TryPcs, ExceptPcs,
         ReservedPcs, FinallyPcs
<1>23. CASE SaveRound
  BY <1>23, SaveJobValue DEF SaveRound, At, Goto, OngoingPcs, UploadPcs,
         TryPcs, ExceptPcs, ReservedPcs, FinallyPcs, Active, Terminal,
         Claimable
<1>24. CASE Finalize
  BY <1>24 DEF Finalize, At, Goto, Finalized, OngoingPcs, UploadPcs, TryPcs,
         ExceptPcs, ReservedPcs, FinallyPcs, Active, Terminal, Claimable
<1>25. CASE Reread
  BY <1>25 DEF Reread, At, Goto, OngoingPcs, UploadPcs, TryPcs, ExceptPcs,
         ReservedPcs, FinallyPcs, Active, Terminal
<1>26. CASE NotifyOne
  BY <1>26 DEF NotifyOne, At, Goto, NotifiedAs
<1>27. CASE NotifyEndDone
  BY <1>27 DEF NotifyEndDone, At, Goto, OngoingPcs, UploadPcs, TryPcs,
         ExceptPcs, ReservedPcs, FinallyPcs, Active, Terminal
<1>28. CASE NotifyFailedDone
  BY <1>28 DEF NotifyFailedDone, At, Goto, OngoingPcs, UploadPcs, TryPcs,
         ExceptPcs, ReservedPcs, FinallyPcs, Active
<1>29. CASE RequeueRead
  BY <1>29 DEF RequeueRead, At, Goto, OngoingPcs, UploadPcs, TryPcs,
         ExceptPcs, ReservedPcs, FinallyPcs, Active, Terminal
<1>30. CASE RequeueSave
  BY <1>30, SaveJobValue DEF RequeueSave, At, Goto, OngoingPcs, UploadPcs,
         TryPcs, ExceptPcs, ReservedPcs, FinallyPcs, Active, Terminal,
         Claimable
<1>31. CASE FailRead
  BY <1>31 DEF FailRead, At, Goto, OngoingPcs, UploadPcs, TryPcs, ExceptPcs,
         ReservedPcs, FinallyPcs, Active, Terminal
<1>32. CASE FinalRead
  BY <1>32 DEF FinalRead, At, Goto, EndTask, ResetLocals, OngoingPcs,
         UploadPcs, TryPcs, ExceptPcs, ReservedPcs, FinallyPcs, Active,
         Terminal, Claimable
<1>33. CASE TaskRelease
  BY <1>33 DEF TaskRelease, At, Goto, OngoingPcs, UploadPcs, TryPcs,
         ExceptPcs, ReservedPcs, FinallyPcs
<1>34. CASE TaskCleanup
  BY <1>34 DEF TaskCleanup, At, Goto, EndTask, ResetLocals, OngoingPcs,
         UploadPcs, TryPcs, ExceptPcs, ReservedPcs, FinallyPcs
<1>35. ASSUME NEW p \in DOMAIN LeaseThen, LeaseGranted(p)
       PROVE  TaskInv'
  BY <1>35 DEF LeaseGranted, At, Goto, LeaseThen, OngoingPcs, UploadPcs,
         TryPcs, ExceptPcs, ReservedPcs, FinallyPcs
<1>36. CASE ReserveGranted("reserve", "check_download")
  BY <1>36 DEF ReserveGranted, At, Goto, OngoingPcs, UploadPcs, TryPcs,
         ExceptPcs, ReservedPcs, FinallyPcs
<1>37. CASE ReserveGranted("merge_reserve", "merge_status")
  BY <1>37 DEF ReserveGranted, At, Goto, OngoingPcs, UploadPcs, TryPcs,
         ExceptPcs, ReservedPcs, FinallyPcs
<1>38. ASSUME NEW r \in Recipients, Join(r)
       PROVE  TaskInv'
  BY <1>38 DEF Join, Joinable, Active, Terminal
<1>39. ASSUME NEW r \in Recipients, LeaveJob(r)
       PROVE  TaskInv'
  BY <1>39 DEF LeaveJob, HandlerGoto, AfterLeave, Active, Terminal, Claimable
<1>40. ASSUME NEW r \in Recipients, CountWaiting(r)
       PROVE  TaskInv'
  BY <1>40 DEF CountWaiting, HandlerGoto
<1>41. CASE AdminCancels
  BY <1>41 DEF AdminCancels, HandlerGoto
<1>42. ASSUME NEW c \in Cancellers, CancelGet(c)
       PROVE  TaskInv'
  BY <1>42 DEF CancelGet, HandlerGoto
<1>43. ASSUME NEW c \in Cancellers, CancelSave(c)
       PROVE  TaskInv'
  BY <1>43, SaveJobValue DEF CancelSave, HandlerGoto, Active, Terminal,
         Claimable, CancelInv
<1>44. ASSUME NEW c \in Cancellers, CancelKill(c)
       PROVE  TaskInv'
  BY <1>44 DEF CancelKill, HandlerGoto, CancelInv
<1>45. ASSUME NEW c \in Cancellers, CancelReap(c)
       PROVE  TaskInv'
  BY <1>45 DEF CancelReap, HandlerGoto, Reaped
<1>46. ASSUME NEW c \in Cancellers, CancelRelease(c)
       PROVE  TaskInv'
  BY <1>46 DEF CancelRelease, HandlerGoto, Active, Terminal, CancelInv,
         CancellingPcs
<1>47. ASSUME NEW c \in Cancellers, CancelClean(c)
       PROVE  TaskInv'
  BY <1>47 DEF CancelClean, HandlerGoto
<1>48. ASSUME NEW c \in Cancellers, CancelNotifyOne(c)
       PROVE  TaskInv'
  BY <1>48 DEF CancelNotifyOne
<1>49. ASSUME NEW c \in Cancellers, CancelDone(c)
       PROVE  TaskInv'
  BY <1>49 DEF CancelDone, HandlerGoto
<1>50. CASE SweepJobs
  BY <1>50 DEF SweepJobs, Claimable, Active, Terminal
<1>51. CASE SweepSubscribers
  BY <1>51 DEF SweepSubscribers
<1>52. CASE Maintain
  BY <1>52 DEF Maintain, Active, Terminal, CancelInv, OngoingPcs, UploadPcs,
         TryPcs, ExceptPcs, ReservedPcs, FinallyPcs
<1>52a. CASE CleanOrphans
  BY <1>52a DEF CleanOrphans, Active, Terminal, CancelInv, OngoingPcs, UploadPcs,
         TryPcs, ExceptPcs, ReservedPcs, FinallyPcs
<1>53. CASE ShutdownBegin
  BY <1>53 DEF ShutdownBegin, CancelInv
<1>54. CASE StopTasks
  BY <1>54 DEF StopTasks, CancelInv
<1>55. CASE PrepareShutdown
  BY <1>55 DEF PrepareShutdown, Active, Terminal, Claimable, CancelInv,
         OngoingPcs, UploadPcs, TryPcs, ExceptPcs, ReservedPcs, FinallyPcs
<1>56. CASE Crash
  BY <1>56 DEF Crash, EndTask, ResetLocals, CancelInv, OngoingPcs, UploadPcs,
         TryPcs, ExceptPcs, ReservedPcs, FinallyPcs
<1>57. CASE Restart
  <2> DEFINE outcomes == {sub[r] : r \in Known}
  <2>1. /\ status \in Active => Recovered(outcomes, status) \in {"queued"} \cup Terminal
        /\ status \notin Active => Recovered(outcomes, status) = status
    BY RecoveredValue DEF TypeOK
  <2> HIDE DEF outcomes
  <2>2. status' \in Terminal \cup {"queued"}
    BY <1>57, <2>1 DEF Restart, outcomes, TypeOK, JobStatus, Terminal
  <2>3. pc' = "none" /\ dispatcher' = "idle"
    BY <1>57 DEF Restart, CancelInv
  <2>4. QED
    BY <2>2, <2>3 DEF Claimable, Active, Terminal, OngoingPcs, UploadPcs,
       TryPcs, ExceptPcs, ReservedPcs
<1>58. CASE UNCHANGED vars
  BY <1>58 DEF vars
<1> HIDE DEF TaskInv, RunningJobHasTask, durable, locals, service
<1>59. CASE Task
  BY <1>59, <1>3, <1>4, <1>5, <1>6, <1>7, <1>8, <1>9, <1>10, <1>11, <1>12,
     <1>13, <1>14, <1>15, <1>16, <1>17, <1>18, <1>19, <1>20, <1>21, <1>22,
     <1>23, <1>24, <1>25, <1>26, <1>27, <1>28, <1>29, <1>30, <1>31, <1>32,
     <1>33, <1>34, <1>35, <1>36, <1>37 DEF Task
<1>60. ASSUME NEW c \in Cancellers, CancelJob(c)
       PROVE  TaskInv'
  BY <1>60, <1>42, <1>43, <1>44, <1>45, <1>46, <1>47, <1>48, <1>49 DEF CancelJob
<1>61. CASE Environment
  BY <1>61, <1>38, <1>39, <1>41, <1>50, <1>53, <1>56
     DEF Environment
<1>62. CASE Program
  BY <1>62, <1>59, <1>60, <1>1, <1>2, <1>40, <1>51, <1>52, <1>52a, <1>54, <1>55, <1>57
     DEF Program
<1>63. QED
  BY <1>58, <1>61, <1>62 DEF Next

-----------------------------------------------------------------------------
(***************************************************************************)
(* Cancellation                                                            *)
(***************************************************************************)

\* No step takes a cancelled job out of CANCELLED.
LEMMA CancelledStep ==
    TypeOK /\ [Next]_vars => (status = "cancelled" => status' = "cancelled")
<1> SUFFICES ASSUME [Next]_vars, status = "cancelled" PROVE status' = "cancelled"
  OBVIOUS
<1> USE DEF durable, locals, service
<1>1. CASE Claim
  BY <1>1 DEF Claim, Claimable, Active
<1>2. CASE CreateTask
  BY <1>2 DEF CreateTask
<1>3. CASE DeliverCancel
  BY <1>3 DEF DeliverCancel, EndTask, ResetLocals
<1>4. CASE Begin
  BY <1>4 DEF Begin, At, Goto
<1>5. CASE FormatsResolved
  BY <1>5 DEF FormatsResolved, At, Goto
<1>6. CASE FormatsDenied
  BY <1>6 DEF FormatsDenied, At, Goto
<1>7. CASE CheckCancelled
  BY <1>7 DEF CheckCancelled, At, Goto, Raise, AfterCheck, AfterDownload
<1>8. CASE Denied
  BY <1>8 DEF Denied, At, Goto, LeaseThen
<1>9. CASE SetStatusRead
  BY <1>9 DEF SetStatusRead, At, Goto, Raise, SetStatusCalls
<1>10. CASE SetStatusSave
  BY <1>10, SaveJobValue DEF SetStatusSave, At, Goto, SetStatusCalls
<1>11. CASE Progress
  BY <1>11, SaveJobValue DEF Progress, At, Goto
<1>12. CASE Downloaded
  BY <1>12 DEF Downloaded, At, Goto, AfterDownload
<1>13. CASE MergeBegins
  BY <1>13 DEF MergeBegins, At, Goto
<1>14. CASE Merged
  BY <1>14 DEF Merged, At, Goto
<1>15. CASE Fails
  BY <1>15 DEF Fails, At, Goto
<1>16. CASE ListRecipients
  BY <1>16 DEF ListRecipients, At, Goto
<1>17. CASE PickRecipient
  BY <1>17 DEF PickRecipient, At, Goto
<1>18. CASE Send
  BY <1>18 DEF Send, At, Goto
<1>19. CASE SendUnusable
  BY <1>19 DEF SendUnusable, At, Goto
<1>20. CASE SendFails
  BY <1>20 DEF SendFails, At, Goto
<1>21. CASE MarkRecipient
  BY <1>21 DEF MarkRecipient, At, Goto, MarkAs
<1>22. CASE EndRound
  BY <1>22 DEF EndRound, At, Goto
<1>23. CASE SaveRound
  BY <1>23, SaveJobValue DEF SaveRound, At, Goto
<1>24. CASE Finalize
  BY <1>24 DEF Finalize, At, Goto, Finalized
<1>25. CASE Reread
  BY <1>25 DEF Reread, At, Goto
<1>26. CASE NotifyOne
  BY <1>26 DEF NotifyOne, At, Goto, NotifiedAs
<1>27. CASE NotifyEndDone
  BY <1>27 DEF NotifyEndDone, At, Goto
<1>28. CASE NotifyFailedDone
  BY <1>28 DEF NotifyFailedDone, At, Goto
<1>29. CASE RequeueRead
  BY <1>29 DEF RequeueRead, At, Goto
<1>30. CASE RequeueSave
  BY <1>30, SaveJobValue DEF RequeueSave, At, Goto
<1>31. CASE FailRead
  BY <1>31 DEF FailRead, At, Goto
<1>32. CASE FinalRead
  BY <1>32 DEF FinalRead, At, Goto, EndTask, ResetLocals
<1>33. CASE TaskRelease
  BY <1>33 DEF TaskRelease, At, Goto
<1>34. CASE TaskCleanup
  BY <1>34 DEF TaskCleanup, At, Goto, EndTask, ResetLocals
<1>35. ASSUME NEW p \in DOMAIN LeaseThen, LeaseGranted(p)
       PROVE  status' = "cancelled"
  BY <1>35 DEF LeaseGranted, At, Goto, LeaseThen
<1>36. CASE ReserveGranted("reserve", "check_download")
  BY <1>36 DEF ReserveGranted, At, Goto
<1>37. CASE ReserveGranted("merge_reserve", "merge_status")
  BY <1>37 DEF ReserveGranted, At, Goto
<1>38. ASSUME NEW r \in Recipients, Join(r)
       PROVE  status' = "cancelled"
  BY <1>38 DEF Join, Joinable
<1>39. ASSUME NEW r \in Recipients, LeaveJob(r)
       PROVE  status' = "cancelled"
  BY <1>39 DEF LeaveJob, HandlerGoto, AfterLeave, Active
<1>40. ASSUME NEW r \in Recipients, CountWaiting(r)
       PROVE  status' = "cancelled"
  BY <1>40 DEF CountWaiting, HandlerGoto
<1>41. CASE AdminCancels
  BY <1>41 DEF AdminCancels, HandlerGoto
<1>42. ASSUME NEW c \in Cancellers, CancelGet(c)
       PROVE  status' = "cancelled"
  BY <1>42 DEF CancelGet, HandlerGoto
<1>43. ASSUME NEW c \in Cancellers, CancelSave(c)
       PROVE  status' = "cancelled"
  BY <1>43, SaveJobValue DEF CancelSave, HandlerGoto
<1>44. ASSUME NEW c \in Cancellers, CancelKill(c)
       PROVE  status' = "cancelled"
  BY <1>44 DEF CancelKill, HandlerGoto
<1>45. ASSUME NEW c \in Cancellers, CancelReap(c)
       PROVE  status' = "cancelled"
  BY <1>45 DEF CancelReap, HandlerGoto, Reaped
<1>46. ASSUME NEW c \in Cancellers, CancelRelease(c)
       PROVE  status' = "cancelled"
  BY <1>46 DEF CancelRelease, HandlerGoto
<1>47. ASSUME NEW c \in Cancellers, CancelClean(c)
       PROVE  status' = "cancelled"
  BY <1>47 DEF CancelClean, HandlerGoto
<1>48. ASSUME NEW c \in Cancellers, CancelNotifyOne(c)
       PROVE  status' = "cancelled"
  BY <1>48 DEF CancelNotifyOne
<1>49. ASSUME NEW c \in Cancellers, CancelDone(c)
       PROVE  status' = "cancelled"
  BY <1>49 DEF CancelDone, HandlerGoto
<1>50. CASE SweepJobs
  BY <1>50 DEF SweepJobs, Claimable, Active
<1>51. CASE SweepSubscribers
  BY <1>51 DEF SweepSubscribers
<1>52. CASE Maintain
  BY <1>52 DEF Maintain
<1>52a. CASE CleanOrphans
  BY <1>52a DEF CleanOrphans
<1>53. CASE ShutdownBegin
  BY <1>53 DEF ShutdownBegin
<1>54. CASE StopTasks
  BY <1>54 DEF StopTasks
<1>55. CASE PrepareShutdown
  BY <1>55 DEF PrepareShutdown, Active
<1>56. CASE Crash
  BY <1>56 DEF Crash, EndTask, ResetLocals
<1>57. CASE Restart
  <2> DEFINE outcomes == {sub[r] : r \in Known}
  <2>1. Recovered(outcomes, status) = status
    BY RecoveredValue DEF JobStatus, Active, Terminal
  <2> HIDE DEF outcomes
  <2>2. QED
    BY <1>57, <2>1 DEF Restart, outcomes, Active
<1>58. CASE UNCHANGED vars
  BY <1>58 DEF vars
<1> HIDE DEF durable, locals, service
<1>59. CASE Task
  BY <1>59, <1>3, <1>4, <1>5, <1>6, <1>7, <1>8, <1>9, <1>10, <1>11, <1>12,
     <1>13, <1>14, <1>15, <1>16, <1>17, <1>18, <1>19, <1>20, <1>21, <1>22,
     <1>23, <1>24, <1>25, <1>26, <1>27, <1>28, <1>29, <1>30, <1>31, <1>32,
     <1>33, <1>34, <1>35, <1>36, <1>37 DEF Task
<1>60. ASSUME NEW c \in Cancellers, CancelJob(c)
       PROVE  status' = "cancelled"
  BY <1>60, <1>42, <1>43, <1>44, <1>45, <1>46, <1>47, <1>48, <1>49 DEF CancelJob
<1>61. CASE Environment
  BY <1>61, <1>38, <1>39, <1>41, <1>50, <1>53, <1>56
     DEF Environment
<1>62. CASE Program
  BY <1>62, <1>59, <1>60, <1>1, <1>2, <1>40, <1>51, <1>52, <1>52a, <1>54, <1>55, <1>57
     DEF Program
<1>63. QED
  BY <1>58, <1>61, <1>62 DEF Next

\* CANCELLED is durable whatever is saved, claimed or recovered afterwards.
THEOREM CancelledForGood == Spec => CancelledIsFinal
<1>1. TypeOK /\ [Next]_vars => [status = "cancelled" => status' = "cancelled"]_vars
  BY CancelledStep
<1>2. QED
  BY <1>1, TypeCorrect, PTL DEF Spec, CancelledIsFinal

\* Cancel handlers, the interruption of the task and the shutdown agree.
LEMMA CancelStep == TypeOK /\ TaskInv /\ CancelInv /\ [Next]_vars => CancelInv'
<1> SUFFICES ASSUME TypeOK, TaskInv, CancelInv, [Next]_vars PROVE CancelInv'
  OBVIOUS
<1> USE DEF CancelInv, WorkingPcs, durable, locals, service
<1>0. status = "cancelled" => status' = "cancelled"
  BY CancelledStep
<1>1. CASE Claim
  BY <1>1, <1>0 DEF Claim, Claimable, TaskInv
<1>2. CASE CreateTask
  BY <1>2, <1>0 DEF CreateTask, TryPcs, ExceptPcs, FinallyPcs, TaskInv
<1>3. CASE DeliverCancel
  BY <1>3, <1>0 DEF DeliverCancel, EndTask, ResetLocals, OnCancel, TryPcs,
         ExceptPcs, FinallyPcs
<1>4. CASE Begin
  BY <1>4, <1>0 DEF Begin, At, Goto, TryPcs, ExceptPcs, FinallyPcs
<1>5. CASE FormatsResolved
  BY <1>5, <1>0 DEF FormatsResolved, At, Goto, TryPcs, ExceptPcs, FinallyPcs
<1>6. CASE FormatsDenied
  BY <1>6, <1>0 DEF FormatsDenied, At, Goto, TryPcs, ExceptPcs, FinallyPcs
<1>7. CASE CheckCancelled
  <2>1. status = "cancelled" => pc' = "requeue_read"
    BY <1>7 DEF CheckCancelled, Raise, OnCancel, At, TryPcs
  <2>2. pc \in TryPcs /\ pc # "none" /\ ~interrupted /\ ~interrupted' /\ pc' # "none"
    BY <1>7 DEF CheckCancelled, Raise, OnCancel, At, Goto, AfterCheck,
       AfterDownload, TryPcs
  <2>3. QED
    BY <1>7, <1>0, <2>1, <2>2 DEF CheckCancelled, CancellingPcs, TryPcs
<1>8. CASE Denied
  BY <1>8, <1>0 DEF Denied, At, Goto, LeaseThen, TryPcs, ExceptPcs, FinallyPcs
<1>9. CASE SetStatusRead
  BY <1>9, <1>0 DEF SetStatusRead, At, Goto, Raise, OnCancel, SetStatusCalls,
         TryPcs, ExceptPcs, FinallyPcs
<1>10. CASE SetStatusSave
  BY <1>10, <1>0 DEF SetStatusSave, At, Goto, SetStatusCalls, TryPcs,
         ExceptPcs, FinallyPcs
<1>11. CASE Progress
  BY <1>11, <1>0 DEF Progress, At, Goto
<1>12. CASE Downloaded
  BY <1>12, <1>0 DEF Downloaded, At, Goto, AfterDownload, TryPcs, ExceptPcs,
         FinallyPcs
<1>13. CASE MergeBegins
  BY <1>13, <1>0 DEF MergeBegins, At, Goto
<1>14. CASE Merged
  BY <1>14, <1>0 DEF Merged, At, Goto, TryPcs, ExceptPcs, FinallyPcs
<1>15. CASE Fails
  BY <1>15, <1>0 DEF Fails, At, Goto, TryPcs, ExceptPcs, FinallyPcs
<1>16. CASE ListRecipients
  BY <1>16, <1>0 DEF ListRecipients, At, Goto, TryPcs, ExceptPcs, FinallyPcs
<1>17. CASE PickRecipient
  BY <1>17, <1>0 DEF PickRecipient, At, Goto, TryPcs, ExceptPcs, FinallyPcs
<1>18. CASE Send
  BY <1>18, <1>0 DEF Send, At, Goto, TryPcs, ExceptPcs, FinallyPcs
<1>19. CASE SendUnusable
  BY <1>19, <1>0 DEF SendUnusable, At, Goto, TryPcs, ExceptPcs, FinallyPcs
<1>20. CASE SendFails
  BY <1>20, <1>0 DEF SendFails, At, Goto, TryPcs, ExceptPcs, FinallyPcs
<1>21. CASE MarkRecipient
  BY <1>21, <1>0 DEF MarkRecipient, At, Goto, MarkAs, TryPcs, ExceptPcs,
         FinallyPcs
<1>22. CASE EndRound
  BY <1>22, <1>0 DEF EndRound, At, Goto, TryPcs, ExceptPcs, FinallyPcs
<1>23. CASE SaveRound
  BY <1>23, <1>0 DEF SaveRound, At, Goto, TryPcs, ExceptPcs, FinallyPcs
<1>24. CASE Finalize
  BY <1>24, <1>0 DEF Finalize, At, Goto, Finalized, TryPcs, ExceptPcs,
         FinallyPcs
<1>25. CASE Reread
  BY <1>25, <1>0 DEF Reread, At, Goto, TryPcs, ExceptPcs, FinallyPcs
<1>26. CASE NotifyOne
  BY <1>26, <1>0 DEF NotifyOne, At, Goto, NotifiedAs
<1>27. CASE NotifyEndDone
  BY <1>27, <1>0 DEF NotifyEndDone, At, Goto, TryPcs, ExceptPcs, FinallyPcs
<1>28. CASE NotifyFailedDone
  BY <1>28, <1>0 DEF NotifyFailedDone, At, Goto, TryPcs, ExceptPcs, FinallyPcs
<1>29. CASE RequeueRead
  BY <1>29, <1>0 DEF RequeueRead, At, Goto, TryPcs, ExceptPcs, FinallyPcs
<1>30. CASE RequeueSave
  BY <1>30, <1>0 DEF RequeueSave, At, Goto, TryPcs, ExceptPcs, FinallyPcs
<1>31. CASE FailRead
  BY <1>31, <1>0 DEF FailRead, At, Goto, TryPcs, ExceptPcs, FinallyPcs
<1>32. CASE FinalRead
  BY <1>32, <1>0 DEF FinalRead, At, Goto, EndTask, ResetLocals, TryPcs,
         ExceptPcs, FinallyPcs
<1>33. CASE TaskRelease
  BY <1>33, <1>0 DEF TaskRelease, At, Goto, TryPcs, ExceptPcs, FinallyPcs
<1>34. CASE TaskCleanup
  BY <1>34, <1>0 DEF TaskCleanup, At, Goto, EndTask, ResetLocals, TryPcs,
         ExceptPcs, FinallyPcs
<1>35. ASSUME NEW p \in DOMAIN LeaseThen, LeaseGranted(p)
       PROVE  CancelInv'
  BY <1>35, <1>0 DEF LeaseGranted, At, Goto, LeaseThen, TryPcs, ExceptPcs,
         FinallyPcs
<1>36. CASE ReserveGranted("reserve", "check_download")
  BY <1>36, <1>0 DEF ReserveGranted, At, Goto, TryPcs, ExceptPcs, FinallyPcs
<1>37. CASE ReserveGranted("merge_reserve", "merge_status")
  BY <1>37, <1>0 DEF ReserveGranted, At, Goto, TryPcs, ExceptPcs, FinallyPcs
<1>38. ASSUME NEW r \in Recipients, Join(r)
       PROVE  CancelInv'
  BY <1>38, <1>0 DEF Join, Joinable
<1>39. ASSUME NEW r \in Recipients, LeaveJob(r)
       PROVE  CancelInv'
  BY <1>39, <1>0 DEF LeaveJob, HandlerGoto, AfterLeave, CancellingPcs, TypeOK,
         Cancellers
<1>40. ASSUME NEW r \in Recipients, CountWaiting(r)
       PROVE  CancelInv'
  BY <1>40, <1>0 DEF CountWaiting, HandlerGoto, CancellingPcs, TypeOK,
         Cancellers
<1>41. CASE AdminCancels
  BY <1>41, <1>0 DEF AdminCancels, HandlerGoto, CancellingPcs, TypeOK,
         Cancellers
<1>42. ASSUME NEW c \in Cancellers, CancelGet(c)
       PROVE  CancelInv'
  BY <1>42, <1>0 DEF CancelGet, HandlerGoto, CancellingPcs, TypeOK
<1>43. ASSUME NEW c \in Cancellers, CancelSave(c)
       PROVE  CancelInv'
  BY <1>43, <1>0, SaveJobValue DEF CancelSave, HandlerGoto, CancellingPcs,
         TypeOK
<1>44. ASSUME NEW c \in Cancellers, CancelKill(c)
       PROVE  CancelInv'
  BY <1>44, <1>0 DEF CancelKill, HandlerGoto, CancellingPcs, TypeOK, TaskInv,
         TryPcs, ExceptPcs, FinallyPcs
<1>45. ASSUME NEW c \in Cancellers, CancelReap(c)
       PROVE  CancelInv'
  BY <1>45, <1>0 DEF CancelReap, HandlerGoto, Reaped, CancellingPcs, TypeOK,
         TryPcs, ExceptPcs, FinallyPcs
<1>46. ASSUME NEW c \in Cancellers, CancelRelease(c)
       PROVE  CancelInv'
  BY <1>46, <1>0 DEF CancelRelease, HandlerGoto, CancellingPcs, TypeOK
<1>47. ASSUME NEW c \in Cancellers, CancelClean(c)
       PROVE  CancelInv'
  BY <1>47, <1>0 DEF CancelClean, HandlerGoto, CancellingPcs, TypeOK
<1>48. ASSUME NEW c \in Cancellers, CancelNotifyOne(c)
       PROVE  CancelInv'
  BY <1>48, <1>0 DEF CancelNotifyOne
<1>49. ASSUME NEW c \in Cancellers, CancelDone(c)
       PROVE  CancelInv'
  BY <1>49, <1>0 DEF CancelDone, HandlerGoto, CancellingPcs, TypeOK
<1>50. CASE SweepJobs
  BY <1>50, <1>0 DEF SweepJobs, Claimable
<1>51. CASE SweepSubscribers
  BY <1>51, <1>0 DEF SweepSubscribers
<1>52. CASE Maintain
  BY <1>52, <1>0 DEF Maintain
<1>52a. CASE CleanOrphans
  BY <1>52a, <1>0 DEF CleanOrphans
<1>53. CASE ShutdownBegin
  <2>1. restarts' > 0
    BY <1>53 DEF ShutdownBegin, TypeOK
  <2>2. QED
    BY <1>53, <1>0, <2>1 DEF ShutdownBegin, CancellingPcs
<1>54. CASE StopTasks
  BY <1>54, <1>0 DEF StopTasks, TryPcs, ExceptPcs, FinallyPcs, CancellingPcs
<1>55. CASE PrepareShutdown
  BY <1>55, <1>0 DEF PrepareShutdown, CancellingPcs
<1>56. CASE Crash
  BY <1>56, <1>0 DEF Crash, EndTask, ResetLocals, CancellingPcs, TypeOK
<1>57. CASE Restart
  BY <1>57, <1>0 DEF Restart, CancellingPcs
<1>58. CASE UNCHANGED vars
  BY <1>58, <1>0 DEF vars
<1> HIDE DEF CancelInv, WorkingPcs, durable, locals, service
<1>59. CASE Task
  BY <1>59, <1>3, <1>4, <1>5, <1>6, <1>7, <1>8, <1>9, <1>10, <1>11, <1>12,
     <1>13, <1>14, <1>15, <1>16, <1>17, <1>18, <1>19, <1>20, <1>21, <1>22,
     <1>23, <1>24, <1>25, <1>26, <1>27, <1>28, <1>29, <1>30, <1>31, <1>32,
     <1>33, <1>34, <1>35, <1>36, <1>37 DEF Task
<1>60. ASSUME NEW c \in Cancellers, CancelJob(c)
       PROVE  CancelInv'
  BY <1>60, <1>42, <1>43, <1>44, <1>45, <1>46, <1>47, <1>48, <1>49 DEF CancelJob
<1>61. CASE Environment
  BY <1>61, <1>38, <1>39, <1>41, <1>50, <1>53, <1>56
     DEF Environment
<1>62. CASE Program
  BY <1>62, <1>59, <1>60, <1>1, <1>2, <1>40, <1>51, <1>52, <1>52a, <1>54, <1>55, <1>57
     DEF Program
<1>63. QED
  BY <1>58, <1>61, <1>62 DEF Next

-----------------------------------------------------------------------------
(***************************************************************************)
(* Delivery                                                                *)
(***************************************************************************)

\* Settling a recipient makes nobody wait.
LEMMA MarkWaiting ==
    ASSUME TypeOK, NEW r, NEW o \in Outcome, sub' = Mark(r, o)
    PROVE  Waiting' \subseteq Waiting
  BY DEF Mark, Waiting, TypeOK, Outcome

\* Nobody is waiting when a job becomes COMPLETED, and nobody joins later.
LEMMA CompletedStep ==
    TypeOK /\ TaskInv /\ CompletedLeavesNobodyWaiting /\ [Next]_vars
        => CompletedLeavesNobodyWaiting'
<1> SUFFICES ASSUME TypeOK, TaskInv, CompletedLeavesNobodyWaiting, [Next]_vars
             PROVE  CompletedLeavesNobodyWaiting'
  OBVIOUS
<1> USE DEF CompletedLeavesNobodyWaiting, Waiting, durable, locals, service
<1>1. CASE Claim
  BY <1>1 DEF Claim, Claimable
<1>2. CASE CreateTask
  BY <1>2 DEF CreateTask
<1>3. CASE DeliverCancel
  BY <1>3 DEF DeliverCancel, EndTask, ResetLocals
<1>4. CASE Begin
  BY <1>4 DEF Begin, At, Goto
<1>5. CASE FormatsResolved
  BY <1>5 DEF FormatsResolved, At, Goto
<1>6. CASE FormatsDenied
  BY <1>6 DEF FormatsDenied, At, Goto
<1>7. CASE CheckCancelled
  BY <1>7 DEF CheckCancelled, At, Goto, Raise, AfterCheck, AfterDownload
<1>8. CASE Denied
  BY <1>8 DEF Denied, At, Goto, LeaseThen
<1>9. CASE SetStatusRead
  BY <1>9 DEF SetStatusRead, At, Goto, Raise, SetStatusCalls
<1>10. CASE SetStatusSave
  <2>1. PICK c \in SetStatusCalls : status' = SaveJob(status, c.to)
    BY <1>10 DEF SetStatusSave
  <2>2. c.to # "completed"
    BY <2>1 DEF SetStatusCalls
  <2>3. status' \in {status, c.to}
    BY <2>1, SaveJobValue
  <2>4. QED
    BY <1>10, <2>2, <2>3 DEF SetStatusSave
<1>11. CASE Progress
  BY <1>11, SaveJobValue DEF Progress, At, Goto, TaskInv, OngoingPcs, TryPcs,
         UploadPcs, Active
<1>12. CASE Downloaded
  BY <1>12 DEF Downloaded, At, Goto, AfterDownload
<1>13. CASE MergeBegins
  BY <1>13 DEF MergeBegins, At, Goto
<1>14. CASE Merged
  BY <1>14 DEF Merged, At, Goto
<1>15. CASE Fails
  BY <1>15 DEF Fails, At, Goto
<1>16. CASE ListRecipients
  BY <1>16 DEF ListRecipients, At, Goto
<1>17. CASE PickRecipient
  BY <1>17 DEF PickRecipient, At, Goto
<1>18. CASE Send
  BY <1>18 DEF Send, At, Goto
<1>19. CASE SendUnusable
  BY <1>19 DEF SendUnusable, At, Goto
<1>20. CASE SendFails
  BY <1>20 DEF SendFails, At, Goto
<1>21. CASE MarkRecipient
  <2>1. PICK p \in DOMAIN MarkAs : sub' = Mark(cur, MarkAs[p])
    BY <1>21 DEF MarkRecipient
  <2>2. MarkAs[p] \in Outcome
    BY <2>1 DEF MarkAs, Outcome
  <2>3. Waiting' \subseteq Waiting
    BY <2>1, <2>2, MarkWaiting
  <2>4. QED
    BY <1>21, <2>3 DEF MarkRecipient
<1>22. CASE EndRound
  BY <1>22 DEF EndRound, At, Goto
<1>23. CASE SaveRound
  BY <1>23, SaveJobValue DEF SaveRound, At, Goto, TaskInv, OngoingPcs, TryPcs,
         UploadPcs, Active
<1>24. CASE Finalize
  BY <1>24 DEF Finalize, At, Goto, Finalized
<1>25. CASE Reread
  BY <1>25 DEF Reread, At, Goto
<1>26. CASE NotifyOne
  <2>1. PICK r \in Waiting : sub' = Mark(r, NotifiedAs[view])
    BY <1>26 DEF NotifyOne
  <2>2. NotifiedAs[view] \in Outcome
    BY <1>26 DEF NotifyOne, NotifiedAs, Outcome
  <2>3. Waiting' \subseteq Waiting
    BY <2>1, <2>2, MarkWaiting
  <2>4. QED
    BY <1>26, <2>3 DEF NotifyOne
<1>27. CASE NotifyEndDone
  BY <1>27 DEF NotifyEndDone, At, Goto
<1>28. CASE NotifyFailedDone
  BY <1>28 DEF NotifyFailedDone, At, Goto
<1>29. CASE RequeueRead
  BY <1>29 DEF RequeueRead, At, Goto
<1>30. CASE RequeueSave
  BY <1>30, SaveJobValue DEF RequeueSave, At, Goto
<1>31. CASE FailRead
  BY <1>31 DEF FailRead, At, Goto
<1>32. CASE FinalRead
  BY <1>32 DEF FinalRead, At, Goto, EndTask, ResetLocals
<1>33. CASE TaskRelease
  BY <1>33 DEF TaskRelease, At, Goto
<1>34. CASE TaskCleanup
  BY <1>34 DEF TaskCleanup, At, Goto, EndTask, ResetLocals
<1>35. ASSUME NEW p \in DOMAIN LeaseThen, LeaseGranted(p)
       PROVE  CompletedLeavesNobodyWaiting'
  BY <1>35 DEF LeaseGranted, At, Goto, LeaseThen
<1>36. CASE ReserveGranted("reserve", "check_download")
  BY <1>36 DEF ReserveGranted, At, Goto
<1>37. CASE ReserveGranted("merge_reserve", "merge_status")
  BY <1>37 DEF ReserveGranted, At, Goto
<1>38. ASSUME NEW r \in Recipients, Join(r)
       PROVE  CompletedLeavesNobodyWaiting'
  BY <1>38 DEF Join, Joinable, Active
<1>39. ASSUME NEW r \in Recipients, LeaveJob(r)
       PROVE  CompletedLeavesNobodyWaiting'
  BY <1>39 DEF LeaveJob, HandlerGoto, AfterLeave, TypeOK
<1>40. ASSUME NEW r \in Recipients, CountWaiting(r)
       PROVE  CompletedLeavesNobodyWaiting'
  BY <1>40 DEF CountWaiting, HandlerGoto
<1>41. CASE AdminCancels
  BY <1>41 DEF AdminCancels, HandlerGoto
<1>42. ASSUME NEW c \in Cancellers, CancelGet(c)
       PROVE  CompletedLeavesNobodyWaiting'
  BY <1>42 DEF CancelGet, HandlerGoto
<1>43. ASSUME NEW c \in Cancellers, CancelSave(c)
       PROVE  CompletedLeavesNobodyWaiting'
  BY <1>43, SaveJobValue DEF CancelSave, HandlerGoto
<1>44. ASSUME NEW c \in Cancellers, CancelKill(c)
       PROVE  CompletedLeavesNobodyWaiting'
  BY <1>44 DEF CancelKill, HandlerGoto
<1>45. ASSUME NEW c \in Cancellers, CancelReap(c)
       PROVE  CompletedLeavesNobodyWaiting'
  BY <1>45 DEF CancelReap, HandlerGoto, Reaped
<1>46. ASSUME NEW c \in Cancellers, CancelRelease(c)
       PROVE  CompletedLeavesNobodyWaiting'
  BY <1>46 DEF CancelRelease, HandlerGoto
<1>47. ASSUME NEW c \in Cancellers, CancelClean(c)
       PROVE  CompletedLeavesNobodyWaiting'
  BY <1>47 DEF CancelClean, HandlerGoto
<1>48. ASSUME NEW c \in Cancellers, CancelNotifyOne(c)
       PROVE  CompletedLeavesNobodyWaiting'
  BY <1>48, MarkWaiting DEF CancelNotifyOne, Outcome
<1>49. ASSUME NEW c \in Cancellers, CancelDone(c)
       PROVE  CompletedLeavesNobodyWaiting'
  BY <1>49 DEF CancelDone, HandlerGoto
<1>50. CASE SweepJobs
  BY <1>50 DEF SweepJobs, Claimable
<1>51. CASE SweepSubscribers
  BY <1>51 DEF SweepSubscribers
<1>52. CASE Maintain
  BY <1>52 DEF Maintain
<1>52a. CASE CleanOrphans
  BY <1>52a DEF CleanOrphans
<1>53. CASE ShutdownBegin
  BY <1>53 DEF ShutdownBegin
<1>54. CASE StopTasks
  BY <1>54 DEF StopTasks
<1>55. CASE PrepareShutdown
  BY <1>55 DEF PrepareShutdown
<1>56. CASE Crash
  BY <1>56 DEF Crash, EndTask, ResetLocals
<1>57. CASE Restart
  <2> DEFINE outcomes == {sub[r] : r \in Known}
  <2>1. status \in Active /\ Recovered(outcomes, status) = "completed"
            => "waiting" \notin outcomes
    BY RecoveredValue DEF TypeOK
  <2>2. status \notin Active => Recovered(outcomes, status) = status
    BY RecoveredValue DEF TypeOK
  <2>3. \A r \in Waiting : "waiting" \in outcomes
    BY DEF Known
  <2> HIDE DEF outcomes
  <2>4. status' = "completed" => Waiting = {}
    BY <1>57, <2>1, <2>2, <2>3 DEF Restart, outcomes, Active
  <2>5. QED
    BY <1>57, <2>4 DEF Restart
<1>58. CASE UNCHANGED vars
  BY <1>58 DEF vars
<1> HIDE DEF CompletedLeavesNobodyWaiting, Waiting, durable, locals, service
<1>59. CASE Task
  BY <1>59, <1>3, <1>4, <1>5, <1>6, <1>7, <1>8, <1>9, <1>10, <1>11, <1>12,
     <1>13, <1>14, <1>15, <1>16, <1>17, <1>18, <1>19, <1>20, <1>21, <1>22,
     <1>23, <1>24, <1>25, <1>26, <1>27, <1>28, <1>29, <1>30, <1>31, <1>32,
     <1>33, <1>34, <1>35, <1>36, <1>37 DEF Task
<1>60. ASSUME NEW c \in Cancellers, CancelJob(c)
       PROVE  CompletedLeavesNobodyWaiting'
  BY <1>60, <1>42, <1>43, <1>44, <1>45, <1>46, <1>47, <1>48, <1>49 DEF CancelJob
<1>61. CASE Environment
  BY <1>61, <1>38, <1>39, <1>41, <1>50, <1>53, <1>56
     DEF Environment
<1>62. CASE Program
  BY <1>62, <1>59, <1>60, <1>1, <1>2, <1>40, <1>51, <1>52, <1>52a, <1>54, <1>55, <1>57
     DEF Program
<1>63. QED
  BY <1>58, <1>61, <1>62 DEF Next

\* Settling a recipient leaves the others alone and never unsettles anybody.
LEMMA MarkEffect ==
    ASSUME TypeOK, NEW r \in Recipients, NEW o \in Outcome, sub' = Mark(r, o)
    PROVE  /\ \A q \in Recipients : sub[q] = "absent" <=> sub'[q] = "absent"
           /\ \A q \in Recipients : sub'[q] = "waiting" => sub[q] = "waiting" /\ q # r
           /\ \A q \in Recipients : sub'[q] = "delivered"
                 => sub[q] = "delivered" \/ (q = r /\ o = "delivered")
  BY DEF Mark, TypeOK, Outcome
\* Sends, marks and restarts keep pace with each other.
LEMMA SendStep ==
    TypeOK /\ TaskInv /\ CancelInv /\ SendInv /\ [Next]_vars => SendInv'
<1> SUFFICES ASSUME TypeOK, TaskInv, CancelInv, SendInv, [Next]_vars
             PROVE  SendInv'
  OBVIOUS
<1>0. /\ sent \in [Recipients -> Nat] /\ sub \in [Recipients -> SubStatus]
      /\ restarts \in Nat
      /\ status = "cancelled" => status' = "cancelled"
  BY CancelledStep DEF TypeOK
<1> USE <1>0 DEF SendInv, PastRestarts, CutOff, DeliveredMeansSent, Known,
                 durable, locals, service
<1>1. CASE Claim
  BY <1>1 DEF Claim, Claimable, TaskInv
<1>2. CASE CreateTask
  BY <1>2 DEF CreateTask, TryPcs, ExceptPcs, TaskInv
<1>3. CASE DeliverCancel
  <2>1. pc' \notin {"begin"} \cup TryPcs /\ pc' \notin {"mark_delivered", "mark_failed"}
    BY <1>3 DEF DeliverCancel, EndTask, OnCancel, TryPcs, ExceptPcs
  <2>2. \/ status' = "cancelled" /\ dispatcher' = "idle"
        \/ mode' = "stopping"
    BY <1>3 DEF DeliverCancel, CancelInv, TaskInv, TypeOK
  <2>3. anyDelivered' => anyDelivered
    BY <1>3 DEF DeliverCancel, EndTask, ResetLocals
  <2>4. QED
    BY <1>3, <2>1, <2>2, <2>3 DEF DeliverCancel, TryPcs
<1>4. CASE Begin
  BY <1>4 DEF Begin, At, Goto, TryPcs, ExceptPcs
<1>5. CASE FormatsResolved
  BY <1>5 DEF FormatsResolved, At, Goto, TryPcs, ExceptPcs
<1>6. CASE FormatsDenied
  BY <1>6 DEF FormatsDenied, At, Goto, TryPcs, ExceptPcs
<1>7. CASE CheckCancelled
  BY <1>7 DEF CheckCancelled, At, Goto, Raise, OnCancel, AfterCheck,
         AfterDownload, TryPcs, ExceptPcs
<1>8. CASE Denied
  BY <1>8 DEF Denied, At, Goto, LeaseThen, TryPcs, ExceptPcs
<1>9. CASE SetStatusRead
  BY <1>9 DEF SetStatusRead, At, Goto, Raise, OnCancel, SetStatusCalls,
         TryPcs, ExceptPcs
<1>10. CASE SetStatusSave
  <2>1. PICK c \in SetStatusCalls : status' = SaveJob(status, c.to)
    BY <1>10 DEF SetStatusSave
  <2>2. c.to # "completed"
    BY <2>1 DEF SetStatusCalls
  <2>3. status' \in {status, c.to}
    BY <2>1, SaveJobValue
  <2>4. QED
    BY <1>10, <2>2, <2>3 DEF SetStatusSave, At, Goto, SetStatusCalls, TryPcs,
       ExceptPcs
<1>11. CASE Progress
  BY <1>11, SaveJobValue DEF Progress, At, Goto, TaskInv, OngoingPcs, TryPcs,
         UploadPcs, Active
<1>12. CASE Downloaded
  BY <1>12 DEF Downloaded, At, Goto, AfterDownload, TryPcs, ExceptPcs
<1>13. CASE MergeBegins
  BY <1>13 DEF MergeBegins, At, Goto
<1>14. CASE Merged
  BY <1>14 DEF Merged, At, Goto, TryPcs, ExceptPcs
<1>15. CASE Fails
  BY <1>15 DEF Fails, At, Goto, TryPcs, ExceptPcs
<1>16. CASE ListRecipients
  BY <1>16 DEF ListRecipients, At, Goto, TryPcs, ExceptPcs
<1>17. CASE PickRecipient
  <2>1. PICK r \in todo :
           IF sub[r] = "waiting" THEN cur' = r /\ pc' = "send"
                                 ELSE cur' = cur /\ pc' = "pick"
    BY <1>17 DEF PickRecipient, Goto
  <2>2. r \in Recipients
    BY <2>1 DEF TypeOK
  <2>3. ~CutOff(r)
    BY <1>17 DEF PickRecipient, At, CancelInv, TryPcs, ExceptPcs
  <2>4. CASE sub[r] = "waiting"
    BY <1>17, <2>1, <2>2, <2>3, <2>4 DEF PickRecipient, At, TryPcs
  <2>5. CASE sub[r] # "waiting"
    BY <1>17, <2>1, <2>5 DEF PickRecipient, At, TryPcs
  <2>6. QED
    BY <2>4, <2>5
<1>18. CASE Send
  <2>1. /\ cur \in Recipients /\ sub[cur] # "absent"
        /\ sent[cur] <= PastRestarts
    BY <1>18 DEF Send, At
  <2>2. \A r \in Recipients : r # cur => ~CutOff(r)
    BY <1>18 DEF Send, At, CancelInv, TryPcs, ExceptPcs
  <2>3. /\ pc' = "mark_delivered" /\ cur' = cur
        /\ sent'[cur] = sent[cur] + 1
        /\ \A r \in Recipients : r # cur => sent'[r] = sent[r]
    BY <1>18, <2>1 DEF Send, Goto
  <2>4. QED
    BY <1>18, <2>1, <2>2, <2>3 DEF Send
<1>19. CASE SendUnusable
  <2>1. /\ cur \in Recipients /\ sub[cur] # "absent"
        /\ sent[cur] <= PastRestarts
    BY <1>19 DEF SendUnusable, At
  <2>2. \A r \in Recipients : r # cur => ~CutOff(r)
    BY <1>19 DEF SendUnusable, At, CancelInv, TryPcs, ExceptPcs
  <2>3. /\ pc' = "mark_failed" /\ cur' = cur
        /\ sent'[cur] = sent[cur] + 1
        /\ \A r \in Recipients : r # cur => sent'[r] = sent[r]
    BY <1>19, <2>1 DEF SendUnusable, Goto
  <2>4. QED
    BY <1>19, <2>1, <2>2, <2>3 DEF SendUnusable
<1>20. CASE SendFails
  BY <1>20 DEF SendFails, At, Goto, TryPcs, ExceptPcs
<1>21. CASE MarkRecipient
  <2>1. PICK p \in DOMAIN MarkAs : pc = p /\ sub' = Mark(cur, MarkAs[p])
    BY <1>21 DEF MarkRecipient, At
  <2>2. MarkAs[p] \in Outcome /\ (MarkAs[p] = "delivered" => pc = "mark_delivered")
    BY <2>1 DEF MarkAs, Outcome
  <2>3. /\ pc \in {"mark_delivered", "mark_failed"} /\ pc' = "pick"
        /\ cur \in Recipients
        /\ \A r \in Recipients : sub[r] # "absent" => sub'[r] # "absent"
        /\ \A r \in Recipients : sub'[r] = "absent" => sub[r] = "absent"
        /\ \A r \in Recipients :
              sub'[r] = "waiting" => sub[r] = "waiting" /\ r # cur
        /\ \A r \in Recipients : sub'[r] = "delivered"
              => sub[r] = "delivered" \/ (r = cur /\ MarkAs[p] = "delivered")
    BY <1>21, <2>1, <2>2, MarkEffect DEF MarkRecipient, At, MarkAs, Goto
  <2>4. QED
    <3>1. \A r \in Recipients : r # cur /\ CutOff(r) => CutOff(r)'
      BY <1>21, <2>3 DEF MarkRecipient, TryPcs
    <3>2. QED
      BY <1>21, <2>2, <2>3, <3>1 DEF MarkRecipient, TryPcs
<1>22. CASE EndRound
  BY <1>22 DEF EndRound, At, Goto, TryPcs, ExceptPcs
<1>23. CASE SaveRound
  BY <1>23, SaveJobValue DEF SaveRound, At, Goto, TryPcs, ExceptPcs, TaskInv,
         OngoingPcs, UploadPcs, Active
<1>24. CASE Finalize
  BY <1>24 DEF Finalize, At, Goto, Finalized, TryPcs, ExceptPcs
<1>25. CASE Reread
  BY <1>25 DEF Reread, At, Goto, TryPcs, ExceptPcs
<1>26. CASE NotifyOne
  <2>1. PICK r \in Recipients : sub' = Mark(r, NotifiedAs[view])
    BY <1>26 DEF NotifyOne, Waiting
  <2>2. NotifiedAs[view] \in Outcome \ {"delivered"}
    BY <1>26 DEF NotifyOne, NotifiedAs, Outcome
  <2>3. /\ \A q \in Recipients : sub[q] = "absent" <=> sub'[q] = "absent"
        /\ \A q \in Recipients : sub'[q] = "waiting" => sub[q] = "waiting"
        /\ \A q \in Recipients : sub'[q] = "delivered" => sub[q] = "delivered"
    BY <2>1, <2>2, MarkEffect
  <2>4. QED
    BY <1>26, <2>3 DEF NotifyOne
<1>27. CASE NotifyEndDone
  BY <1>27 DEF NotifyEndDone, At, Goto, TryPcs, ExceptPcs
<1>28. CASE NotifyFailedDone
  BY <1>28 DEF NotifyFailedDone, At, Goto, TryPcs, ExceptPcs
<1>29. CASE RequeueRead
  BY <1>29 DEF RequeueRead, At, Goto, TryPcs, ExceptPcs
<1>30. CASE RequeueSave
  BY <1>30, SaveJobValue DEF RequeueSave, At, Goto, TryPcs, ExceptPcs
<1>31. CASE FailRead
  BY <1>31 DEF FailRead, At, Goto, TryPcs, ExceptPcs
<1>32. CASE FinalRead
  BY <1>32 DEF FinalRead, At, Goto, EndTask, ResetLocals, TryPcs, ExceptPcs
<1>33. CASE TaskRelease
  BY <1>33 DEF TaskRelease, At, Goto, TryPcs, ExceptPcs
<1>34. CASE TaskCleanup
  BY <1>34 DEF TaskCleanup, At, Goto, EndTask, ResetLocals, TryPcs, ExceptPcs
<1>35. ASSUME NEW p \in DOMAIN LeaseThen, LeaseGranted(p)
       PROVE  SendInv'
  BY <1>35 DEF LeaseGranted, At, Goto, LeaseThen, TryPcs, ExceptPcs
<1>36. CASE ReserveGranted("reserve", "check_download")
  BY <1>36 DEF ReserveGranted, At, Goto, TryPcs, ExceptPcs
<1>37. CASE ReserveGranted("merge_reserve", "merge_status")
  BY <1>37 DEF ReserveGranted, At, Goto, TryPcs, ExceptPcs
<1>38. ASSUME NEW r \in Recipients, Join(r)
       PROVE  SendInv'
  BY <1>38 DEF Join, Joinable
<1>39. ASSUME NEW r \in Recipients, LeaveJob(r)
       PROVE  SendInv'
  BY <1>39 DEF LeaveJob, HandlerGoto, AfterLeave
<1>40. ASSUME NEW r \in Recipients, CountWaiting(r)
       PROVE  SendInv'
  BY <1>40 DEF CountWaiting, HandlerGoto
<1>41. CASE AdminCancels
  BY <1>41 DEF AdminCancels, HandlerGoto
<1>42. ASSUME NEW c \in Cancellers, CancelGet(c)
       PROVE  SendInv'
  BY <1>42 DEF CancelGet, HandlerGoto
<1>43. ASSUME NEW c \in Cancellers, CancelSave(c)
       PROVE  SendInv'
  BY <1>43, SaveJobValue DEF CancelSave, HandlerGoto
<1>44. ASSUME NEW c \in Cancellers, CancelKill(c)
       PROVE  SendInv'
  BY <1>44 DEF CancelKill, HandlerGoto
<1>45. ASSUME NEW c \in Cancellers, CancelReap(c)
       PROVE  SendInv'
  BY <1>45 DEF CancelReap, HandlerGoto, Reaped
<1>46. ASSUME NEW c \in Cancellers, CancelRelease(c)
       PROVE  SendInv'
  BY <1>46 DEF CancelRelease, HandlerGoto
<1>47. ASSUME NEW c \in Cancellers, CancelClean(c)
       PROVE  SendInv'
  BY <1>47 DEF CancelClean, HandlerGoto
<1>48. ASSUME NEW c \in Cancellers, CancelNotifyOne(c)
       PROVE  SendInv'
  <2>1. PICK r \in Recipients : sub' = Mark(r, "cancelled")
    BY <1>48 DEF CancelNotifyOne, Waiting
  <2>2. /\ \A q \in Recipients : sub[q] = "absent" <=> sub'[q] = "absent"
        /\ \A q \in Recipients : sub'[q] = "waiting" => sub[q] = "waiting"
        /\ \A q \in Recipients : sub'[q] = "delivered" => sub[q] = "delivered"
    BY <2>1, MarkEffect DEF Outcome
  <2>3. QED
    BY <1>48, <2>2 DEF CancelNotifyOne
<1>49. ASSUME NEW c \in Cancellers, CancelDone(c)
       PROVE  SendInv'
  BY <1>49 DEF CancelDone, HandlerGoto
<1>50. CASE SweepJobs
  BY <1>50 DEF SweepJobs, Claimable
<1>51. CASE SweepSubscribers
  BY <1>51 DEF SweepSubscribers
<1>52. CASE Maintain
  BY <1>52 DEF Maintain
<1>52a. CASE CleanOrphans
  BY <1>52a DEF CleanOrphans
<1>53. CASE ShutdownBegin
  BY <1>53 DEF ShutdownBegin
<1>54. CASE StopTasks
  BY <1>54 DEF StopTasks
<1>55. CASE PrepareShutdown
  BY <1>55 DEF PrepareShutdown
<1>56. CASE Crash
  BY <1>56 DEF Crash, EndTask, ResetLocals, TypeOK
<1>57. CASE Restart
  <2> DEFINE outcomes == {sub[r] : r \in Known}
  <2>1. status \in Active /\ Recovered(outcomes, status) = "completed"
            => "delivered" \in outcomes
    BY RecoveredValue DEF TypeOK
  <2>2. status \notin Active => Recovered(outcomes, status) = status
    BY RecoveredValue DEF TypeOK
  <2>3. "delivered" \in outcomes => \E r \in Recipients : sent[r] > 0
    OBVIOUS
  <2> HIDE DEF outcomes
  <2>4. status' = "completed" => \E r \in Recipients : sent[r] > 0
    BY <1>57, <2>1, <2>2, <2>3 DEF Restart, outcomes
  <2>5. pc = "none" /\ pc' = "none" /\ PastRestarts' = PastRestarts + 1
    BY <1>57 DEF Restart, CancelInv
  <2>6. \A r \in Recipients : sent[r] <= PastRestarts'
    BY <2>5
  <2>7. QED
    BY <1>57, <2>4, <2>5, <2>6 DEF Restart
<1>58. CASE UNCHANGED vars
  BY <1>58 DEF vars
<1> HIDE DEF SendInv, PastRestarts, CutOff, DeliveredMeansSent, Known, durable,
         locals, service
<1>59. CASE Task
  BY <1>59, <1>3, <1>4, <1>5, <1>6, <1>7, <1>8, <1>9, <1>10, <1>11, <1>12,
     <1>13, <1>14, <1>15, <1>16, <1>17, <1>18, <1>19, <1>20, <1>21, <1>22,
     <1>23, <1>24, <1>25, <1>26, <1>27, <1>28, <1>29, <1>30, <1>31, <1>32,
     <1>33, <1>34, <1>35, <1>36, <1>37 DEF Task
<1>60. ASSUME NEW c \in Cancellers, CancelJob(c)
       PROVE  SendInv'
  BY <1>60, <1>42, <1>43, <1>44, <1>45, <1>46, <1>47, <1>48, <1>49 DEF CancelJob
<1>61. CASE Environment
  BY <1>61, <1>38, <1>39, <1>41, <1>50, <1>53, <1>56
     DEF Environment
<1>62. CASE Program
  BY <1>62, <1>59, <1>60, <1>1, <1>2, <1>40, <1>51, <1>52, <1>52a, <1>54, <1>55, <1>57
     DEF Program
<1>63. QED
  BY <1>58, <1>61, <1>62 DEF Next

-----------------------------------------------------------------------------
(***************************************************************************)
(* Whoever waits on a job that is over                                     *)
(***************************************************************************)

\* No step takes away the last one who is going to tell the recipients.
LEMMA TellStep ==
  TypeOK /\ TaskInv /\ CancelInv /\ CompletedLeavesNobodyWaiting /\ TellInv
    /\ [Next]_vars => TellInv'
<1> SUFFICES ASSUME TypeOK, TaskInv, CancelInv, CompletedLeavesNobodyWaiting,
                    TellInv, [Next]_vars
             PROVE  TellInv'
  OBVIOUS
<1>0. /\ sub \in [Recipients -> SubStatus] /\ status \in JobStatus
      /\ restarts \in Nat /\ hpc \in [Cancellers -> HandlerPcs]
      /\ interrupted => status = "cancelled" \/ mode = "stopping"
      /\ mode # "up" => restarts > 0
      /\ \A c \in Cancellers : hpc[c] \in CancellingPcs => status = "cancelled"
      /\ pc \in OngoingPcs => status \in Active \cup {"cancelled"}
      /\ pc = "notify_failed" => status \in {"failed", "cancelled"}
      /\ pc \in {"reread", "notify_end"} => status \in Terminal
      /\ pc = "downloading" => view = "downloading"
      /\ pc \in UploadPcs => view = "uploading"
      /\ dispatcher = "claimed" => status \in {"claimed", "cancelled"} /\ pc = "none"
      /\ status = "completed" => Waiting = {}
  BY DEF TypeOK, CancelInv, TaskInv, CompletedLeavesNobodyWaiting
<1> USE <1>0 DEF TellInv, Waiting, durable, locals, service
<1>1. CASE Claim
  BY <1>1 DEF Claim, Claimable, Active
<1>2. CASE CreateTask
  BY <1>2 DEF CreateTask
<1>3. CASE DeliverCancel
  BY <1>3 DEF DeliverCancel, EndTask, ResetLocals, OnCancel
<1>4. CASE Begin
  BY <1>4 DEF Begin, At, Goto, OngoingPcs, TryPcs, ExceptPcs, Active, Terminal
<1>5. CASE FormatsResolved
  BY <1>5 DEF FormatsResolved, At, Goto
<1>6. CASE FormatsDenied
  BY <1>6 DEF FormatsDenied, At, Goto
<1>7. CASE CheckCancelled
  BY <1>7 DEF CheckCancelled, At, Goto, Raise, AfterCheck, AfterDownload
<1>8. CASE Denied
  BY <1>8 DEF Denied, At, Goto, LeaseThen
<1>9. CASE SetStatusRead
  BY <1>9 DEF SetStatusRead, At, Goto, Raise, SetStatusCalls
<1>10. CASE SetStatusSave
  BY <1>10, SaveJobValue DEF SetStatusSave, At, Goto, SetStatusCalls,
     OngoingPcs, TryPcs, ExceptPcs, Active
<1>11. CASE Progress
  BY <1>11, SaveJobValue DEF Progress, At, Goto, FileStates, OngoingPcs,
     TryPcs, ExceptPcs, Active
<1>12. CASE Downloaded
  BY <1>12 DEF Downloaded, At, Goto, AfterDownload, FileStates
<1>13. CASE MergeBegins
  BY <1>13 DEF MergeBegins, At, Goto, FileStates
<1>14. CASE Merged
  BY <1>14 DEF Merged, At, Goto, FileStates
<1>15. CASE Fails
  BY <1>15 DEF Fails, At, Goto
<1>16. CASE ListRecipients
  BY <1>16 DEF ListRecipients, At, Goto
<1>17. CASE PickRecipient
  BY <1>17 DEF PickRecipient, At, Goto, OngoingPcs, TryPcs, ExceptPcs, Active,
     Terminal
<1>18. CASE Send
  BY <1>18 DEF Send, At, Goto, OngoingPcs, TryPcs, ExceptPcs, Active, Terminal
<1>19. CASE SendUnusable
  BY <1>19 DEF SendUnusable, At, Goto, OngoingPcs, TryPcs, ExceptPcs, Active,
     Terminal
<1>20. CASE SendFails
  BY <1>20 DEF SendFails, At, Goto, OngoingPcs, TryPcs, ExceptPcs, Active,
     Terminal
<1>21. CASE MarkRecipient
  BY <1>21 DEF MarkRecipient, At, Goto, MarkAs, Mark
<1>22. CASE EndRound
  BY <1>22 DEF EndRound, At, Goto
<1>23. CASE SaveRound
  BY <1>23, SaveJobValue DEF SaveRound, At, Goto, UploadPcs
<1>24. CASE Finalize
  BY <1>24 DEF Finalize, At, Goto, Finalized, OngoingPcs, TryPcs, ExceptPcs,
     Active, Terminal
<1>25. CASE Reread
  BY <1>25 DEF Reread, At, Goto, OngoingPcs, TryPcs, ExceptPcs, Active,
     Terminal
<1>26. CASE NotifyOne
  BY <1>26 DEF NotifyOne, At, Goto, NotifiedAs, Mark
<1>27. CASE NotifyEndDone
  BY <1>27 DEF NotifyEndDone, At, Goto
<1>28. CASE NotifyFailedDone
  BY <1>28 DEF NotifyFailedDone, At, Goto, Notified, NotifiedAs
<1>29. CASE RequeueRead
  BY <1>29 DEF RequeueRead, At, Goto
<1>30. CASE RequeueSave
  BY <1>30, SaveJobValue DEF RequeueSave, At, Goto, OngoingPcs, TryPcs,
     ExceptPcs, Active
<1>31. CASE FailRead
  BY <1>31 DEF FailRead, At, Goto
<1>32. CASE FinalRead
  BY <1>32 DEF FinalRead, At, Goto, EndTask, ResetLocals
<1>33. CASE TaskRelease
  BY <1>33 DEF TaskRelease, At, Goto
<1>34. CASE TaskCleanup
  BY <1>34 DEF TaskCleanup, At, Goto, EndTask, ResetLocals
<1>35. ASSUME NEW p \in DOMAIN LeaseThen, LeaseGranted(p)
       PROVE  TellInv'
  BY <1>35 DEF LeaseGranted, At, Goto, LeaseThen
<1>36. CASE ReserveGranted("reserve", "check_download")
  BY <1>36 DEF ReserveGranted, At, Goto
<1>37. CASE ReserveGranted("merge_reserve", "merge_status")
  BY <1>37 DEF ReserveGranted, At, Goto
<1>38. ASSUME NEW r \in Recipients, Join(r)
       PROVE  TellInv'
  BY <1>38 DEF Join, Joinable, Active
<1>39. ASSUME NEW r \in Recipients, LeaveJob(r)
       PROVE  TellInv'
  BY <1>39 DEF LeaveJob, HandlerGoto, AfterLeave, CancellingPcs
<1>40. ASSUME NEW r \in Recipients, CountWaiting(r)
       PROVE  TellInv'
  BY <1>40 DEF CountWaiting, HandlerGoto, CancellingPcs
<1>41. CASE AdminCancels
  BY <1>41 DEF AdminCancels, HandlerGoto, CancellingPcs
<1>42. ASSUME NEW c \in Cancellers, CancelGet(c)
       PROVE  TellInv'
  BY <1>42 DEF CancelGet, HandlerGoto, CancellingPcs
<1>43. ASSUME NEW c \in Cancellers, CancelSave(c)
       PROVE  TellInv'
  BY <1>43, SaveJobValue DEF CancelSave, HandlerGoto, CancellingPcs
<1>44. ASSUME NEW c \in Cancellers, CancelKill(c)
       PROVE  TellInv'
  BY <1>44 DEF CancelKill, HandlerGoto, CancellingPcs
<1>45. ASSUME NEW c \in Cancellers, CancelReap(c)
       PROVE  TellInv'
  BY <1>45 DEF CancelReap, HandlerGoto, Reaped, CancellingPcs
<1>46. ASSUME NEW c \in Cancellers, CancelRelease(c)
       PROVE  TellInv'
  BY <1>46 DEF CancelRelease, HandlerGoto, CancellingPcs
<1>47. ASSUME NEW c \in Cancellers, CancelClean(c)
       PROVE  TellInv'
  BY <1>47 DEF CancelClean, HandlerGoto, CancellingPcs
<1>48. ASSUME NEW c \in Cancellers, CancelNotifyOne(c)
       PROVE  TellInv'
  BY <1>48 DEF CancelNotifyOne, Mark
<1>49. ASSUME NEW c \in Cancellers, CancelDone(c)
       PROVE  TellInv'
  BY <1>49 DEF CancelDone, HandlerGoto, CancellingPcs
<1>50. CASE SweepJobs
  BY <1>50 DEF SweepJobs, Claimable
<1>51. CASE SweepSubscribers
  BY <1>51 DEF SweepSubscribers
<1>52. CASE Maintain
  BY <1>52 DEF Maintain
<1>52a. CASE CleanOrphans
  BY <1>52a DEF CleanOrphans
<1>53. CASE ShutdownBegin
  BY <1>53 DEF ShutdownBegin
<1>54. CASE StopTasks
  BY <1>54 DEF StopTasks
<1>55. CASE PrepareShutdown
  BY <1>55 DEF PrepareShutdown
<1>56. CASE Crash
  BY <1>56 DEF Crash, EndTask, ResetLocals
<1>57. CASE Restart
  BY <1>57 DEF Restart
<1>58. CASE UNCHANGED vars
  BY <1>58 DEF vars
<1> HIDE DEF TellInv, Waiting, durable, locals, service
<1>59. CASE Task
  BY <1>59, <1>3, <1>4, <1>5, <1>6, <1>7, <1>8, <1>9, <1>10, <1>11, <1>12,
     <1>13, <1>14, <1>15, <1>16, <1>17, <1>18, <1>19, <1>20, <1>21, <1>22,
     <1>23, <1>24, <1>25, <1>26, <1>27, <1>28, <1>29, <1>30, <1>31, <1>32,
     <1>33, <1>34, <1>35, <1>36, <1>37 DEF Task
<1>60. ASSUME NEW c \in Cancellers, CancelJob(c)
       PROVE  TellInv'
  BY <1>60, <1>42, <1>43, <1>44, <1>45, <1>46, <1>47, <1>48, <1>49 DEF CancelJob
<1>61. CASE Environment
  BY <1>61, <1>38, <1>39, <1>41, <1>50, <1>53, <1>56
     DEF Environment
<1>62. CASE Program
  BY <1>62, <1>59, <1>60, <1>1, <1>2, <1>40, <1>51, <1>52, <1>52a, <1>54, <1>55,
     <1>57
     DEF Program
<1>63. QED
  BY <1>58, <1>61, <1>62 DEF Next

-----------------------------------------------------------------------------
(***************************************************************************)
(* The files a task finds and sends                                        *)
(***************************************************************************)

\* No step lets a half merged file be found by a task that was not interrupted
\* by a stop or a crash, and none takes the file from a task that sends it.
LEMMA FilesStep ==
  TypeOK /\ TaskInv /\ CancelInv /\ FilesInv /\ [Next]_vars => FilesInv'
<1> SUFFICES ASSUME TypeOK, TaskInv, CancelInv, FilesInv, [Next]_vars
             PROVE  FilesInv'
  OBVIOUS
<1>0. /\ files \in FileStates /\ restarts \in Nat /\ pc \in Pcs
      /\ dispatcher \in {"idle", "claimed"}
      /\ status \in JobStatus /\ SeparateAudio \in BOOLEAN
      /\ interrupted => pc # "none" /\ (status = "cancelled" \/ mode = "stopping")
      /\ mode # "up" => restarts > 0
      /\ \A c \in Cancellers :
            hpc[c] \in {"release", "clean", "notify"} => pc \notin WorkingPcs
      /\ dispatcher = "claimed" => pc = "none" /\ status \in {"claimed", "cancelled"}
      /\ pc \in OngoingPcs => status \in Active \cup {"cancelled"}
  BY FlagsAssumption DEF TypeOK, CancelInv, TaskInv
<1> USE <1>0 DEF FilesInv, FinishedFile, SendingPcs, UploadPcs, MergePcs,
                 FinallyPcs, durable, locals, service
<1>1. CASE Claim
  BY <1>1 DEF Claim, Claimable, Terminal
<1>2. CASE CreateTask
  BY <1>2 DEF CreateTask
<1>3. CASE DeliverCancel
  BY <1>3 DEF DeliverCancel, EndTask, ResetLocals, OnCancel, TryPcs,
     ExceptPcs, Terminal
<1>4. CASE Begin
  BY <1>4 DEF Begin, At, Goto
<1>5. CASE FormatsResolved
  BY <1>5 DEF FormatsResolved, At, Goto
<1>6. CASE FormatsDenied
  BY <1>6 DEF FormatsDenied, At, Goto
<1>7. CASE CheckCancelled
  BY <1>7 DEF CheckCancelled, At, Goto, Raise, AfterCheck, AfterDownload,
     OnCancel, TryPcs, Terminal, FileStates
<1>8. CASE Denied
  BY <1>8 DEF Denied, At, Goto, LeaseThen
<1>9. CASE SetStatusRead
  BY <1>9 DEF SetStatusRead, At, Goto, Raise, SetStatusCalls, OnCancel,
     TryPcs, ExceptPcs, Terminal
<1>10. CASE SetStatusSave
  BY <1>10, SaveJobValue DEF SetStatusSave, At, Goto, SetStatusCalls, Terminal
<1>11. CASE Progress
  BY <1>11, SaveJobValue DEF Progress, At, Goto, FileStates, Terminal
<1>12. CASE Downloaded
  BY <1>12 DEF Downloaded, At, Goto, AfterDownload, FileStates
<1>13. CASE MergeBegins
  BY <1>13 DEF MergeBegins, At, Goto, FileStates
<1>14. CASE Merged
  BY <1>14 DEF Merged, At, Goto, FileStates
<1>15. CASE Fails
  BY <1>15 DEF Fails, At, Goto
<1>16. CASE ListRecipients
  BY <1>16 DEF ListRecipients, At, Goto
<1>17. CASE PickRecipient
  BY <1>17 DEF PickRecipient, At, Goto
<1>18. CASE Send
  BY <1>18 DEF Send, At, Goto
<1>19. CASE SendUnusable
  BY <1>19 DEF SendUnusable, At, Goto
<1>20. CASE SendFails
  BY <1>20 DEF SendFails, At, Goto
<1>21. CASE MarkRecipient
  BY <1>21 DEF MarkRecipient, At, Goto, MarkAs
<1>22. CASE EndRound
  BY <1>22 DEF EndRound, At, Goto
<1>23. CASE SaveRound
  BY <1>23, SaveJobValue DEF SaveRound, At, Goto, Terminal
<1>24. CASE Finalize
  BY <1>24 DEF Finalize, At, Goto, Finalized, Terminal
<1>25. CASE Reread
  BY <1>25 DEF Reread, At, Goto
<1>26. CASE NotifyOne
  BY <1>26 DEF NotifyOne, At, Goto, NotifiedAs
<1>27. CASE NotifyEndDone
  BY <1>27 DEF NotifyEndDone, At, Goto
<1>28. CASE NotifyFailedDone
  BY <1>28 DEF NotifyFailedDone, At, Goto
<1>29. CASE RequeueRead
  BY <1>29 DEF RequeueRead, At, Goto
<1>30. CASE RequeueSave
  BY <1>30, SaveJobValue DEF RequeueSave, At, Goto, Terminal
<1>31. CASE FailRead
  BY <1>31 DEF FailRead, At, Goto, Terminal
<1>32. CASE FinalRead
  BY <1>32 DEF FinalRead, At, Goto, EndTask, ResetLocals, Terminal
<1>33. CASE TaskRelease
  BY <1>33 DEF TaskRelease, At, Goto
<1>34. CASE TaskCleanup
  BY <1>34 DEF TaskCleanup, At, Goto, EndTask, ResetLocals, Terminal
<1>35. ASSUME NEW p \in DOMAIN LeaseThen, LeaseGranted(p)
       PROVE  FilesInv'
  BY <1>35 DEF LeaseGranted, At, Goto, LeaseThen
<1>36. CASE ReserveGranted("reserve", "check_download")
  BY <1>36 DEF ReserveGranted, At, Goto
<1>37. CASE ReserveGranted("merge_reserve", "merge_status")
  BY <1>37 DEF ReserveGranted, At, Goto
<1>38. ASSUME NEW r \in Recipients, Join(r)
       PROVE  FilesInv'
  BY <1>38 DEF Join, Joinable
<1>39. ASSUME NEW r \in Recipients, LeaveJob(r)
       PROVE  FilesInv'
  BY <1>39 DEF LeaveJob, HandlerGoto, AfterLeave, Active, Terminal
<1>40. ASSUME NEW r \in Recipients, CountWaiting(r)
       PROVE  FilesInv'
  BY <1>40 DEF CountWaiting, HandlerGoto
<1>41. CASE AdminCancels
  BY <1>41 DEF AdminCancels, HandlerGoto
<1>42. ASSUME NEW c \in Cancellers, CancelGet(c)
       PROVE  FilesInv'
  BY <1>42 DEF CancelGet, HandlerGoto
<1>43. ASSUME NEW c \in Cancellers, CancelSave(c)
       PROVE  FilesInv'
  BY <1>43, SaveJobValue DEF CancelSave, HandlerGoto, Terminal
<1>44. ASSUME NEW c \in Cancellers, CancelKill(c)
       PROVE  FilesInv'
  BY <1>44 DEF CancelKill, HandlerGoto
<1>45. ASSUME NEW c \in Cancellers, CancelReap(c)
       PROVE  FilesInv'
  BY <1>45 DEF CancelReap, HandlerGoto, Reaped
<1>46. ASSUME NEW c \in Cancellers, CancelRelease(c)
       PROVE  FilesInv'
  BY <1>46 DEF CancelRelease, HandlerGoto
<1>47. ASSUME NEW c \in Cancellers, CancelClean(c)
       PROVE  FilesInv'
  BY <1>47 DEF CancelClean, HandlerGoto, WorkingPcs, TryPcs
<1>48. ASSUME NEW c \in Cancellers, CancelNotifyOne(c)
       PROVE  FilesInv'
  BY <1>48 DEF CancelNotifyOne
<1>49. ASSUME NEW c \in Cancellers, CancelDone(c)
       PROVE  FilesInv'
  BY <1>49 DEF CancelDone, HandlerGoto
<1>50. CASE SweepJobs
  BY <1>50 DEF SweepJobs, Claimable, Terminal
<1>51. CASE SweepSubscribers
  BY <1>51 DEF SweepSubscribers
<1>52. CASE Maintain
  BY <1>52 DEF Maintain
<1>52a. CASE CleanOrphans
  BY <1>52a DEF CleanOrphans
<1>53. CASE ShutdownBegin
  BY <1>53 DEF ShutdownBegin
<1>54. CASE StopTasks
  BY <1>54 DEF StopTasks
<1>55. CASE PrepareShutdown
  BY <1>55 DEF PrepareShutdown
<1>56. CASE Crash
  BY <1>56 DEF Crash, EndTask, ResetLocals
<1>57. CASE Restart
  BY <1>57 DEF Restart
<1>58. CASE UNCHANGED vars
  BY <1>58 DEF vars
<1> HIDE DEF FilesInv, FinishedFile, SendingPcs, UploadPcs, MergePcs,
             FinallyPcs, durable, locals, service
<1>59. CASE Task
  BY <1>59, <1>3, <1>4, <1>5, <1>6, <1>7, <1>8, <1>9, <1>10, <1>11, <1>12,
     <1>13, <1>14, <1>15, <1>16, <1>17, <1>18, <1>19, <1>20, <1>21, <1>22,
     <1>23, <1>24, <1>25, <1>26, <1>27, <1>28, <1>29, <1>30, <1>31, <1>32,
     <1>33, <1>34, <1>35, <1>36, <1>37 DEF Task
<1>60. ASSUME NEW c \in Cancellers, CancelJob(c)
       PROVE  FilesInv'
  BY <1>60, <1>42, <1>43, <1>44, <1>45, <1>46, <1>47, <1>48, <1>49 DEF CancelJob
<1>61. CASE Environment
  BY <1>61, <1>38, <1>39, <1>41, <1>50, <1>53, <1>56
     DEF Environment
<1>62. CASE Program
  BY <1>62, <1>59, <1>60, <1>1, <1>2, <1>40, <1>51, <1>52, <1>52a, <1>54, <1>55,
     <1>57
     DEF Program
<1>63. QED
  BY <1>58, <1>61, <1>62 DEF Next

\* Telegram is given the media at the task's send only.
LEMMA MediaIsSentAtSend ==
  [Next]_vars /\ sent' # sent => pc = "send"
<1> SUFFICES ASSUME [Next]_vars, sent' # sent
             PROVE  pc = "send"
  OBVIOUS
<1> USE DEF durable, locals, service
<1>1. CASE Claim
  BY <1>1 DEF Claim, Claimable
<1>2. CASE CreateTask
  BY <1>2 DEF CreateTask
<1>3. CASE DeliverCancel
  BY <1>3 DEF DeliverCancel, EndTask, ResetLocals
<1>4. CASE Begin
  BY <1>4 DEF Begin, At, Goto
<1>5. CASE FormatsResolved
  BY <1>5 DEF FormatsResolved, At, Goto
<1>6. CASE FormatsDenied
  BY <1>6 DEF FormatsDenied, At, Goto
<1>7. CASE CheckCancelled
  BY <1>7 DEF CheckCancelled, At, Goto, Raise, AfterCheck, AfterDownload
<1>8. CASE Denied
  BY <1>8 DEF Denied, At, Goto, LeaseThen
<1>9. CASE SetStatusRead
  BY <1>9 DEF SetStatusRead, At, Goto, Raise, SetStatusCalls
<1>10. CASE SetStatusSave
  BY <1>10 DEF SetStatusSave, At, Goto, SetStatusCalls
<1>11. CASE Progress
  BY <1>11 DEF Progress, At, Goto, FileStates
<1>12. CASE Downloaded
  BY <1>12 DEF Downloaded, At, Goto, AfterDownload, FileStates
<1>13. CASE MergeBegins
  BY <1>13 DEF MergeBegins, At, Goto, FileStates
<1>14. CASE Merged
  BY <1>14 DEF Merged, At, Goto, FileStates
<1>15. CASE Fails
  BY <1>15 DEF Fails, At, Goto
<1>16. CASE ListRecipients
  BY <1>16 DEF ListRecipients, At, Goto
<1>17. CASE PickRecipient
  BY <1>17 DEF PickRecipient, At, Goto
<1>18. CASE Send
  BY <1>18 DEF Send, At, Goto
<1>19. CASE SendUnusable
  BY <1>19 DEF SendUnusable, At, Goto
<1>20. CASE SendFails
  BY <1>20 DEF SendFails, At, Goto
<1>21. CASE MarkRecipient
  BY <1>21 DEF MarkRecipient, At, Goto, MarkAs
<1>22. CASE EndRound
  BY <1>22 DEF EndRound, At, Goto
<1>23. CASE SaveRound
  BY <1>23 DEF SaveRound, At, Goto
<1>24. CASE Finalize
  BY <1>24 DEF Finalize, At, Goto, Finalized
<1>25. CASE Reread
  BY <1>25 DEF Reread, At, Goto
<1>26. CASE NotifyOne
  BY <1>26 DEF NotifyOne, At, Goto, NotifiedAs
<1>27. CASE NotifyEndDone
  BY <1>27 DEF NotifyEndDone, At, Goto
<1>28. CASE NotifyFailedDone
  BY <1>28 DEF NotifyFailedDone, At, Goto
<1>29. CASE RequeueRead
  BY <1>29 DEF RequeueRead, At, Goto
<1>30. CASE RequeueSave
  BY <1>30 DEF RequeueSave, At, Goto
<1>31. CASE FailRead
  BY <1>31 DEF FailRead, At, Goto
<1>32. CASE FinalRead
  BY <1>32 DEF FinalRead, At, Goto, EndTask, ResetLocals
<1>33. CASE TaskRelease
  BY <1>33 DEF TaskRelease, At, Goto
<1>34. CASE TaskCleanup
  BY <1>34 DEF TaskCleanup, At, Goto, EndTask, ResetLocals
<1>35. ASSUME NEW p \in DOMAIN LeaseThen, LeaseGranted(p)
       PROVE  pc = "send"
  BY <1>35 DEF LeaseGranted, At, Goto, LeaseThen
<1>36. CASE ReserveGranted("reserve", "check_download")
  BY <1>36 DEF ReserveGranted, At, Goto
<1>37. CASE ReserveGranted("merge_reserve", "merge_status")
  BY <1>37 DEF ReserveGranted, At, Goto
<1>38. ASSUME NEW r \in Recipients, Join(r)
       PROVE  pc = "send"
  BY <1>38 DEF Join, Joinable
<1>39. ASSUME NEW r \in Recipients, LeaveJob(r)
       PROVE  pc = "send"
  BY <1>39 DEF LeaveJob, HandlerGoto, AfterLeave
<1>40. ASSUME NEW r \in Recipients, CountWaiting(r)
       PROVE  pc = "send"
  BY <1>40 DEF CountWaiting, HandlerGoto
<1>41. CASE AdminCancels
  BY <1>41 DEF AdminCancels, HandlerGoto
<1>42. ASSUME NEW c \in Cancellers, CancelGet(c)
       PROVE  pc = "send"
  BY <1>42 DEF CancelGet, HandlerGoto
<1>43. ASSUME NEW c \in Cancellers, CancelSave(c)
       PROVE  pc = "send"
  BY <1>43 DEF CancelSave, HandlerGoto
<1>44. ASSUME NEW c \in Cancellers, CancelKill(c)
       PROVE  pc = "send"
  BY <1>44 DEF CancelKill, HandlerGoto
<1>45. ASSUME NEW c \in Cancellers, CancelReap(c)
       PROVE  pc = "send"
  BY <1>45 DEF CancelReap, HandlerGoto, Reaped
<1>46. ASSUME NEW c \in Cancellers, CancelRelease(c)
       PROVE  pc = "send"
  BY <1>46 DEF CancelRelease, HandlerGoto
<1>47. ASSUME NEW c \in Cancellers, CancelClean(c)
       PROVE  pc = "send"
  BY <1>47 DEF CancelClean, HandlerGoto
<1>48. ASSUME NEW c \in Cancellers, CancelNotifyOne(c)
       PROVE  pc = "send"
  BY <1>48 DEF CancelNotifyOne
<1>49. ASSUME NEW c \in Cancellers, CancelDone(c)
       PROVE  pc = "send"
  BY <1>49 DEF CancelDone, HandlerGoto
<1>50. CASE SweepJobs
  BY <1>50 DEF SweepJobs, Claimable
<1>51. CASE SweepSubscribers
  BY <1>51 DEF SweepSubscribers
<1>52. CASE Maintain
  BY <1>52 DEF Maintain
<1>52a. CASE CleanOrphans
  BY <1>52a DEF CleanOrphans
<1>53. CASE ShutdownBegin
  BY <1>53 DEF ShutdownBegin
<1>54. CASE StopTasks
  BY <1>54 DEF StopTasks
<1>55. CASE PrepareShutdown
  BY <1>55 DEF PrepareShutdown
<1>56. CASE Crash
  BY <1>56 DEF Crash, EndTask, ResetLocals
<1>57. CASE Restart
  BY <1>57 DEF Restart
<1>58. CASE UNCHANGED vars
  BY <1>58 DEF vars
<1> HIDE DEF durable, locals, service
<1>59. CASE Task
  BY <1>59, <1>3, <1>4, <1>5, <1>6, <1>7, <1>8, <1>9, <1>10, <1>11, <1>12,
     <1>13, <1>14, <1>15, <1>16, <1>17, <1>18, <1>19, <1>20, <1>21, <1>22,
     <1>23, <1>24, <1>25, <1>26, <1>27, <1>28, <1>29, <1>30, <1>31, <1>32,
     <1>33, <1>34, <1>35, <1>36, <1>37 DEF Task
<1>60. ASSUME NEW c \in Cancellers, CancelJob(c)
       PROVE  pc = "send"
  BY <1>60, <1>42, <1>43, <1>44, <1>45, <1>46, <1>47, <1>48, <1>49 DEF CancelJob
<1>61. CASE Environment
  BY <1>61, <1>38, <1>39, <1>41, <1>50, <1>53, <1>56
     DEF Environment
<1>62. CASE Program
  BY <1>62, <1>59, <1>60, <1>1, <1>2, <1>40, <1>51, <1>52, <1>52a, <1>54, <1>55,
     <1>57
     DEF Program
<1>63. QED
  BY <1>58, <1>61, <1>62 DEF Next

-----------------------------------------------------------------------------
(***************************************************************************)
(* The invariant and what follows from it                                  *)
(***************************************************************************)

\* The conjunction of the parts is inductive.
THEOREM InvariantHolds == Spec => []IInv
<1>1. Init => IInv
  <2> SUFFICES ASSUME Init PROVE IInv
    OBVIOUS
  <2>1. TypeOK
    BY InitType
  <2>2. TaskInv
    BY DEF Init, TaskInv, RunningJobHasTask, Claimable, OngoingPcs, UploadPcs,
       ReservedPcs, TryPcs, ExceptPcs
  <2>3. CancelInv
    BY DEF Init, CancelInv, CancellingPcs
  <2>4. SendInv
    BY DEF Init, SendInv, PastRestarts, DeliveredMeansSent
  <2>5. TellInv /\ FilesInv /\ CompletedLeavesNobodyWaiting
    BY FlagsAssumption
       DEF Init, TellInv, FilesInv, CompletedLeavesNobodyWaiting, MergePcs,
           SendingPcs, UploadPcs
  <2>6. QED
    BY <2>1, <2>2, <2>3, <2>4, <2>5 DEF IInv
<1>2. IInv /\ [Next]_vars => IInv'
  BY TypeStep, TaskStep, CancelStep, SendStep, CompletedStep, TellStep,
     FilesStep DEF IInv
<1>3. QED
  BY <1>1, <1>2, PTL DEF Spec

\* No job is recorded as COMPLETED over a waiting recipient, and none as
\* COMPLETED, no recipient as delivered, without a send.
THEOREM RecordsTellTheTruth == Spec => []RecordsAreTrue
<1>1. IInv => RecordsAreTrue
  BY DEF IInv, SendInv, RecordsAreTrue, CompletedMeansSent
<1>2. QED
  BY <1>1, InvariantHolds, PTL

\* A recipient is sent the media once, and once more at most for each time
\* the process stopped or died.
THEOREM DuplicatesNeedRestarts == Spec => []ResentOnlyAfterRestart
<1>1. IInv => ResentOnlyAfterRestart
  <2> SUFFICES ASSUME IInv, NEW r \in Recipients
               PROVE  sent[r] <= 1 + restarts
    BY DEF ResentOnlyAfterRestart
  <2>1. sent[r] \in Nat /\ restarts \in Nat
    BY DEF IInv, TypeOK
  <2>2. sent[r] <= PastRestarts + 1
    BY DEF IInv, SendInv
  <2>3. QED
    BY <2>1, <2>2 DEF PastRestarts
<1>2. QED
  BY <1>1, InvariantHolds, PTL

\* A running status is always carried on by the dispatcher or the task, which
\* transfers and merges under the job's reservation only.
THEOREM NoJobIsStranded == Spec => []RunningJobIsBacked
<1>1. IInv => RunningJobHasTask
  BY DEF IInv, TaskInv
<1>2. IInv => TransferIsReserved
  BY DEF IInv, TaskInv, TransferIsReserved, ReservedPcs
<1>3. QED
  BY <1>1, <1>2, InvariantHolds, PTL DEF RunningJobIsBacked

\* While the process has not been stopped, a recipient who waits on a job that
\* failed or was cancelled is about to be told, by the job's task, by a cancel
\* handler or by the sweep; on a completed job nobody waits.
THEOREM TheWaitingAreTold == Spec => []NobodyForgotten
<1>1. IInv => NobodyForgotten
  <2> SUFFICES ASSUME IInv, restarts = 0, status \in Terminal, Waiting # {}
               PROVE  \/ pc # "none"
                      \/ sweep = "subscribers"
                      \/ \E c \in Cancellers : hpc[c] # "idle"
    BY DEF NobodyForgotten
  <2>1. status \in {"failed", "cancelled"}
    BY DEF IInv, CompletedLeavesNobodyWaiting, Terminal
  <2>2. QED
    BY <2>1 DEF IInv, TellInv, CancellingPcs
<1>2. QED
  BY <1>1, InvariantHolds, PTL

\* Telegram is given a whole file, or, after a restart, an unfinished merge that an
\* interrupted process left under the final name.
THEOREM WholeFilesAreSent == Spec => OnlyFinishedFilesUnlessInterrupted
<1>1. IInv /\ [Next]_vars
        => [\A r \in Recipients : sent'[r] # sent[r]
              => files = FinishedFile
                 \/ (restarts > 0 /\ files = "unfinished_merge")]_vars
  BY MediaIsSentAtSend DEF IInv, FilesInv, SendingPcs, UploadPcs
<1>2. QED
  BY <1>1, InvariantHolds, PTL DEF Spec, OnlyFinishedFilesUnlessInterrupted

\* The files are never removed under a task that works with them: a cancel
\* handler has seen the task end before it cleans up.
THEOREM NoFilesPulledAway == Spec => FilesOutliveTheTask
<1>1. IInv /\ [Next]_vars
        => [files # "none" /\ files' = "none" => pc \notin WorkingPcs]_vars
  <2> SUFFICES ASSUME IInv, [Next]_vars, files # "none", files' = "none"
               PROVE  pc \notin WorkingPcs
    OBVIOUS
  <2> USE DEF durable, locals, service
  <2>1. CASE Claim
    BY <2>1 DEF Claim, Claimable
  <2>2. CASE CreateTask
    BY <2>2 DEF CreateTask
  <2>3. CASE DeliverCancel
    BY <2>3 DEF DeliverCancel, EndTask, ResetLocals
  <2>4. CASE Begin
    BY <2>4 DEF Begin, At, Goto
  <2>5. CASE FormatsResolved
    BY <2>5 DEF FormatsResolved, At, Goto
  <2>6. CASE FormatsDenied
    BY <2>6 DEF FormatsDenied, At, Goto
  <2>7. CASE CheckCancelled
    BY <2>7 DEF CheckCancelled, At, Goto, Raise, AfterCheck, AfterDownload
  <2>8. CASE Denied
    BY <2>8 DEF Denied, At, Goto, LeaseThen
  <2>9. CASE SetStatusRead
    BY <2>9 DEF SetStatusRead, At, Goto, Raise, SetStatusCalls
  <2>10. CASE SetStatusSave
    BY <2>10 DEF SetStatusSave, At, Goto, SetStatusCalls
  <2>11. CASE Progress
    BY <2>11 DEF Progress, At, Goto, FileStates
  <2>12. CASE Downloaded
    BY <2>12 DEF Downloaded, At, Goto, AfterDownload, FileStates
  <2>13. CASE MergeBegins
    BY <2>13 DEF MergeBegins, At, Goto, FileStates
  <2>14. CASE Merged
    BY <2>14 DEF Merged, At, Goto, FileStates
  <2>15. CASE Fails
    BY <2>15 DEF Fails, At, Goto
  <2>16. CASE ListRecipients
    BY <2>16 DEF ListRecipients, At, Goto
  <2>17. CASE PickRecipient
    BY <2>17 DEF PickRecipient, At, Goto
  <2>18. CASE Send
    BY <2>18 DEF Send, At, Goto
  <2>19. CASE SendUnusable
    BY <2>19 DEF SendUnusable, At, Goto
  <2>20. CASE SendFails
    BY <2>20 DEF SendFails, At, Goto
  <2>21. CASE MarkRecipient
    BY <2>21 DEF MarkRecipient, At, Goto, MarkAs
  <2>22. CASE EndRound
    BY <2>22 DEF EndRound, At, Goto
  <2>23. CASE SaveRound
    BY <2>23 DEF SaveRound, At, Goto
  <2>24. CASE Finalize
    BY <2>24 DEF Finalize, At, Goto, Finalized
  <2>25. CASE Reread
    BY <2>25 DEF Reread, At, Goto
  <2>26. CASE NotifyOne
    BY <2>26 DEF NotifyOne, At, Goto, NotifiedAs
  <2>27. CASE NotifyEndDone
    BY <2>27 DEF NotifyEndDone, At, Goto
  <2>28. CASE NotifyFailedDone
    BY <2>28 DEF NotifyFailedDone, At, Goto
  <2>29. CASE RequeueRead
    BY <2>29 DEF RequeueRead, At, Goto
  <2>30. CASE RequeueSave
    BY <2>30 DEF RequeueSave, At, Goto
  <2>31. CASE FailRead
    BY <2>31 DEF FailRead, At, Goto
  <2>32. CASE FinalRead
    BY <2>32 DEF FinalRead, At, Goto, EndTask, ResetLocals
  <2>33. CASE TaskRelease
    BY <2>33 DEF TaskRelease, At, Goto
  <2>34. CASE TaskCleanup
    BY <2>34 DEF TaskCleanup, At, Goto, EndTask, ResetLocals, WorkingPcs,
           TryPcs
  <2>35. ASSUME NEW p \in DOMAIN LeaseThen, LeaseGranted(p)
         PROVE  pc \notin WorkingPcs
    BY <2>35 DEF LeaseGranted, At, Goto, LeaseThen
  <2>36. CASE ReserveGranted("reserve", "check_download")
    BY <2>36 DEF ReserveGranted, At, Goto
  <2>37. CASE ReserveGranted("merge_reserve", "merge_status")
    BY <2>37 DEF ReserveGranted, At, Goto
  <2>38. ASSUME NEW r \in Recipients, Join(r)
         PROVE  pc \notin WorkingPcs
    BY <2>38 DEF Join, Joinable
  <2>39. ASSUME NEW r \in Recipients, LeaveJob(r)
         PROVE  pc \notin WorkingPcs
    BY <2>39 DEF LeaveJob, HandlerGoto, AfterLeave
  <2>40. ASSUME NEW r \in Recipients, CountWaiting(r)
         PROVE  pc \notin WorkingPcs
    BY <2>40 DEF CountWaiting, HandlerGoto
  <2>41. CASE AdminCancels
    BY <2>41 DEF AdminCancels, HandlerGoto
  <2>42. ASSUME NEW c \in Cancellers, CancelGet(c)
         PROVE  pc \notin WorkingPcs
    BY <2>42 DEF CancelGet, HandlerGoto
  <2>43. ASSUME NEW c \in Cancellers, CancelSave(c)
         PROVE  pc \notin WorkingPcs
    BY <2>43 DEF CancelSave, HandlerGoto
  <2>44. ASSUME NEW c \in Cancellers, CancelKill(c)
         PROVE  pc \notin WorkingPcs
    BY <2>44 DEF CancelKill, HandlerGoto
  <2>45. ASSUME NEW c \in Cancellers, CancelReap(c)
         PROVE  pc \notin WorkingPcs
    BY <2>45 DEF CancelReap, HandlerGoto, Reaped
  <2>46. ASSUME NEW c \in Cancellers, CancelRelease(c)
         PROVE  pc \notin WorkingPcs
    BY <2>46 DEF CancelRelease, HandlerGoto
  <2>47. ASSUME NEW c \in Cancellers, CancelClean(c)
         PROVE  pc \notin WorkingPcs
    BY <2>47 DEF CancelClean, HandlerGoto, IInv, CancelInv
  <2>48. ASSUME NEW c \in Cancellers, CancelNotifyOne(c)
         PROVE  pc \notin WorkingPcs
    BY <2>48 DEF CancelNotifyOne
  <2>49. ASSUME NEW c \in Cancellers, CancelDone(c)
         PROVE  pc \notin WorkingPcs
    BY <2>49 DEF CancelDone, HandlerGoto
  <2>50. CASE SweepJobs
    BY <2>50 DEF SweepJobs, Claimable
  <2>51. CASE SweepSubscribers
    BY <2>51 DEF SweepSubscribers
  <2>52. CASE Maintain
    BY <2>52 DEF Maintain
  <2>52a. CASE CleanOrphans
    BY <2>52a DEF CleanOrphans, WorkingPcs, TryPcs
  <2>53. CASE ShutdownBegin
    BY <2>53 DEF ShutdownBegin
  <2>54. CASE StopTasks
    BY <2>54 DEF StopTasks
  <2>55. CASE PrepareShutdown
    BY <2>55 DEF PrepareShutdown
  <2>56. CASE Crash
    BY <2>56 DEF Crash, EndTask, ResetLocals
  <2>57. CASE Restart
    BY <2>57 DEF Restart
  <2>58. CASE UNCHANGED vars
    BY <2>58 DEF vars
  <2> HIDE DEF durable, locals, service
  <2>59. CASE Task
    BY <2>59, <2>3, <2>4, <2>5, <2>6, <2>7, <2>8, <2>9, <2>10, <2>11, <2>12,
       <2>13, <2>14, <2>15, <2>16, <2>17, <2>18, <2>19, <2>20, <2>21, <2>22,
       <2>23, <2>24, <2>25, <2>26, <2>27, <2>28, <2>29, <2>30, <2>31, <2>32,
       <2>33, <2>34, <2>35, <2>36, <2>37 DEF Task
  <2>60. ASSUME NEW c \in Cancellers, CancelJob(c)
         PROVE  pc \notin WorkingPcs
    BY <2>60, <2>42, <2>43, <2>44, <2>45, <2>46, <2>47, <2>48, <2>49 DEF CancelJob
  <2>61. CASE Environment
    BY <2>61, <2>38, <2>39, <2>41, <2>50, <2>53, <2>56
       DEF Environment
  <2>62. CASE Program
    BY <2>62, <2>59, <2>60, <2>1, <2>2, <2>40, <2>51, <2>52, <2>52a, <2>54, <2>55,
       <2>57
       DEF Program
  <2>63. QED
    BY <2>58, <2>61, <2>62 DEF Next
<1>2. QED
  BY <1>1, InvariantHolds, PTL DEF Spec, FilesOutliveTheTask

-----------------------------------------------------------------------------
(***************************************************************************)
(* The delivery contract: every step of the job lifecycle is a step of the *)
(* contract or leaves the contract's variables alone                       *)
(***************************************************************************)

\* Recovery queues a job for whoever is waiting, and for nobody else.
LEMMA RecoveredPhase ==
    ASSUME TypeOK, Known # {}, status \in Active
    PROVE  LET outcomes == {sub[r] : r \in Known}
           IN  Recovered(outcomes, status) = "queued" <=> Waiting # {}
  <1> DEFINE outcomes == {sub[r] : r \in Known}
  <1>1. outcomes # {}
    OBVIOUS
  <1>2. "waiting" \in outcomes <=> Waiting # {}
    BY DEF Known, Waiting
  <1>3. Recovered(outcomes, status) = "queued" <=> "waiting" \in outcomes
    <2> HIDE DEF outcomes
    <2>1. QED
      BY <1>1 DEF Recovered
  <1>4. QED
    BY <1>2, <1>3

\* A restart leaves a job queued exactly if somebody waits for it.
LEMMA RestartPhase ==
    ASSUME IInv, Known # {}, Restart
    PROVE  /\ status' \in Active => status \in Active /\ Waiting # {}
           /\ Waiting' = Waiting
  <1> DEFINE outcomes == {sub[r] : r \in Known}
  <1>1. status \in Active => (Recovered(outcomes, status) = "queued" <=> Waiting # {})
    BY RecoveredPhase DEF IInv
  <1>2. /\ status \in Active => Recovered(outcomes, status) \in {"queued"} \cup Terminal
        /\ status \notin Active => Recovered(outcomes, status) = status
    BY RecoveredValue DEF IInv, TypeOK
  <1> HIDE DEF outcomes
  <1>3. status' \in Active => status \in Active /\ Waiting # {}
    BY <1>1, <1>2 DEF Restart, outcomes, Active, Terminal
  <1>4. QED
    BY <1>3 DEF Restart, Waiting

\* The strengthening is inductive beside the lifecycle's invariant.
LEMMA ContractInvStep == IInv /\ IInv' /\ ContractInv /\ [Next]_vars => ContractInv'
<1> SUFFICES ASSUME IInv, IInv', ContractInv, [Next]_vars PROVE ContractInv'
  OBVIOUS
<1>0. /\ sub \in [Recipients -> SubStatus] /\ status \in JobStatus
      /\ interrupted => status = "cancelled" \/ mode = "stopping"
      /\ mode = "down" => pc = "none"
      /\ pc \in OngoingPcs => status \in Active \cup {"cancelled"}
  BY DEF IInv, TypeOK, CancelInv, TaskInv
<1> USE <1>0 DEF ContractInv, Known, Waiting, durable, locals, service
<1>1. CASE Claim
  BY <1>1 DEF Claim, Claimable
<1>2. CASE CreateTask
  BY <1>2 DEF CreateTask
<1>3. CASE DeliverCancel
  <2>1. /\ sub' = sub /\ status' = status /\ mode' = mode
        /\ pc' \in {"requeue_read", "final_read", "none"}
        /\ pc' = "requeue_read" => pc \in TryPcs
    BY <1>3 DEF DeliverCancel, EndTask, OnCancel
  <2>2. ASSUME pc' = "requeue_read", status \in {"completed", "failed"}
        PROVE  mode # "up" /\ Waiting = {}
    <3>1. mode = "stopping"
      BY <1>3, <2>2 DEF DeliverCancel
    <3>2. pc \in {"reread", "notify_end"}
      BY <2>1, <2>2 DEF OngoingPcs, TryPcs, Active
    <3>3. QED
      BY <2>2, <3>1, <3>2 DEF IInv, CompletedLeavesNobodyWaiting
  <2>3. QED
    BY <2>1, <2>2
<1>4. CASE Begin
  BY <1>4 DEF Begin, At, Goto
<1>5. CASE FormatsResolved
  BY <1>5 DEF FormatsResolved, At, Goto
<1>6. CASE FormatsDenied
  BY <1>6 DEF FormatsDenied, At, Goto
<1>7. CASE CheckCancelled
  BY <1>7 DEF CheckCancelled, At, Goto, Raise, OnCancel, AfterCheck,
         AfterDownload, TryPcs
<1>8. CASE Denied
  BY <1>8 DEF Denied, At, Goto, LeaseThen
<1>9. CASE SetStatusRead
  BY <1>9 DEF SetStatusRead, At, Goto, Raise, OnCancel, SetStatusCalls,
         TryPcs, ExceptPcs
<1>10. CASE SetStatusSave
  <2>1. /\ ~interrupted
        /\ pc \in {"download_save", "merge_save", "upload_save", "wait_save",
                   "deny_save", "fail_save"}
        /\ pc' \notin {"reread", "notify_end", "requeue_read", "requeue_save"}
        /\ sub' = sub
    BY <1>10 DEF SetStatusSave, At, Goto, SetStatusCalls
  <2>2. QED
    BY <2>1
<1>11. CASE Progress
  BY <1>11, SaveJobValue DEF Progress, At, Goto
<1>12. CASE Downloaded
  BY <1>12 DEF Downloaded, At, Goto, AfterDownload
<1>13. CASE MergeBegins
  BY <1>13 DEF MergeBegins, At, Goto
<1>14. CASE Merged
  BY <1>14 DEF Merged, At, Goto
<1>15. CASE Fails
  BY <1>15 DEF Fails, At, Goto
<1>16. CASE ListRecipients
  BY <1>16 DEF ListRecipients, At, Goto
<1>17. CASE PickRecipient
  BY <1>17 DEF PickRecipient, At, Goto
<1>18. CASE Send
  BY <1>18 DEF Send, At, Goto
<1>19. CASE SendUnusable
  BY <1>19 DEF SendUnusable, At, Goto
<1>20. CASE SendFails
  BY <1>20 DEF SendFails, At, Goto
<1>21. CASE MarkRecipient
  <2>1. PICK p \in DOMAIN MarkAs : pc = p /\ sub' = Mark(cur, MarkAs[p])
    BY <1>21 DEF MarkRecipient, At
  <2>2. MarkAs[p] \in Outcome /\ cur \in Recipients /\ pc' = "pick"
    BY <1>21, <2>1 DEF MarkRecipient, MarkAs, Outcome, Goto, IInv, SendInv, Known
  <2>3. \A q \in Recipients : sub[q] = "absent" <=> sub'[q] = "absent"
    BY <2>1, <2>2, MarkEffect DEF IInv
  <2>4. QED
    BY <2>2, <2>3
<1>22. CASE EndRound
  BY <1>22 DEF EndRound, At, Goto
<1>23. CASE SaveRound
  BY <1>23, SaveJobValue DEF SaveRound, At, Goto
<1>24. CASE Finalize
  <2>1. status \in Active \cup {"cancelled"} /\ pc' # "requeue_read" /\ pc' # "requeue_save"
    BY <1>24 DEF Finalize, At, Goto, OngoingPcs, TryPcs
  <2>2. status' = "failed" => Waiting = {}
    BY <1>24, <2>1 DEF Finalize, Finalized, Active
  <2>3. QED
    BY <1>24, <2>1, <2>2 DEF Finalize
<1>25. CASE Reread
  BY <1>25 DEF Reread, At, Goto
<1>26. CASE NotifyOne
  <2>1. PICK r \in Recipients : sub' = Mark(r, NotifiedAs[view])
    BY <1>26 DEF NotifyOne
  <2>2. NotifiedAs[view] \in Outcome
    BY <1>26 DEF NotifyOne, NotifiedAs, Outcome
  <2>3. /\ \A q \in Recipients : sub[q] = "absent" <=> sub'[q] = "absent"
        /\ \A q \in Recipients : sub'[q] = "waiting" => sub[q] = "waiting"
    BY <2>1, <2>2, MarkEffect DEF IInv
  <2>4. QED
    BY <1>26, <2>3 DEF NotifyOne
<1>27. CASE NotifyEndDone
  BY <1>27 DEF NotifyEndDone, At, Goto
<1>28. CASE NotifyFailedDone
  BY <1>28 DEF NotifyFailedDone, At, Goto
<1>29. CASE RequeueRead
  BY <1>29 DEF RequeueRead, At, Goto
<1>30. CASE RequeueSave
  BY <1>30, SaveJobValue DEF RequeueSave, At, Goto
<1>31. CASE FailRead
  BY <1>31 DEF FailRead, At, Goto
<1>32. CASE FinalRead
  BY <1>32 DEF FinalRead, At, Goto, EndTask, ResetLocals
<1>33. CASE TaskRelease
  BY <1>33 DEF TaskRelease, At, Goto
<1>34. CASE TaskCleanup
  BY <1>34 DEF TaskCleanup, At, Goto, EndTask, ResetLocals
<1>35. ASSUME NEW p \in DOMAIN LeaseThen, LeaseGranted(p)
       PROVE  ContractInv'
  BY <1>35 DEF LeaseGranted, At, Goto, LeaseThen
<1>36. CASE ReserveGranted("reserve", "check_download")
  BY <1>36 DEF ReserveGranted, At, Goto
<1>37. CASE ReserveGranted("merge_reserve", "merge_status")
  BY <1>37 DEF ReserveGranted, At, Goto
<1>38. ASSUME NEW r \in Recipients, Join(r)
       PROVE  ContractInv'
  BY <1>38 DEF Join, Joinable, Active
<1>39. ASSUME NEW r \in Recipients, LeaveJob(r)
       PROVE  ContractInv'
  BY <1>39 DEF LeaveJob, HandlerGoto, AfterLeave, Active
<1>40. ASSUME NEW r \in Recipients, CountWaiting(r)
       PROVE  ContractInv'
  BY <1>40 DEF CountWaiting, HandlerGoto
<1>41. CASE AdminCancels
  BY <1>41 DEF AdminCancels, HandlerGoto
<1>42. ASSUME NEW c \in Cancellers, CancelGet(c)
       PROVE  ContractInv'
  BY <1>42 DEF CancelGet, HandlerGoto
<1>43. ASSUME NEW c \in Cancellers, CancelSave(c)
       PROVE  ContractInv'
  BY <1>43, SaveJobValue DEF CancelSave, HandlerGoto
<1>44. ASSUME NEW c \in Cancellers, CancelKill(c)
       PROVE  ContractInv'
  BY <1>44 DEF CancelKill, HandlerGoto
<1>45. ASSUME NEW c \in Cancellers, CancelReap(c)
       PROVE  ContractInv'
  BY <1>45 DEF CancelReap, HandlerGoto, Reaped
<1>46. ASSUME NEW c \in Cancellers, CancelRelease(c)
       PROVE  ContractInv'
  BY <1>46 DEF CancelRelease, HandlerGoto
<1>47. ASSUME NEW c \in Cancellers, CancelClean(c)
       PROVE  ContractInv'
  BY <1>47 DEF CancelClean, HandlerGoto
<1>48. ASSUME NEW c \in Cancellers, CancelNotifyOne(c)
       PROVE  ContractInv'
  <2>1. PICK r \in Recipients : sub' = Mark(r, "cancelled")
    BY <1>48 DEF CancelNotifyOne
  <2>2. /\ \A q \in Recipients : sub[q] = "absent" <=> sub'[q] = "absent"
        /\ \A q \in Recipients : sub'[q] = "waiting" => sub[q] = "waiting"
    BY <2>1, MarkEffect DEF IInv, Outcome
  <2>3. QED
    BY <1>48, <2>2 DEF CancelNotifyOne
<1>49. ASSUME NEW c \in Cancellers, CancelDone(c)
       PROVE  ContractInv'
  BY <1>49 DEF CancelDone, HandlerGoto
<1>50. CASE SweepJobs
  BY <1>50 DEF SweepJobs, Claimable
<1>51. CASE SweepSubscribers
  BY <1>51 DEF SweepSubscribers
<1>52. CASE Maintain
  BY <1>52 DEF Maintain
<1>52a. CASE CleanOrphans
  BY <1>52a DEF CleanOrphans
<1>53. CASE ShutdownBegin
  BY <1>53 DEF ShutdownBegin
<1>54. CASE StopTasks
  BY <1>54 DEF StopTasks
<1>55. CASE PrepareShutdown
  BY <1>55 DEF PrepareShutdown
<1>56. CASE Crash
  BY <1>56 DEF Crash, EndTask, ResetLocals
<1>57. CASE Restart
  <2>1. pc' = "none" /\ sub' = sub
    BY <1>57 DEF Restart
  <2>2. QED
    BY <2>1
<1>58. CASE UNCHANGED vars
  BY <1>58 DEF vars
<1> HIDE DEF ContractInv, Known, Waiting, durable, locals, service
<1>59. CASE Task
  BY <1>59, <1>3, <1>4, <1>5, <1>6, <1>7, <1>8, <1>9, <1>10, <1>11, <1>12,
     <1>13, <1>14, <1>15, <1>16, <1>17, <1>18, <1>19, <1>20, <1>21, <1>22,
     <1>23, <1>24, <1>25, <1>26, <1>27, <1>28, <1>29, <1>30, <1>31, <1>32,
     <1>33, <1>34, <1>35, <1>36, <1>37 DEF Task
<1>60. ASSUME NEW c \in Cancellers, CancelJob(c)
       PROVE  ContractInv'
  BY <1>60, <1>42, <1>43, <1>44, <1>45, <1>46, <1>47, <1>48, <1>49 DEF CancelJob
<1>61. CASE Environment
  BY <1>61, <1>38, <1>39, <1>41, <1>50, <1>53, <1>56
     DEF Environment
<1>62. CASE Program
  BY <1>62, <1>59, <1>60, <1>1, <1>2, <1>40, <1>51, <1>52, <1>52a, <1>54, <1>55, <1>57
     DEF Program
<1>63. QED
  BY <1>58, <1>61, <1>62 DEF Next

\* Every step of the lifecycle is a step of the contract, or none.
LEMMA ContractStep ==
    IInv /\ IInv' /\ ContractInv /\ ContractInv' /\ [Next]_vars
        => [Contract!Next]_(Contract!vars)
<1> SUFFICES ASSUME IInv, IInv', ContractInv, ContractInv', [Next]_vars
             PROVE  [Contract!Next]_(Contract!vars)
  OBVIOUS
<1>0. /\ sub \in [Recipients -> SubStatus] /\ sub' \in [Recipients -> SubStatus]
      /\ sent \in [Recipients -> Nat] /\ sent' \in [Recipients -> Nat]
      /\ pc \in OngoingPcs => status \in Active \cup {"cancelled"}
  BY DEF IInv, TypeOK, TaskInv
<1>stutter. ASSUME sub' = sub, sent' = sent, Phase' = Phase
            PROVE  Contract!vars' = Contract!vars
  BY <1>stutter DEF Contract!vars, Served
<1>close. ASSUME sub' = sub, sent' = sent, Phase' = "open" => Phase = "open"
          PROVE  [Contract!Next]_(Contract!vars)
  <2>1. Phase \in {"open", "closed"} /\ Phase' \in {"open", "closed"}
    BY DEF Phase
  <2>2. CASE Phase' = Phase
    BY <1>close, <1>stutter, <2>2
  <2>3. CASE Phase = "open" /\ Phase' = "closed"
    BY <1>close, <2>3 DEF Contract!Next, Contract!Close, Served
  <2>4. QED
    BY <1>close, <2>1, <2>2, <2>3
<1>settle. ASSUME NEW S \in SUBSET Waiting, NEW o \in Outcome,
                  sub' = [r \in Recipients |-> IF r \in S THEN o ELSE sub[r]],
                  o = "delivered" => S \subseteq Served,
                  sent' = sent, Phase' = "open" => Phase = "open"
           PROVE  [Contract!Next]_(Contract!vars)
  <2>1. CASE S = {}
    <3>1. sub' = sub
      BY <1>settle, <1>0, <2>1
    <3>2. QED
      BY <1>settle, <1>close, <3>1
  <2>2. CASE S # {}
    <3>1. /\ S \in SUBSET Recipients /\ o \in Contract!Settled
          /\ S \subseteq Contract!WaitingFor
      BY <1>settle DEF Waiting, Outcome, Contract!Settled, Contract!WaitingFor
    <3>2. Phase' \in {Phase, "closed"} /\ Served' = Served
      BY <1>settle DEF Phase, Served
    <3>3. Contract!Settle(S, o)
      BY <1>settle, <2>2, <3>1, <3>2 DEF Contract!Settle
    <3>4. QED
      BY <3>1, <3>3 DEF Contract!Next
  <2>3. QED
    BY <2>1, <2>2
<1>mark. ASSUME NEW r \in Recipients, NEW o \in Outcome, sub' = Mark(r, o),
                o = "delivered" => sent[r] > 0,
                sent' = sent, status' = status, mode' = mode
         PROVE  [Contract!Next]_(Contract!vars)
  <2> DEFINE S == {r} \cap Waiting
  <2>1. sub' = [q \in Recipients |-> IF q \in S THEN o ELSE sub[q]]
    BY <1>mark, <1>0 DEF Mark, Waiting
  <2>2. Waiting' \subseteq Waiting
    BY <1>mark, MarkWaiting DEF IInv
  <2>3. Phase' = "open" => Phase = "open"
    BY <1>mark, <2>2 DEF Phase
  <2>4. o = "delivered" => S \subseteq Served
    BY <1>mark DEF Served
  <2>5. S \in SUBSET Waiting
    OBVIOUS
  <2> HIDE DEF S
  <2>6. QED
    BY <1>mark, <1>settle, <2>1, <2>3, <2>4, <2>5
<1>serve. ASSUME cur \in Known, sent' = [sent EXCEPT ![cur] = @ + 1],
                 sub' = sub, status' = status, mode' = mode
          PROVE  [Contract!Next]_(Contract!vars)
  <2>1. Served' = Served \cup {cur}
    BY <1>serve, <1>0 DEF Served, Known
  <2>2. Phase' = Phase
    BY <1>serve DEF Phase, Waiting
  <2>3. Contract!Serve(cur)
    BY <1>serve, <2>1, <2>2 DEF Contract!Serve, Known
  <2>4. QED
    BY <1>serve, <2>3 DEF Contract!Next, Known
<1> USE DEF durable, locals, service
<1>1. CASE Claim
  BY <1>1, <1>close DEF Claim, Claimable, Phase, Waiting, Active
<1>2. CASE CreateTask
  BY <1>2, <1>close DEF CreateTask, Phase, Waiting
<1>3. CASE DeliverCancel
  BY <1>3, <1>close DEF DeliverCancel, EndTask, ResetLocals, OnCancel, Phase,
         Waiting
<1>4. CASE Begin
  BY <1>4, <1>close DEF Begin, At, Goto, Phase, Waiting
<1>5. CASE FormatsResolved
  BY <1>5, <1>close DEF FormatsResolved, At, Goto, Phase, Waiting
<1>6. CASE FormatsDenied
  BY <1>6, <1>close DEF FormatsDenied, At, Goto, Phase, Waiting
<1>7. CASE CheckCancelled
  BY <1>7, <1>close DEF CheckCancelled, At, Goto, Raise, OnCancel, AfterCheck,
         AfterDownload, Phase, Waiting
<1>8. CASE Denied
  BY <1>8, <1>close DEF Denied, At, Goto, LeaseThen, Phase, Waiting
<1>9. CASE SetStatusRead
  BY <1>9, <1>close DEF SetStatusRead, At, Goto, Raise, OnCancel,
         SetStatusCalls, Phase, Waiting
<1>10. CASE SetStatusSave
  <2>1. PICK c \in SetStatusCalls : At(c.save) /\ status' = SaveJob(status, c.to)
    BY <1>10 DEF SetStatusSave
  <2>2. pc \in OngoingPcs
    BY <2>1 DEF SetStatusCalls, At, OngoingPcs, TryPcs, ExceptPcs
  <2>3. status' \in Active => status \in Active
    BY <1>0, <2>1, <2>2, SaveJobValue DEF Active
  <2>4. QED
    BY <1>10, <1>close, <2>3 DEF SetStatusSave, Phase, Waiting
<1>11. CASE Progress
  <2>1. status' \in Active => status \in Active
    BY <1>11, <1>0, SaveJobValue DEF Progress, At, OngoingPcs, TryPcs, Active
  <2>2. QED
    BY <1>11, <1>close, <2>1 DEF Progress, Phase, Waiting
<1>12. CASE Downloaded
  BY <1>12, <1>close DEF Downloaded, At, Goto, AfterDownload, Phase, Waiting
<1>13. CASE MergeBegins
  BY <1>13, <1>close DEF MergeBegins, At, Goto, Phase, Waiting
<1>14. CASE Merged
  BY <1>14, <1>close DEF Merged, At, Goto, Phase, Waiting
<1>15. CASE Fails
  BY <1>15, <1>close DEF Fails, At, Goto, Phase, Waiting
<1>16. CASE ListRecipients
  BY <1>16, <1>close DEF ListRecipients, At, Goto, Phase, Waiting
<1>17. CASE PickRecipient
  BY <1>17, <1>close DEF PickRecipient, At, Goto, Phase, Waiting
<1>18. CASE Send
  BY <1>18, <1>serve DEF Send, At, IInv, SendInv
<1>19. CASE SendUnusable
  BY <1>19, <1>serve DEF SendUnusable, At, IInv, SendInv
<1>20. CASE SendFails
  BY <1>20, <1>close DEF SendFails, At, Goto, Phase, Waiting
<1>21. CASE MarkRecipient
  <2>1. PICK p \in DOMAIN MarkAs : pc = p /\ sub' = Mark(cur, MarkAs[p])
    BY <1>21 DEF MarkRecipient, At
  <2>2. /\ MarkAs[p] \in Outcome /\ cur \in Recipients
        /\ MarkAs[p] = "delivered" => sent[cur] > 0
    BY <2>1 DEF MarkAs, Outcome, IInv, SendInv, Known
  <2>3. QED
    BY <1>21, <1>mark, <2>1, <2>2 DEF MarkRecipient
<1>22. CASE EndRound
  BY <1>22, <1>close DEF EndRound, At, Goto, Phase, Waiting
<1>23. CASE SaveRound
  <2>1. status' \in Active => status \in Active
    BY <1>23, <1>0, SaveJobValue DEF SaveRound, At, OngoingPcs, TryPcs, Active
  <2>2. QED
    BY <1>23, <1>close, <2>1 DEF SaveRound, Phase, Waiting
<1>24. CASE Finalize
  <2>1. status' \in Active => status \in Active
    BY <1>24 DEF Finalize, Finalized, Active
  <2>2. QED
    BY <1>24, <1>close, <2>1 DEF Finalize, Phase, Waiting
<1>25. CASE Reread
  BY <1>25, <1>close DEF Reread, At, Goto, Phase, Waiting
<1>26. CASE NotifyOne
  <2>1. PICK r \in Recipients : sub' = Mark(r, NotifiedAs[view])
    BY <1>26 DEF NotifyOne, Waiting
  <2>2. NotifiedAs[view] \in Outcome \ {"delivered"}
    BY <1>26 DEF NotifyOne, NotifiedAs, Outcome
  <2>3. QED
    BY <1>26, <1>mark, <2>1, <2>2 DEF NotifyOne
<1>27. CASE NotifyEndDone
  BY <1>27, <1>close DEF NotifyEndDone, At, Goto, Phase, Waiting
<1>28. CASE NotifyFailedDone
  BY <1>28, <1>close DEF NotifyFailedDone, At, Goto, Phase, Waiting
<1>29. CASE RequeueRead
  BY <1>29, <1>close DEF RequeueRead, At, Goto, Phase, Waiting
<1>30. CASE RequeueSave
  <2>1. \/ status \in Active
        \/ status = "cancelled" /\ status' = "cancelled"
        \/ mode # "up" /\ Waiting = {}
    BY <1>30, SaveJobValue
       DEF RequeueSave, At, ContractInv, IInv, TypeOK, JobStatus, Terminal
  <2>2. QED
    BY <1>30, <1>close, <2>1 DEF RequeueSave, Phase, Waiting, Active
<1>31. CASE FailRead
  BY <1>31, <1>close DEF FailRead, At, Goto, Phase, Waiting
<1>32. CASE FinalRead
  BY <1>32, <1>close DEF FinalRead, At, Goto, EndTask, ResetLocals, Phase,
         Waiting
<1>33. CASE TaskRelease
  BY <1>33, <1>close DEF TaskRelease, At, Goto, Phase, Waiting
<1>34. CASE TaskCleanup
  BY <1>34, <1>close DEF TaskCleanup, At, Goto, EndTask, ResetLocals, Phase,
         Waiting
<1>35. ASSUME NEW p \in DOMAIN LeaseThen, LeaseGranted(p)
       PROVE  [Contract!Next]_(Contract!vars)
  BY <1>35, <1>close DEF LeaseGranted, At, Goto, LeaseThen, Phase, Waiting
<1>36. CASE ReserveGranted("reserve", "check_download")
  BY <1>36, <1>close DEF ReserveGranted, At, Goto, Phase, Waiting
<1>37. CASE ReserveGranted("merge_reserve", "merge_status")
  BY <1>37, <1>close DEF ReserveGranted, At, Goto, Phase, Waiting
<1>38. ASSUME NEW r \in Recipients, Join(r)
       PROVE  [Contract!Next]_(Contract!vars)
  <2>1. Phase = "open" /\ Phase' = "open"
    BY <1>38 DEF Join, Joinable, Phase
  <2>2. Contract!Ask(r)
    BY <1>38, <2>1 DEF Join, Contract!Ask, Served
  <2>3. QED
    BY <2>2 DEF Contract!Next
<1>39. ASSUME NEW r \in Recipients, LeaveJob(r)
       PROVE  [Contract!Next]_(Contract!vars)
  <2>1. sub' = [q \in Recipients |-> IF q \in {r} THEN "cancelled" ELSE sub[q]]
    BY <1>39, <1>0 DEF LeaveJob
  <2>2. Phase' = "open" => Phase = "open"
    BY <1>39 DEF LeaveJob, AfterLeave, Phase, Active
  <2>3. {r} \in SUBSET Waiting
    BY <1>39 DEF LeaveJob, Waiting
  <2>4. QED
    BY <1>39, <1>settle, <2>1, <2>2, <2>3 DEF LeaveJob, Outcome
<1>40. ASSUME NEW r \in Recipients, CountWaiting(r)
       PROVE  [Contract!Next]_(Contract!vars)
  BY <1>40, <1>close DEF CountWaiting, HandlerGoto, Phase, Waiting
<1>41. CASE AdminCancels
  BY <1>41, <1>close DEF AdminCancels, HandlerGoto, Phase, Waiting
<1>42. ASSUME NEW c \in Cancellers, CancelGet(c)
       PROVE  [Contract!Next]_(Contract!vars)
  BY <1>42, <1>close DEF CancelGet, HandlerGoto, Phase, Waiting
<1>43. ASSUME NEW c \in Cancellers, CancelSave(c)
       PROVE  [Contract!Next]_(Contract!vars)
  <2>1. status' \notin Active
    BY <1>43, SaveJobValue DEF CancelSave, SaveJob, Active
  <2>2. QED
    BY <1>43, <1>close, <2>1 DEF CancelSave, Phase, Waiting
<1>44. ASSUME NEW c \in Cancellers, CancelKill(c)
       PROVE  [Contract!Next]_(Contract!vars)
  BY <1>44, <1>close DEF CancelKill, HandlerGoto, Phase, Waiting
<1>45. ASSUME NEW c \in Cancellers, CancelReap(c)
       PROVE  [Contract!Next]_(Contract!vars)
  BY <1>45, <1>close DEF CancelReap, HandlerGoto, Reaped, Phase, Waiting
<1>46. ASSUME NEW c \in Cancellers, CancelRelease(c)
       PROVE  [Contract!Next]_(Contract!vars)
  BY <1>46, <1>close DEF CancelRelease, HandlerGoto, Phase, Waiting
<1>47. ASSUME NEW c \in Cancellers, CancelClean(c)
       PROVE  [Contract!Next]_(Contract!vars)
  BY <1>47, <1>close DEF CancelClean, HandlerGoto, Phase, Waiting
<1>48. ASSUME NEW c \in Cancellers, CancelNotifyOne(c)
       PROVE  [Contract!Next]_(Contract!vars)
  <2>1. PICK r \in Recipients : sub' = Mark(r, "cancelled")
    BY <1>48 DEF CancelNotifyOne, Waiting
  <2>2. QED
    BY <1>48, <1>mark, <2>1 DEF CancelNotifyOne, Outcome
<1>49. ASSUME NEW c \in Cancellers, CancelDone(c)
       PROVE  [Contract!Next]_(Contract!vars)
  BY <1>49, <1>close DEF CancelDone, HandlerGoto, Phase, Waiting
<1>50. CASE SweepJobs
  BY <1>50, <1>close DEF SweepJobs, Claimable, Phase, Waiting, Active
<1>51. CASE SweepSubscribers
  <2>1. CASE status = "cancelled"
    <3>1. sub' = [r \in Recipients |-> IF r \in Waiting THEN "cancelled" ELSE sub[r]]
      BY <1>51, <2>1 DEF SweepSubscribers, Waiting
    <3>2. Phase' = "closed" /\ sent' = sent
      BY <1>51, <2>1 DEF SweepSubscribers, Phase, Active
    <3>3. QED
      BY <1>settle, <3>1, <3>2 DEF Outcome
  <2>2. CASE status # "cancelled"
    BY <1>51, <1>close, <2>2 DEF SweepSubscribers, Phase, Waiting
  <2>3. QED
    BY <2>1, <2>2
<1>52. CASE Maintain
  BY <1>52, <1>close DEF Maintain, Phase, Waiting
<1>52a. CASE CleanOrphans
  BY <1>52a, <1>close DEF CleanOrphans, Phase, Waiting
<1>53. CASE ShutdownBegin
  BY <1>53, <1>close DEF ShutdownBegin, Phase, Waiting
<1>54. CASE StopTasks
  BY <1>54, <1>close DEF StopTasks, Phase, Waiting
<1>55. CASE PrepareShutdown
  BY <1>55, <1>close DEF PrepareShutdown, Phase, Waiting
<1>56. CASE Crash
  BY <1>56, <1>close DEF Crash, EndTask, ResetLocals, Phase, Waiting
<1>57. CASE Restart
  <2>1. (status' \in Active => status \in Active /\ Waiting # {}) /\ Waiting' = Waiting
    BY <1>57, RestartPhase DEF ContractInv
  <2>2. QED
    BY <1>57, <1>close, <2>1 DEF Restart, Phase
<1>58. CASE UNCHANGED vars
  BY <1>58, <1>stutter DEF vars, Phase, Waiting
<1>59. CASE Task
  BY <1>59, <1>3, <1>4, <1>5, <1>6, <1>7, <1>8, <1>9, <1>10, <1>11, <1>12,
     <1>13, <1>14, <1>15, <1>16, <1>17, <1>18, <1>19, <1>20, <1>21, <1>22,
     <1>23, <1>24, <1>25, <1>26, <1>27, <1>28, <1>29, <1>30, <1>31, <1>32,
     <1>33, <1>34, <1>35, <1>36, <1>37 DEF Task
<1>60. ASSUME NEW c \in Cancellers, CancelJob(c)
       PROVE  [Contract!Next]_(Contract!vars)
  BY <1>60, <1>42, <1>43, <1>44, <1>45, <1>46, <1>47, <1>48, <1>49 DEF CancelJob
<1>61. CASE Environment
  BY <1>61, <1>38, <1>39, <1>41, <1>50, <1>53, <1>56
     DEF Environment
<1>62. CASE Program
  BY <1>62, <1>59, <1>60, <1>1, <1>2, <1>40, <1>51, <1>52, <1>52a, <1>54, <1>55, <1>57
     DEF Program
<1>63. QED
  BY <1>58, <1>61, <1>62 DEF Next

\* The lifecycle implements the contract.
THEOREM ContractKept == Spec => KeepsContract
<1>1. Init => Contract!Init /\ ContractInv
  <2> SUFFICES ASSUME Init PROVE Contract!Init /\ ContractInv
    OBVIOUS
  <2>1. PICK creator \in Recipients :
           sub = [r \in Recipients |-> IF r = creator THEN "waiting" ELSE "absent"]
    BY DEF Init
  <2>2. Phase = "open" /\ Served = {}
    BY DEF Init, Phase, Active, Served
  <2>3. QED
    BY <2>1, <2>2 DEF Init, Contract!Init, ContractInv, Known
<1>2. IInv /\ IInv' /\ ContractInv /\ [Next]_vars => ContractInv'
  BY ContractInvStep
<1>3. IInv /\ IInv' /\ ContractInv /\ ContractInv' /\ [Next]_vars
        => [Contract!Next]_(Contract!vars)
  BY ContractStep
<1>4. QED
  BY <1>1, <1>2, <1>3, InvariantHolds, PTL DEF Spec, KeepsContract, Contract!Spec

=============================================================================
