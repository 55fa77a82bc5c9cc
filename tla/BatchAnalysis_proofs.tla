------------------------- MODULE BatchAnalysis_proofs -------------------------
(***************************************************************************)
(* Batches, for any links, retries and numbers of faults: a batch ends as  *)
(* a whole, a stop is final, and in a batch that nothing disturbs no link  *)
(* waits for an analysis that is not under way.                            *)
(***************************************************************************)
EXTENDS BatchAnalysis, TLAPS

-----------------------------------------------------------------------------
(***************************************************************************)
(* The invariant.                                                          *)
(***************************************************************************)
ManagerInv ==
    /\ starter \in {"idle", "reply"} => task = "none" /\ ~tasks /\ \A i \in Items : child[i] = "new"
    /\ starter = "idle" => row = None /\ \A r \in Retries : ~Retrying(r)
    /\ tasks => task # "none"
    /\ Running /\ down = "up" => tasks
    /\ marker => tasks /\ (down # "closed" => stop = "await")

\* Children are cancelled all at once, and end with their task.
ChildInv ==
    /\ (\E k \in Items : child[k] = "stopping") => AtWork = {}
    /\ task = "none" => AtWork = {}
    /\ task = "over" /\ "save" \notin harm => AtWork = {}

RetryInv ==
    \A r \in Retries : Retrying(r) => retry[r].item \in Items /\ retry[r].copy \in Session

StopInv ==
    down = "up" /\ harm \cap {"overlap", "save"} = {} /\ stop # "idle" =>
        /\ starter = "over" /\ \A r \in Retries : ~Retrying(r)
        /\ stop \in {"await", "delete", "over"} => AtWork = {}
        /\ stop = "over" => row = None

DownInv ==
    /\ down = "batches" /\ "late" \notin harm /\ ~joined => ~Running
    /\ down \in {"handlers", "closed"} /\ "late" \notin harm => ~Running
    /\ down = "closed" => starter = "over" /\ \A r \in Retries : ~Retrying(r)

\* A batch that nothing has disturbed: what its memory holds of a link that is
\* done is final, and so is the row, but for a link that is being retried.
Undisturbed ==
    /\ task # "none"
    /\ \A i \in Items : child[i] \notin {"new", "stopping"}
    /\ \A i \in Items : child[i] \in {"say3", "last", "end"} => memory[i] \in Outcomes
    /\ \A i \in Items : child[i] = "end" =>
          row[i] \in Outcomes \/ \E r \in Retries : Retrying(r) /\ retry[r].item = i
    /\ \A r \in Retries : Retrying(r) =>
          /\ AtWork = {} /\ task = "over"
          /\ \A i \in Items : i = retry[r].item \/ retry[r].copy[i] \in Outcomes
          /\ retry[r].pc = "save" => retry[r].copy[retry[r].item] \in Outcomes
          /\ \A q \in Retries : Retrying(q) => q = r

ContInv ==
    harm = {} /\ down = "up" =>
        /\ starter = "reply" => row = AllWaiting /\ stop = "idle" /\ \A r \in Retries : ~Retrying(r)
        /\ starter = "over" /\ stop = "idle" => Undisturbed

IInv == TypeOK /\ ManagerInv /\ ChildInv /\ RetryInv /\ StopInv /\ DownInv /\ ContInv

-----------------------------------------------------------------------------
(***************************************************************************)
(* The types of what a step writes.                                        *)
(***************************************************************************)
RetryStates == [pc : RetryPcs, item : Items \cup {None}, copy : Session \cup {None}]

LEMMA RestingRetries ==
    Resting \in RetryStates /\ [r \in Retries |-> Resting] \in [Retries -> RetryStates]
BY DEF Resting, RetryStates, RetryPcs

\* One retry changes: the others keep what they have.
LEMMA OneRetry ==
    ASSUME TypeOK, NEW r \in Retries, NEW s \in RetryStates, retry' = [retry EXCEPT ![r] = s]
    PROVE  /\ retry' \in [Retries -> RetryStates] /\ retry'[r] = s
           /\ \A q \in Retries : q # r => retry'[q] = retry[q]
BY DEF TypeOK, RetryStates

-----------------------------------------------------------------------------
(***************************************************************************)
(* One lemma for each action.                                              *)
(***************************************************************************)

\* A message with several links arrives.
LEMMA SaveKeepsInvariant ==
    ASSUME IInv, SaveSession
    PROVE  IInv'
<1> USE DEF IInv, SaveSession, manager, ending
<1>1. TypeOK'
  BY DEF TypeOK, ChildPcs, Harms, AllWaiting, Session, Statuses
<1>2. ManagerInv'
  BY DEF ManagerInv, Running, Retrying, TypeOK
<1>3. ChildInv'
  BY DEF ChildInv, AtWork, TypeOK
<1>4. RetryInv'
  BY DEF RetryInv, Retrying
<1>5. StopInv'
  BY DEF StopInv, AtWork, Retrying, TypeOK
<1>6. DownInv'
  BY DEF DownInv, Running, Retrying
<1>7. ContInv'
  BY DEF ContInv, Undisturbed, AtWork, Retrying, TypeOK, ManagerInv, StopInv
<1>8. QED
  BY <1>1, <1>2, <1>3, <1>4, <1>5, <1>6, <1>7

\* The status card is sent, and the batch starts.
LEMMA StartKeepsInvariant ==
    ASSUME IInv, Start
    PROVE  IInv'
<1> USE DEF IInv, Start, sessions, ending
<1>1. TypeOK'
  BY DEF TypeOK, ChildPcs, Harms
<1>2. ManagerInv'
  BY DEF ManagerInv, Running, Retrying, TypeOK
<1>3. ChildInv'
  BY DEF ChildInv, AtWork, TypeOK
<1>4. RetryInv'
  BY DEF RetryInv, Retrying
<1>5. StopInv'
  BY DEF StopInv, AtWork, Retrying, TypeOK, ManagerInv
<1>6. DownInv'
  BY DEF DownInv, Running, Retrying
<1>7. ContInv'
  BY DEF ContInv, Undisturbed, AtWork, Retrying, TypeOK, ManagerInv, RetryInv, AllWaiting
<1>8. QED
  BY <1>1, <1>2, <1>3, <1>4, <1>5, <1>6, <1>7

\* The card cannot be sent.
LEMMA ReplyFailsKeepsInvariant ==
    ASSUME IInv, ReplyFails
    PROVE  IInv'
<1> USE DEF IInv, ReplyFails, sessions, manager, ending
<1>1. TypeOK'
  BY DEF TypeOK, ChildPcs, Harms
<1>2. ManagerInv'
  BY DEF ManagerInv, Running, Retrying, TypeOK
<1>3. ChildInv'
  BY DEF ChildInv, AtWork, TypeOK, ManagerInv
<1>4. RetryInv'
  BY DEF RetryInv, Retrying
<1>5. StopInv'
  BY DEF StopInv, AtWork, Retrying, TypeOK, ManagerInv
<1>6. DownInv'
  BY DEF DownInv, Running, Retrying
<1>7. ContInv'
  BY DEF ContInv, Undisturbed, AtWork, Retrying, TypeOK
<1>8. QED
  BY <1>1, <1>2, <1>3, <1>4, <1>5, <1>6, <1>7

\* A child stores the session.
LEMMA PublishKeepsInvariant ==
    ASSUME IInv, NEW i \in Items, Publish(i)
    PROVE  IInv'
<1> USE DEF IInv, Publish, Publishing, MayPublish, Goto, NextPc, manager, handlers, ending
<1>1. TypeOK'
  BY DEF TypeOK, ChildPcs, Harms
<1>2. ManagerInv'
  BY DEF ManagerInv, Running, Retrying, TypeOK
<1>3. ChildInv'
  BY DEF ChildInv, AtWork, TypeOK
<1>4. RetryInv'
  BY DEF RetryInv, Retrying
<1>5. StopInv'
  BY DEF StopInv, AtWork, Retrying, TypeOK, ManagerInv
<1>6. DownInv'
  BY DEF DownInv, Running, Retrying
<1>7. ContInv'
  BY DEF ContInv, Undisturbed, AtWork, Retrying, TypeOK, ManagerInv, Session, Outcomes
<1>8. QED
  BY <1>1, <1>2, <1>3, <1>4, <1>5, <1>6, <1>7

\* The session cannot be stored.
LEMMA PublishFailsKeepsInvariant ==
    ASSUME IInv, NEW i \in Items, PublishFails(i)
    PROVE  IInv'
<1> USE DEF IInv, PublishFails, Publishing, Goto, Note, handlers, ending
<1>1. TypeOK'
  <2>1. failures' \in 0..MaxFailures
    BY BoundsAssumption DEF TypeOK
  <2>2. memory' \in Session
    BY DEF TypeOK, Session, Statuses
  <2>3. QED
    BY <2>1, <2>2 DEF TypeOK, ChildPcs, Harms
<1>2. ManagerInv'
  BY DEF ManagerInv, Running, Retrying, TypeOK
<1>3. ChildInv'
  BY DEF ChildInv, AtWork, TypeOK, ManagerInv
<1>4. RetryInv'
  BY DEF RetryInv, Retrying
<1>5. StopInv'
  BY DEF StopInv, AtWork, Retrying, TypeOK, ManagerInv
<1>6. DownInv'
  BY DEF DownInv, Running, Retrying
<1>7. ContInv'
  BY DEF ContInv, Undisturbed, AtWork, Retrying, TypeOK
<1>8. QED
  BY <1>1, <1>2, <1>3, <1>4, <1>5, <1>6, <1>7

\* A child has its lease, or no access.
LEMMA LeaseKeepsInvariant ==
    ASSUME IInv, NEW i \in Items, Lease(i)
    PROVE  IInv'
<1> USE DEF IInv, Lease, Goto, Note, manager, handlers, ending
<1>1. TypeOK'
  BY DEF TypeOK, ChildPcs, Harms, Session, Statuses
<1>2. ManagerInv'
  BY DEF ManagerInv, Running, Retrying, TypeOK
<1>3. ChildInv'
  BY DEF ChildInv, AtWork, TypeOK
<1>4. RetryInv'
  BY DEF RetryInv, Retrying
<1>5. StopInv'
  BY DEF StopInv, AtWork, Retrying, TypeOK
<1>6. DownInv'
  BY DEF DownInv, Running, Retrying
<1>7. ContInv'
  <2> SUFFICES ASSUME harm = {}, down = "up", starter = "over", stop = "idle"
               PROVE  Undisturbed'
    BY DEF ContInv, Retrying
  <2>1. Undisturbed /\ \A r \in Retries : ~Retrying(r)
    BY DEF ContInv, Undisturbed, AtWork
  <2>2. \A k \in Items : k # i => child'[k] = child[k] /\ memory'[k] = memory[k]
    BY DEF TypeOK, Session
  <2>3. \/ child'[i] = "say2"
        \/ child'[i] = "say3" /\ memory'[i] = "failed"
    BY DEF TypeOK, Session
  <2>4. QED
    BY <2>1, <2>2, <2>3 DEF Undisturbed, Retrying, Outcomes
<1>8. QED
  BY <1>1, <1>2, <1>3, <1>4, <1>5, <1>6, <1>7

\* An extraction ends.
LEMMA ExtractKeepsInvariant ==
    ASSUME IInv, NEW i \in Items, Extract(i)
    PROVE  IInv'
<1> USE DEF IInv, Extract, Goto, Note, manager, handlers, ending
<1>1. TypeOK'
  BY DEF TypeOK, ChildPcs, Harms, Session, Statuses, Outcomes
<1>2. ManagerInv'
  BY DEF ManagerInv, Running, Retrying, TypeOK
<1>3. ChildInv'
  BY DEF ChildInv, AtWork, TypeOK
<1>4. RetryInv'
  BY DEF RetryInv, Retrying
<1>5. StopInv'
  BY DEF StopInv, AtWork, Retrying, TypeOK
<1>6. DownInv'
  BY DEF DownInv, Running, Retrying
<1>7. ContInv'
  <2> SUFFICES ASSUME harm = {}, down = "up", starter = "over", stop = "idle"
               PROVE  Undisturbed'
    BY DEF ContInv, Retrying
  <2>1. Undisturbed /\ ~marker /\ \A r \in Retries : ~Retrying(r)
    BY DEF ContInv, Undisturbed, AtWork, ManagerInv
  <2>2. \A k \in Items : k # i => child'[k] = child[k] /\ memory'[k] = memory[k]
    BY <2>1 DEF TypeOK, Session
  <2>3. child'[i] \in {"say3", "last"} /\ memory'[i] \in Outcomes
    BY <2>1 DEF TypeOK, Session
  <2>4. QED
    BY <2>1, <2>2, <2>3 DEF Undisturbed, Retrying
<1>8. QED
  BY <1>1, <1>2, <1>3, <1>4, <1>5, <1>6, <1>7

\* A cancelled child ends.
LEMMA ChildStopsKeepsInvariant ==
    ASSUME IInv, NEW i \in Items, ChildStops(i)
    PROVE  IInv'
<1> USE DEF IInv, ChildStops, Goto, sessions, manager, handlers, ending
<1>1. TypeOK'
  BY DEF TypeOK, ChildPcs, Harms
<1>2. ManagerInv'
  BY DEF ManagerInv, Running, Retrying, TypeOK
<1>3. ChildInv'
  BY DEF ChildInv, AtWork, TypeOK
<1>4. RetryInv'
  BY DEF RetryInv, Retrying
<1>5. StopInv'
  BY DEF StopInv, AtWork, Retrying, TypeOK
<1>6. DownInv'
  BY DEF DownInv, Running, Retrying
<1>7. ContInv'
  BY DEF ContInv, Undisturbed, AtWork, Retrying, TypeOK
<1>8. QED
  BY <1>1, <1>2, <1>3, <1>4, <1>5, <1>6, <1>7

\* The gathering task ends.
LEMMA TaskEndsKeepsInvariant ==
    ASSUME IInv, TaskEnds
    PROVE  IInv'
<1> USE DEF IInv, TaskEnds, Gathered, Running, sessions, handlers, ending
<1>1. TypeOK'
  BY DEF TypeOK, ChildPcs, Harms
<1>2. ManagerInv'
  BY DEF ManagerInv, Running, Retrying, TypeOK
<1>3. ChildInv'
  BY DEF ChildInv, AtWork, TypeOK
<1>4. RetryInv'
  BY DEF RetryInv, Retrying
<1>5. StopInv'
  BY DEF StopInv, AtWork, Retrying, TypeOK
<1>6. DownInv'
  BY DEF DownInv, Running, Retrying
<1>7. ContInv'
  BY DEF ContInv, Undisturbed, AtWork, Retrying, TypeOK
<1>8. QED
  BY <1>1, <1>2, <1>3, <1>4, <1>5, <1>6, <1>7

\* The task is forgotten.
LEMMA OnDoneKeepsInvariant ==
    ASSUME IInv, OnDone
    PROVE  IInv'
<1> USE DEF IInv, OnDone, Forget, Running, sessions, handlers, ending
<1>1. TypeOK'
  BY DEF TypeOK, ChildPcs, Harms
<1>2. ManagerInv'
  BY DEF ManagerInv, Running, Retrying, TypeOK
<1>3. ChildInv'
  BY DEF ChildInv, AtWork, TypeOK
<1>4. RetryInv'
  BY DEF RetryInv, Retrying
<1>5. StopInv'
  BY DEF StopInv, AtWork, Retrying, TypeOK
<1>6. DownInv'
  BY DEF DownInv, Running, Retrying
<1>7. ContInv'
  BY DEF ContInv, Undisturbed, AtWork, Retrying, TypeOK
<1>8. QED
  BY <1>1, <1>2, <1>3, <1>4, <1>5, <1>6, <1>7

\* Somebody wants to stop the batch.
LEMMA ConfirmKeepsInvariant ==
    ASSUME IInv, ConfirmStop
    PROVE  IInv'
<1> USE DEF IInv, ConfirmStop, Overlap, sessions, manager, ending
<1>1. TypeOK'
  BY DEF TypeOK, ChildPcs, Harms
<1>2. ManagerInv'
  BY DEF ManagerInv, Running, Retrying, TypeOK
<1>3. ChildInv'
  BY DEF ChildInv, AtWork, TypeOK
<1>4. RetryInv'
  BY DEF RetryInv, Retrying
<1>5. StopInv'
  BY DEF StopInv, AtWork, Retrying, TypeOK, ManagerInv
<1>6. DownInv'
  BY DEF DownInv, Running, Retrying
<1>7. ContInv'
  BY DEF ContInv, Undisturbed, AtWork, Retrying, TypeOK, StopInv
<1>8. QED
  BY <1>1, <1>2, <1>3, <1>4, <1>5, <1>6, <1>7

\* The manager cancels the task.
LEMMA CancelKeepsInvariant ==
    ASSUME IInv, Cancel
    PROVE  IInv'
<1> USE DEF IInv, Cancel, Tracked, MarkerOfNoTask, CancelTask, Stopped, sessions, ending
<1>1. TypeOK'
  BY DEF TypeOK, ChildPcs, Harms
<1>2. ManagerInv'
  BY DEF ManagerInv, Running, Retrying, TypeOK
<1>3. ChildInv'
  BY DEF ChildInv, AtWork, TypeOK, Running
<1>4. RetryInv'
  BY DEF RetryInv, Retrying
<1>5. StopInv'
  BY DEF StopInv, AtWork, Retrying, TypeOK, ManagerInv, ChildInv, Running
<1>6. DownInv'
  BY DEF DownInv, Running, Retrying
<1>7. ContInv'
  BY DEF ContInv, Undisturbed, AtWork, Retrying, TypeOK, Running
<1>8. QED
  BY <1>1, <1>2, <1>3, <1>4, <1>5, <1>6, <1>7

\* The cancelled task is over, and forgotten.
LEMMA CancelledKeepsInvariant ==
    ASSUME IInv, Cancelled
    PROVE  IInv'
<1> USE DEF IInv, Cancelled, Forget, Running, sessions, ending
<1>1. TypeOK'
  BY DEF TypeOK, ChildPcs, Harms
<1>2. ManagerInv'
  BY DEF ManagerInv, Running, Retrying, TypeOK
<1>3. ChildInv'
  BY DEF ChildInv, AtWork, TypeOK
<1>4. RetryInv'
  BY DEF RetryInv, Retrying
<1>5. StopInv'
  BY DEF StopInv, AtWork, Retrying, TypeOK
<1>6. DownInv'
  BY DEF DownInv, Running, Retrying
<1>7. ContInv'
  BY DEF ContInv, Undisturbed, AtWork, Retrying, TypeOK
<1>8. QED
  BY <1>1, <1>2, <1>3, <1>4, <1>5, <1>6, <1>7

\* The session of the stopped batch is deleted.
LEMMA DeleteKeepsInvariant ==
    ASSUME IInv, DeleteSession
    PROVE  IInv'
<1> USE DEF IInv, DeleteSession, manager, ending
<1>1. TypeOK'
  BY DEF TypeOK, ChildPcs, Harms
<1>2. ManagerInv'
  BY DEF ManagerInv, Running, Retrying, TypeOK
<1>3. ChildInv'
  BY DEF ChildInv, AtWork, TypeOK
<1>4. RetryInv'
  BY DEF RetryInv, Retrying
<1>5. StopInv'
  BY DEF StopInv, AtWork, Retrying, TypeOK
<1>6. DownInv'
  BY DEF DownInv, Running, Retrying
<1>7. ContInv'
  BY DEF ContInv, Undisturbed, AtWork, Retrying, TypeOK, StopInv
<1>8. QED
  BY <1>1, <1>2, <1>3, <1>4, <1>5, <1>6, <1>7

\* A link is to be analysed again.
LEMMA RetryKeepsInvariant ==
    ASSUME IInv, NEW r \in Retries, NEW i \in Items, Retry(r, i)
    PROVE  IInv'
<1> USE DEF IInv, Retry, Overlap, sessions, manager, ending
<1> DEFINE s == [pc |-> "open", item |-> i, copy |-> [row EXCEPT ![i] = "analyzing"]]
<1>1. row \in Session /\ s.copy \in Session /\ s \in RetryStates
  BY DEF TypeOK, Session, Statuses, RetryStates, RetryPcs
<1>2. /\ retry' \in [Retries -> RetryStates] /\ retry'[r] = s
      /\ \A q \in Retries : q # r => retry'[q] = retry[q]
  BY <1>1, OneRetry
<1>3. TypeOK'
  BY <1>1, <1>2 DEF TypeOK, RetryStates, Harms
<1>4. ManagerInv'
  BY <1>1, <1>2 DEF ManagerInv, Running, Retrying, TypeOK
<1>5. ChildInv'
  BY <1>1, <1>2 DEF ChildInv, AtWork, TypeOK
<1>6. RetryInv'
  BY <1>1, <1>2 DEF RetryInv, Retrying
<1>7. StopInv'
  BY <1>1, <1>2 DEF StopInv, Busy, Stopping, AtWork, Retrying, TypeOK
<1>8. DownInv'
  BY <1>1, <1>2 DEF DownInv, Running, Retrying
<1>9. ContInv'
  <2> SUFFICES ASSUME harm' = {}, down = "up"
               PROVE  ContInv'
    BY DEF ContInv
  <2>1. ~Running /\ stop \in {"idle", "over"} /\ harm = {} /\ \A q \in Retries \ {r} : ~Retrying(q)
    BY DEF Busy, Stopping
  <2>2. starter = "over" /\ stop = "idle"
    BY <1>1, <2>1 DEF ManagerInv, ContInv, StopInv, AllWaiting, TypeOK
  <2>3. Undisturbed /\ task = "over" /\ AtWork = {} /\ \A k \in Items : child[k] = "end"
    BY <2>1, <2>2 DEF ContInv, ChildInv, Undisturbed, AtWork, Running, TypeOK
  <2>4. \A k \in Items : row[k] \in Outcomes
    BY <2>1, <2>3 DEF Undisturbed
  <2>5. \A k \in Items : k # i => s.copy[k] = row[k]
    BY <1>1 DEF Session
  <2>6. QED
    BY <1>2, <2>1, <2>2, <2>3, <2>4, <2>5 DEF ContInv, Undisturbed, AtWork, Retrying
<1>10. QED
  BY <1>3, <1>4, <1>5, <1>6, <1>7, <1>8, <1>9

\* A retry shows that it has begun.
LEMMA RetryShowsKeepsInvariant ==
    ASSUME IInv, NEW r \in Retries, RetryShows(r)
    PROVE  IInv'
<1> USE DEF IInv, RetryShows, SaveCopy, manager, ending
<1>1. TypeOK'
  BY DEF TypeOK, ChildPcs, Harms, RetryInv, Retrying, RetryPcs, Session
<1>2. ManagerInv'
  BY DEF ManagerInv, Running, Retrying, TypeOK
<1>3. ChildInv'
  BY DEF ChildInv, AtWork, TypeOK
<1>4. RetryInv'
  BY DEF RetryInv, Retrying
<1>5. StopInv'
  BY DEF StopInv, AtWork, Retrying, TypeOK
<1>6. DownInv'
  BY DEF DownInv, Running, Retrying
<1>7. ContInv'
  BY DEF ContInv, Undisturbed, AtWork, Retrying, TypeOK, RetryInv
<1>8. QED
  BY <1>1, <1>2, <1>3, <1>4, <1>5, <1>6, <1>7

\* A retry has its result.
LEMMA RetryExtractsKeepsInvariant ==
    ASSUME IInv, NEW r \in Retries, RetryExtracts(r)
    PROVE  IInv'
<1> USE DEF IInv, RetryExtracts, sessions, manager, ending
<1>1. TypeOK'
  <2>1. /\ retry[r].item \in Items /\ retry[r].copy \in Session
        /\ retry[r] \in RetryStates
    BY DEF TypeOK, RetryStates, RetryInv, Retrying
  <2>2. PICK status \in Outcomes :
           retry' = [retry EXCEPT ![r].pc = "save", ![r].copy[retry[r].item] = status]
    OBVIOUS
  <2> DEFINE c == [retry[r].copy EXCEPT ![retry[r].item] = status]
             s == [retry[r] EXCEPT !.pc = "save", !.copy = c]
  <2>3. c \in Session /\ s \in RetryStates
    BY <2>1 DEF Session, Outcomes, Statuses, RetryStates, RetryPcs
  <2>4. retry' = [retry EXCEPT ![r] = s]
    BY <2>1, <2>2 DEF TypeOK, RetryStates
  <2> HIDE DEF s
  <2>5. QED
    BY <2>3, <2>4, OneRetry DEF TypeOK, RetryStates
<1>2. ManagerInv'
  BY DEF ManagerInv, Running, Retrying, TypeOK
<1>3. ChildInv'
  BY DEF ChildInv, AtWork, TypeOK
<1>4. RetryInv'
  BY DEF RetryInv, Retrying, TypeOK, Session, Outcomes, Statuses
<1>5. StopInv'
  BY DEF StopInv, AtWork, Retrying, TypeOK
<1>6. DownInv'
  BY DEF DownInv, Running, Retrying
<1>7. ContInv'
  BY DEF ContInv, Undisturbed, AtWork, Retrying, TypeOK, RetryInv, Session
<1>8. QED
  BY <1>1, <1>2, <1>3, <1>4, <1>5, <1>6, <1>7

\* A retry stores its result.
LEMMA RetryEndsKeepsInvariant ==
    ASSUME IInv, NEW r \in Retries, RetryEnds(r)
    PROVE  IInv'
<1> USE DEF IInv, RetryEnds, SaveCopy, Resting, manager, ending
<1>1. TypeOK'
  BY DEF TypeOK, ChildPcs, Harms, RetryInv, Retrying, RetryPcs, Session
<1>2. ManagerInv'
  BY DEF ManagerInv, Running, Retrying, TypeOK
<1>3. ChildInv'
  BY DEF ChildInv, AtWork, TypeOK
<1>4. RetryInv'
  BY DEF RetryInv, Retrying
<1>5. StopInv'
  BY DEF StopInv, AtWork, Retrying, TypeOK
<1>6. DownInv'
  BY DEF DownInv, Running, Retrying
<1>7. ContInv'
  BY DEF ContInv, Undisturbed, AtWork, Retrying, TypeOK, RetryInv, Session
<1>8. QED
  BY <1>1, <1>2, <1>3, <1>4, <1>5, <1>6, <1>7

\* A retry cannot save.
LEMMA RetryFailsKeepsInvariant ==
    ASSUME IInv, NEW r \in Retries, RetryFails(r)
    PROVE  IInv'
<1> USE DEF IInv, RetryFails, sessions, manager, ending
<1>1. TypeOK'
  <2>1. failures' \in 0..MaxFailures
    BY BoundsAssumption DEF TypeOK
  <2>2. retry' \in [Retries -> RetryStates]
    BY RestingRetries, OneRetry
  <2>3. QED
    BY <2>1, <2>2 DEF TypeOK, RetryStates, Harms
<1>2. ManagerInv'
  BY DEF ManagerInv, Running, Retrying, TypeOK, Resting
<1>3. ChildInv'
  BY DEF ChildInv, AtWork, TypeOK
<1>4. RetryInv'
  BY DEF RetryInv, Retrying, Resting
<1>5. StopInv'
  BY DEF StopInv, AtWork, Retrying, TypeOK, Resting
<1>6. DownInv'
  BY DEF DownInv, Running, Retrying, Resting
<1>7. ContInv'
  BY DEF ContInv, Undisturbed, AtWork, Retrying, TypeOK
<1>8. QED
  BY <1>1, <1>2, <1>3, <1>4, <1>5, <1>6, <1>7

\* The program is told to end.
LEMMA ShutdownKeepsInvariant ==
    ASSUME IInv, Shutdown
    PROVE  IInv'
<1> USE DEF IInv, Shutdown, CancelTask, Stopped, Running, sessions, manager, handlers
<1>1. TypeOK'
  BY DEF TypeOK, ChildPcs, Harms
<1>2. ManagerInv'
  BY DEF ManagerInv, Running, Retrying, TypeOK
<1>3. ChildInv'
  BY DEF ChildInv, AtWork, TypeOK
<1>4. RetryInv'
  BY DEF RetryInv, Retrying
<1>5. StopInv'
  BY DEF StopInv, AtWork, Retrying, TypeOK
<1>6. DownInv'
  BY DEF DownInv, Running, Retrying, ManagerInv
<1>7. ContInv'
  BY DEF ContInv, Undisturbed, AtWork, Retrying, TypeOK
<1>8. QED
  BY <1>1, <1>2, <1>3, <1>4, <1>5, <1>6, <1>7

\* The batches are over.
LEMMA BatchesAreDownKeepsInvariant ==
    ASSUME IInv, BatchesAreDown
    PROVE  IInv'
<1> USE DEF IInv, BatchesAreDown, Awaited, Forget, Running, sessions, handlers
<1>1. TypeOK'
  BY DEF TypeOK, ChildPcs, Harms
<1>2. ManagerInv'
  BY DEF ManagerInv, Running, Retrying, TypeOK
<1>3. ChildInv'
  BY DEF ChildInv, AtWork, TypeOK
<1>4. RetryInv'
  BY DEF RetryInv, Retrying
<1>5. StopInv'
  BY DEF StopInv, AtWork, Retrying, TypeOK
<1>6. DownInv'
  BY DEF DownInv, Running, Retrying
<1>7. ContInv'
  BY DEF ContInv, Undisturbed, AtWork, Retrying, TypeOK
<1>8. QED
  BY <1>1, <1>2, <1>3, <1>4, <1>5, <1>6, <1>7

\* The handlers are over.
LEMMA HandlersAreDownKeepsInvariant ==
    ASSUME IInv, HandlersAreDown
    PROVE  IInv'
<1> USE DEF IInv, HandlersAreDown, HandlersEnd, sessions, manager
<1>1. TypeOK'
  BY RestingRetries DEF TypeOK, RetryStates
<1>2. ManagerInv'
  BY DEF ManagerInv, Running, Retrying, TypeOK, Resting
<1>3. ChildInv'
  BY DEF ChildInv, AtWork, TypeOK
<1>4. RetryInv'
  BY DEF RetryInv, Retrying, Resting
<1>5. StopInv'
  BY DEF StopInv, AtWork, Retrying, TypeOK, Resting
<1>6. DownInv'
  BY DEF DownInv, Running, Retrying, Resting
<1>7. ContInv'
  BY DEF ContInv, Undisturbed, AtWork, Retrying, TypeOK
<1>8. QED
  BY <1>1, <1>2, <1>3, <1>4, <1>5, <1>6, <1>7

\* The program starts again.
LEMMA RestartKeepsInvariant ==
    ASSUME IInv, Restart
    PROVE  IInv'
<1> USE DEF IInv, Restart, sessions
<1>1. TypeOK'
  <2>1. restarts' \in 0..MaxRestarts
    BY BoundsAssumption DEF TypeOK
  <2>2. QED
    BY <2>1, RestingRetries DEF TypeOK, RetryStates, ChildPcs, Harms
<1>2. ManagerInv'
  BY DEF ManagerInv, Running, Retrying, TypeOK, Resting
<1>3. ChildInv'
  BY DEF ChildInv, AtWork, TypeOK
<1>4. RetryInv'
  BY DEF RetryInv, Retrying, Resting
<1>5. StopInv'
  BY DEF StopInv, AtWork, Retrying, TypeOK, Resting
<1>6. DownInv'
  BY DEF DownInv, Running, Retrying, Resting
<1>7. ContInv'
  BY DEF ContInv, Undisturbed, AtWork, Retrying, TypeOK
<1>8. QED
  BY <1>1, <1>2, <1>3, <1>4, <1>5, <1>6, <1>7

-----------------------------------------------------------------------------
(***************************************************************************)
(* The theorems.                                                           *)
(***************************************************************************)
LEMMA InitHasInvariant == Init => IInv
<1> SUFFICES ASSUME Init PROVE IInv
  OBVIOUS
<1> USE DEF Init
<1>1. TypeOK
  <2>1. failures \in 0..MaxFailures /\ restarts \in 0..MaxRestarts
    BY BoundsAssumption
  <2>2. retry \in [Retries -> RetryStates] /\ memory \in Session /\ child \in [Items -> ChildPcs]
    BY RestingRetries DEF Session, Statuses, ChildPcs
  <2>3. QED
    BY <2>1, <2>2 DEF TypeOK, RetryStates
<1>2. ManagerInv /\ ChildInv /\ RetryInv
  BY DEF ManagerInv, ChildInv, RetryInv, AtWork, Running, Retrying, Resting
<1>3. StopInv /\ DownInv /\ ContInv
  BY DEF StopInv, DownInv, ContInv
<1>4. QED
  BY <1>1, <1>2, <1>3 DEF IInv

LEMMA NextKeepsInvariant == IInv /\ [Next]_vars => IInv'
<1> SUFFICES ASSUME IInv, [Next]_vars PROVE IInv'
  OBVIOUS
<1>1. CASE SaveSession \/ Start \/ ReplyFails
  BY <1>1, SaveKeepsInvariant, StartKeepsInvariant, ReplyFailsKeepsInvariant
<1>2. ASSUME NEW i \in Items, ChildStep(i) \/ PublishFails(i)
      PROVE  IInv'
  BY <1>2, PublishKeepsInvariant, LeaseKeepsInvariant, ExtractKeepsInvariant,
     ChildStopsKeepsInvariant, PublishFailsKeepsInvariant DEF ChildStep
<1>3. CASE ManagerStep
  BY <1>3, TaskEndsKeepsInvariant, OnDoneKeepsInvariant DEF ManagerStep
<1>4. CASE ConfirmStop \/ StopStep
  BY <1>4, ConfirmKeepsInvariant, CancelKeepsInvariant, CancelledKeepsInvariant,
     DeleteKeepsInvariant DEF StopStep
<1>5. ASSUME NEW r \in Retries, RetryStep(r) \/ RetryFails(r) \/ \E i \in Items : Retry(r, i)
      PROVE  IInv'
  BY <1>5, RetryShowsKeepsInvariant, RetryExtractsKeepsInvariant, RetryEndsKeepsInvariant,
     RetryFailsKeepsInvariant, RetryKeepsInvariant DEF RetryStep
<1>6. CASE Shutdown \/ EndStep \/ Restart
  BY <1>6, ShutdownKeepsInvariant, BatchesAreDownKeepsInvariant, HandlersAreDownKeepsInvariant,
     RestartKeepsInvariant DEF EndStep
<1>7. CASE UNCHANGED vars
  <2> USE <1>7 DEF vars, sessions, manager, handlers, ending
  <2>1. TypeOK' /\ ManagerInv' /\ ChildInv' /\ RetryInv'
    BY DEF IInv, TypeOK, ManagerInv, ChildInv, RetryInv, AtWork, Running, Retrying
  <2>2. StopInv' /\ DownInv' /\ ContInv'
    BY DEF IInv, StopInv, DownInv, ContInv, Undisturbed, AtWork, Running, Retrying
  <2>3. QED
    BY <2>1, <2>2 DEF IInv
<1>8. QED
  BY <1>1, <1>2, <1>3, <1>4, <1>5, <1>6, <1>7 DEF Next

THEOREM InvariantHolds == Spec => []IInv
BY InitHasInvariant, NextKeepsInvariant, PTL DEF Spec

\* A batch ends as a whole: when its task is over none of its children is left
\* that would still publish, and nothing works on the database that shutdown
\* is about to close.
THEOREM BatchesEndAsAWhole == Spec => []EndsAsAWhole
<1>1. IInv => EndsWithItsChildren
  BY DEF IInv, ChildInv, EndsWithItsChildren
<1>2. IInv => NothingWorksAfterShutdown
  BY DEF IInv, TypeOK, ChildInv, DownInv, Running, NothingWorksAfterShutdown
<1>3. IInv => EndsAsAWhole
  BY <1>1, <1>2 DEF IInv, EndsAsAWhole
<1>4. QED
  BY <1>3, InvariantHolds, PTL

\* A stop is final: the session stays deleted although children had saves of
\* it under way, and no marker outlives the stop.
THEOREM StopsAreFinal == Spec => []StoppedForGood
<1>1. IInv => StopIsFinal
  BY DEF IInv, StopInv, StopIsFinal
<1>2. IInv => MarkerWhileStopping
  BY DEF IInv, ManagerInv, MarkerWhileStopping
<1>3. IInv => StoppedForGood
  BY <1>1, <1>2 DEF StoppedForGood
<1>4. QED
  BY <1>3, InvariantHolds, PTL

\* "Analysis continues automatically" is true of every link that the card says
\* it of, as long as nothing of what harm records disturbs the batch.
THEOREM UndisturbedBatchesContinue == Spec => []ContinuesUnlessDisturbed
<1>1. ASSUME IInv, harm = {}, down = "up", NEW i \in Items, Pending(i)
      PROVE  Worked(i)
  <2>1. starter \in {"idle", "reply", "over"} /\ starter # "idle" /\ stop # "over"
    BY <1>1 DEF IInv, TypeOK, ManagerInv, StopInv, Pending
  <2>2. CASE starter = "over" /\ stop = "idle"
    <3>1. Undisturbed /\ child[i] \in ChildPcs
      BY <1>1, <2>2 DEF IInv, TypeOK, ContInv
    <3>2. CASE child[i] = "end"
      BY <1>1, <3>1, <3>2 DEF Undisturbed, Pending, Outcomes, Worked
    <3>3. CASE child[i] # "end"
      BY <3>1, <3>3 DEF Undisturbed, ChildPcs, Worked
    <3>4. QED
      BY <3>2, <3>3
  <2>3. QED
    BY <2>1, <2>2 DEF Worked, Stopping
<1>2. IInv => ContinuesUnlessDisturbed
  BY <1>1 DEF ContinuesUnlessDisturbed, AnalysisContinues
<1>3. QED
  BY <1>2, InvariantHolds, PTL
=============================================================================
