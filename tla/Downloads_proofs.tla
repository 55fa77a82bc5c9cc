-------------------------- MODULE Downloads_proofs --------------------------
(***************************************************************************)
(* The two ways the parts of a job reach the disk: over HTTP, and by the   *)
(* processes a stage owns.  They share no state, so neither needs the      *)
(* other's facts.                                                          *)
(*                                                                         *)
(* An asset of any length, under any number of changes of the source,      *)
(* retries, shutdowns and crashes: what is finished is whole and of one    *)
(* version.  The owners of processes, for any coroutines and any number of *)
(* processes: nothing is orphaned, and whoever is told that a process is   *)
(* gone can rely on it.                                                    *)
(***************************************************************************)
EXTENDS HttpResume, ProcessSupervisor, Integers, TLAPS

USE LengthAssumption, BoundsAssumption, MergerAssumption, HandleAssumption

-----------------------------------------------------------------------------
(***************************************************************************)
(* The resumed download.                                                   *)
(***************************************************************************)
LEMMA NoneIsNoVersion == None \notin Versions /\ None \in Validators /\ Versions \subseteq Validators
    BY DEF None, Versions, Validators

LEMMA DownloadBegins == DownloadInit => DownloadInv
    <1> SUFFICES ASSUME DownloadInit PROVE DownloadInv
        OBVIOUS
    <1>1. 0 \in Versions /\ None \in Validators
        BY DEF Versions, Validators
    <1>2. NoReply \in [version : Versions, validator : Validators, append : BOOLEAN]
        BY <1>1 DEF NoReply
    <1>3. <<>> \in Seq(Versions) /\ Len(<<>>) <= Length
        OBVIOUS
    <1>4. 0 \in 0..MaxRetries /\ 0 \in 0..MaxStops
        OBVIOUS
    <1>5. DownloadTypeOK
        BY <1>1, <1>2, <1>3, <1>4 DEF DownloadInit, DownloadTypeOK, Pcs
    <1>6. PartInv /\ LengthInv
        BY DEF DownloadInit, PartInv, LengthInv, OfOneVersion
    <1> QED BY <1>5, <1>6 DEF DownloadInv

LEMMA FailureKeepsDownload == ASSUME DownloadInv, Fail, pc \in {"asked", "streaming"} PROVE DownloadInv'
    <1> USE DEF DownloadInv, Fail
    <1>1. DownloadTypeOK'
        BY NoneIsNoVersion DEF DownloadTypeOK, Pcs
    <1>2. PartInv'
        BY DEF PartInv, OfOneVersion, PartOf
    <1>3. LengthInv'
        BY DEF LengthInv
    <1> QED BY <1>1, <1>2, <1>3

\* Every action keeps the inductive invariant.
LEMMA DownloadIsKept == DownloadInv /\ [DownloadNext]_downloadVars => DownloadInv'
    <1> SUFFICES ASSUME DownloadInv, [DownloadNext]_downloadVars PROVE DownloadInv'
        OBVIOUS
    <1> USE NoneIsNoVersion DEF DownloadInv
    <1>1. CASE Ask
        <2>1. DownloadTypeOK'
            BY <1>1 DEF Ask, DownloadTypeOK, Pcs
        <2>2. PartInv' /\ LengthInv'
            BY <1>1 DEF Ask, PartInv, LengthInv, OfOneVersion, PartOf
        <2> QED BY <2>1, <2>2
    <1>2. CASE Answer
        <2>1. PICK append \in (IF 0 < Offset /\ Offset < Length THEN BOOLEAN ELSE {FALSE}),
                   validator \in {source, None} :
                /\ ~Changed(append, validator)
                /\ reply' = [version |-> source, validator |-> validator, append |-> append]
                /\ saved' = validator
            BY <1>2 DEF Answer
        <2>2. append \in BOOLEAN /\ validator \in Validators /\ (append => Offset # 0)
            <3>1. CASE 0 < Offset /\ Offset < Length
                BY <2>1, <3>1 DEF DownloadTypeOK
            <3>2. CASE ~(0 < Offset /\ Offset < Length)
                BY <2>1, <3>2 DEF DownloadTypeOK
            <3> QED BY <3>1, <3>2
        <2>3. DownloadTypeOK'
            BY <1>2, <2>1, <2>2 DEF Answer, DownloadTypeOK, Pcs
        <2>4. append => saved # None /\ validator = saved /\ validator = source
            BY <2>1, <2>2 DEF Offset, Changed
        <2>5. PartInv'
            BY <1>2, <2>1, <2>2, <2>4 DEF Answer, PartInv, OfOneVersion, PartOf
        <2>6. LengthInv'
            BY <1>2, <2>1 DEF Answer, LengthInv
        <2> QED BY <2>3, <2>5, <2>6
    <1>3. CASE Refused
        BY <1>3, FailureKeepsDownload DEF Refused
    <1>4. CASE OpenPart
        <2>1. part' = IF reply.append THEN part ELSE <<>>
            BY <1>4 DEF OpenPart, Opened
        <2>2. DownloadTypeOK'
            BY <1>4, <2>1 DEF OpenPart, DownloadTypeOK, Pcs
        <2>3. PartInv'
            BY <1>4, <2>1 DEF OpenPart, PartInv, LengthInv, OfOneVersion, PartOf
        <2>4. LengthInv'
            BY <1>4 DEF OpenPart, LengthInv
        <2> QED BY <2>2, <2>3, <2>4
    <1>5. CASE Receive
        <2>1. /\ part' = Append(part, reply.version)
              /\ Len(part') = Len(part) + 1
              /\ \A i \in DOMAIN part' : part'[i] = reply.version \/ (i \in DOMAIN part /\ part'[i] = part[i])
            BY <1>5 DEF Receive, DownloadTypeOK
        <2>2. DownloadTypeOK'
            BY <1>5, <2>1 DEF Receive, DownloadTypeOK
        <2>3. PartInv'
            BY <1>5, <2>1 DEF Receive, PartInv, OfOneVersion, PartOf
        <2>4. LengthInv'
            BY <1>5 DEF Receive, LengthInv
        <2> QED BY <2>2, <2>3, <2>4
    <1>6. CASE ReceiveFails
        BY <1>6, FailureKeepsDownload DEF ReceiveFails
    <1>7. CASE Whole
        <2>1. DownloadTypeOK'
            BY <1>7 DEF Whole, DownloadTypeOK, Pcs
        <2>2. PartInv' /\ LengthInv'
            BY <1>7 DEF Whole, EndOfBody, PartInv, LengthInv, OfOneVersion, PartOf
        <2> QED BY <2>1, <2>2
    <1>8. CASE Rename
        <2>1. DownloadTypeOK'
            BY <1>8 DEF Rename, DownloadTypeOK, Pcs
        <2>2. PartInv'
            BY <1>8 DEF Rename, PartInv, OfOneVersion, PartOf
        <2>3. LengthInv'
            BY <1>8 DEF Rename, LengthInv
        <2> QED BY <2>1, <2>2, <2>3
    <1>9. CASE Finish
        <2>1. DownloadTypeOK'
            BY <1>9 DEF Finish, DownloadTypeOK, Pcs
        <2>2. PartInv' /\ LengthInv'
            BY <1>9 DEF Finish, PartInv, LengthInv, OfOneVersion, PartOf
        <2> QED BY <2>1, <2>2
    <1>10. CASE Retry
        <2>1. DownloadTypeOK'
            BY <1>10 DEF Retry, MayRetry, NextAttempt, DownloadTypeOK, Pcs
        <2>2. PartInv' /\ LengthInv'
            BY <1>10 DEF Retry, PartInv, LengthInv, OfOneVersion, PartOf
        <2> QED BY <2>1, <2>2
    <1>11. CASE GiveUp
        BY <1>11, FailureKeepsDownload DEF GiveUp
    <1>12. CASE Restart
        <2>1. DownloadTypeOK'
            BY <1>12 DEF Restart, DownloadTypeOK, Pcs
        <2>2. PartInv' /\ LengthInv'
            BY <1>12 DEF Restart, PartInv, LengthInv, OfOneVersion, PartOf
        <2> QED BY <2>1, <2>2
    <1>13. CASE Change
        <2>1. DownloadTypeOK'
            BY <1>13 DEF Change, DownloadTypeOK, Versions
        <2>2. PartInv' /\ LengthInv'
            BY <1>13 DEF Change, PartInv, LengthInv, OfOneVersion, PartOf
        <2> QED BY <2>1, <2>2
    <1>14. CASE Stop
        <2>1. DownloadTypeOK'
            BY <1>14 DEF Stop, DownloadTypeOK, Pcs
        <2>2. PartInv' /\ LengthInv'
            BY <1>14 DEF Stop, PartInv, LengthInv, OfOneVersion, PartOf
        <2> QED BY <2>1, <2>2
    <1>15. CASE Crash
        <2>1. saved' = saved \/ saved' = None
            BY <1>15 DEF Crash
        <2>2. DownloadTypeOK'
            BY <1>15, <2>1 DEF Crash, DownloadTypeOK, Pcs
        <2>3. ~torn' => PartInv'
            <3>1. ASSUME ~torn', saved' # None PROVE PartOf(saved)
                <4>1. CASE pc = "opening"
                    <5>1. ~torn /\ (reply.append \/ part = <<>>) /\ saved # None
                        BY <1>15, <4>1, <3>1, <2>1 DEF Crash, DownloadTypeOK
                    <5>2. CASE reply.append
                        BY <4>1, <5>1, <5>2 DEF PartInv, DownloadTypeOK
                    <5>3. CASE part = <<>>
                        BY <5>3 DEF PartOf
                    <5> QED BY <5>1, <5>2, <5>3
                <4>2. CASE pc # "opening"
                    BY <1>15, <4>2, <3>1, <2>1 DEF Crash, PartInv, PartOf, DownloadTypeOK
                <4> QED BY <4>1, <4>2
            <3> QED BY <1>15, <2>1, <3>1 DEF Crash, PartInv, OfOneVersion, PartOf, DownloadTypeOK
        <2>4. PartInv'
            BY <2>3 DEF PartInv
        <2>5. LengthInv'
            BY <1>15 DEF Crash, LengthInv
        <2> QED BY <2>2, <2>4, <2>5
    <1>16. CASE UNCHANGED downloadVars
        BY <1>16 DEF downloadVars, DownloadTypeOK, PartInv, LengthInv, OfOneVersion, PartOf
    <1> QED
        BY <1>1, <1>2, <1>3, <1>4, <1>5, <1>6, <1>7, <1>8, <1>9, <1>10, <1>11, <1>12,
           <1>13, <1>14, <1>15, <1>16 DEF DownloadNext, Download

\* The part file is of the version its state file names, whatever happened to
\* the source, the connection and the process.
THEOREM DownloadInvariantHolds == DownloadSpec => []DownloadInv
    BY DownloadBegins, DownloadIsKept, PTL DEF DownloadSpec

\* A finished download is whole and of one version of the source, unless the
\* process died between the state file and the truncation of the part file.
THEOREM DownloadIsExact == DownloadSpec => []ExactUnlessTorn
    <1>1. DownloadInv => ExactUnlessTorn
        BY DEF DownloadInv, PartInv, LengthInv, ExactUnlessTorn
    <1> QED BY <1>1, DownloadInvariantHolds, PTL

-----------------------------------------------------------------------------
(***************************************************************************)
(* The invariant.  It rests on the fairness of the lock: who waits in line *)
(* is at that await, once, so that a merge which asked before its cancel   *)
(* has made its process when the cancel lists the processes.               *)
(***************************************************************************)
Make(w) == [act |-> "make", who |-> w]
Drop(w) == [act |-> "drop", who |-> w]
Turn(c) == [act |-> "sweep", who |-> c]

\* Whose turn it is in line: the coroutine or sweep is at that await.
Asking(t) ==
    /\ t.act = "make" => worker[t.who].pc \in {"queued", "creating"}
    /\ t.act = "drop" => worker[t.who].pc = "dropping"
    /\ t.act = "sweep" => sweep[t.who].pc \in {"list", "pop", "left"}

LineInv ==
    /\ \A i, j \in 1..Len(line) : line[i] = line[j] => i = j
    /\ \A i \in 1..Len(line) : Asking(line[i])
    /\ \A w \in Workers : At(w, "queued") => \E i \in 1..Len(line) : line[i] = Make(w)
    /\ \A w \in Workers : At(w, "creating") => Holds("make", w)

HasProcess(w) == worker[w].pc \in {"running", "reaping", "dropping"}
Owns(w, h) == worker[w].handle = h /\ worker[w].pc \in {"running", "reaping"} /\ registry[w] = h

HandleInv ==
    /\ \A w \in Workers : HasProcess(w) <=> worker[w].handle # 0
    /\ \A v, w \in Workers : v # w /\ HasProcess(v) => worker[v].handle # worker[w].handle
    /\ \A h \in alive : \E w \in Workers : Owns(w, h)

SweepInv ==
    /\ \A c \in Sweepers : sweep[c].pc = "pop" => Dead(sweep[c].got)
    /\ closed => \A w \in Workers : ~At(w, "creating")
    /\ sweep["down"].pc \in {"kill", "pop"} => closed /\ alive \subseteq sweep["down"].got
    /\ sweep["down"].pc = "over" => closed /\ alive = {}
    /\ \A c \in Sweepers : sweep[c].pc = "left" => c = "merge"

\* The merge has made its process, or will not make one any more.
NoneToCome == worker[Merger].pc \notin {"called", "queued", "creating"}
Gone == worker[Merger].handle \notin alive
AheadInLine ==
    \E i, j \in 1..Len(line) : i < j /\ line[i] = Make(Merger) /\ line[j] = Turn("merge")

MergeInv ==
    /\ merge \in {"idle", "over"} => At(Merger, "idle")
    /\ merge \in {"idle", "watch"} => sweep["merge"].pc = "idle"
    /\ admin = "idle" => sweep["admin"].pc = "idle"
    /\ admin = "over" => merge \in {"over", "left"}
    /\ sweep["merge"].pc = "left" => merge = "left"
    /\ merge = "sweep" /\ ~missed =>
         /\ sweep["merge"].pc # "idle"
         /\ sweep["merge"].pc = "list" => ~At(Merger, "called") /\ (At(Merger, "queued") => AheadInLine)
         /\ sweep["merge"].pc = "kill" => NoneToCome /\ (Gone \/ worker[Merger].handle \in sweep["merge"].got)
         /\ sweep["merge"].pc \in {"pop", "over"} => NoneToCome /\ Gone
    /\ merge = "gather" /\ ~missed => NoneToCome /\ Gone

IInv == TypeOK /\ LineInv /\ HandleInv /\ SweepInv /\ MergeInv

-----------------------------------------------------------------------------
(***************************************************************************)
(* The line.                                                               *)
(***************************************************************************)

\* A turn is one of the three kinds.
LEMMA KindsOfTurns ==
    /\ \A w \in Workers : Make(w) \in Turns /\ Drop(w) \in Turns
    /\ \A c \in Sweepers : Turn(c) \in Turns
    /\ \A t \in Turns : \/ t.act = "make" /\ t.who \in Workers /\ t = Make(t.who)
                        \/ t.act = "drop" /\ t.who \in Workers /\ t = Drop(t.who)
                        \/ t.act = "sweep" /\ t.who \in Sweepers /\ t = Turn(t.who)
<1>1. \A w \in Workers : Make(w) \in Turns /\ Drop(w) \in Turns
  BY DEF Turns, Make, Drop
<1>2. \A c \in Sweepers : Turn(c) \in Turns
  BY DEF Turns, Turn
<1>3. \A t \in Turns : \/ t.act = "make" /\ t.who \in Workers /\ t = Make(t.who)
                       \/ t.act = "drop" /\ t.who \in Workers /\ t = Drop(t.who)
                       \/ t.act = "sweep" /\ t.who \in Sweepers /\ t = Turn(t.who)
  <2> TAKE t \in Turns
  <2>1. CASE t \in [act : {"make", "drop"}, who : Workers]
    <3>1. t = [act |-> t.act, who |-> t.who] /\ t.act \in {"make", "drop"} /\ t.who \in Workers
      BY <2>1
    <3>2. QED
      BY <3>1 DEF Make, Drop
  <2>2. CASE t \in [act : {"sweep"}, who : Sweepers]
    <3>1. t = [act |-> t.act, who |-> t.who] /\ t.act = "sweep" /\ t.who \in Sweepers
      BY <2>2
    <3>2. QED
      BY <3>1 DEF Turn
  <2>3. QED
    BY <2>1, <2>2 DEF Turns
<1>4. QED
  BY <1>1, <1>2, <1>3

\* A request goes to the end of the line.
LEMMA AfterAsking ==
    ASSUME line \in Seq(Turns), NEW t \in Turns, line' = Append(line, t)
    PROVE  /\ line' \in Seq(Turns) /\ Len(line) \in Nat /\ Len(line') = Len(line) + 1
           /\ \A i \in 1..Len(line) : line'[i] = line[i]
           /\ line'[Len(line) + 1] = t
OBVIOUS

\* A release takes the first out of the line.
LEMMA AfterRelease ==
    ASSUME line \in Seq(Turns), line # <<>>, Release
    PROVE  /\ line' \in Seq(Turns) /\ Len(line) \in Nat /\ Len(line) > 0
           /\ Len(line') = Len(line) - 1
           /\ \A i \in 1..Len(line') : line'[i] = line[i + 1]
           /\ Head(line) = line[1]
BY DEF Release

\* Who holds the lock is first in line.
LEMMA HolderIsFirst ==
    ASSUME TypeOK, NEW act, NEW who, Holds(act, who)
    PROVE  /\ Len(line) \in Nat /\ 1 \in 1..Len(line) /\ line # <<>>
           /\ line[1] = [act |-> act, who |-> who] /\ Head(line) = line[1]
<1>1. line \in Seq(Turns) /\ line # <<>> /\ Head(line) = [act |-> act, who |-> who]
  BY DEF TypeOK, Holds
<1>2. Len(line) \in Nat /\ Len(line) > 0 /\ Head(line) = line[1]
  BY <1>1
<1>3. QED
  BY <1>1, <1>2

\* Nothing happens to the line, and nobody leaves the await that it stands for.
LEMMA LineStays ==
    ASSUME TypeOK, LineInv, line' = line,
           \A t \in Turns : Asking(t) => Asking(t)',
           \A w \in Workers : At(w, "queued")' => At(w, "queued"),
           \A w \in Workers : At(w, "creating")' => At(w, "creating") \/ Holds("make", w)
    PROVE  LineInv'
<1>1. \A i \in 1..Len(line) : line[i] \in Turns
  BY DEF TypeOK
<1>2. \A i \in 1..Len(line) : Asking(line[i])'
  <2>1. TAKE i \in 1..Len(line)
  <2>2. PICK t \in Turns : line[i] = t
    BY <1>1
  <2>3. Asking(t)'
    BY <2>2 DEF LineInv
  <2>4. QED
    BY <2>2, <2>3 DEF Asking
<1>3. \A w \in Workers : Holds("make", w)' <=> Holds("make", w)
  BY DEF Holds
<1>4. QED
  BY <1>2, <1>3 DEF LineInv

\* Somebody asks who is not in line.
LEMMA LineGrows ==
    ASSUME TypeOK, LineInv, NEW t \in Turns, line' = Append(line, t), ~Asking(t), Asking(t)',
           \A u \in Turns : Asking(u) => Asking(u)',
           \A w \in Workers : At(w, "queued")' => At(w, "queued") \/ t = Make(w),
           \A w \in Workers : At(w, "creating")' => At(w, "creating")
    PROVE  LineInv'
<1> DEFINE n == Len(line)
<1>1. /\ line' \in Seq(Turns) /\ n \in Nat /\ Len(line') = n + 1
      /\ \A i \in 1..n : line'[i] = line[i] /\ line[i] \in Turns
      /\ line'[n + 1] = t
  BY AfterAsking DEF TypeOK
<1>2. \A i \in 1..n : line[i] # t
  BY DEF LineInv
<1>3. \A i, j \in 1..Len(line') : line'[i] = line'[j] => i = j
  <2>1. \A i \in 1..Len(line') : i \in 1..n \/ i = n + 1
    BY <1>1
  <2>2. QED
    BY <1>1, <1>2, <2>1 DEF LineInv
<1>4. (\A i \in 1..Len(line) : Asking(line[i]))'
  <2>1. SUFFICES ASSUME NEW i \in 1..Len(line') PROVE Asking(line[i])'
    OBVIOUS
  <2>2. PICK u \in Turns : line'[i] = u /\ Asking(u)'
    BY <1>1 DEF LineInv
  <2>3. QED
    BY <2>2 DEF Asking
<1>5. \A w \in Workers : At(w, "queued")' => \E i \in 1..Len(line') : line'[i] = Make(w)
  BY <1>1 DEF LineInv
<1>6. \A w \in Workers : At(w, "creating")' => Holds("make", w)'
  <2>1. line # <<>> => line' # <<>> /\ Head(line') = Head(line)
    BY <1>1 DEF TypeOK
  <2>2. QED
    BY <2>1 DEF LineInv, Holds
<1>7. QED
  BY <1>3, <1>4, <1>5, <1>6 DEF LineInv

\* The holder of the lock releases it.
LEMMA LineShrinks ==
    ASSUME TypeOK, LineInv, NEW t \in Turns, line # <<>>, Head(line) = t, Release,
           \A u \in Turns : u # t /\ Asking(u) => Asking(u)',
           \A w \in Workers : At(w, "queued")' => At(w, "queued") /\ t # Make(w),
           \A w \in Workers : At(w, "creating")' => At(w, "creating") /\ t # Make(w)
    PROVE  LineInv'
<1> DEFINE n == Len(line)
<1>1. /\ line' \in Seq(Turns) /\ n \in Nat /\ n > 0 /\ Len(line') = n - 1
      /\ \A i \in 1..Len(line') : line'[i] = line[i + 1]
      /\ line[1] = t /\ \A i \in 1..n : line[i] \in Turns
  BY AfterRelease DEF TypeOK
<1>2. \A i \in 1..Len(line') : i + 1 \in 1..n /\ i + 1 # 1 /\ line[i + 1] # t
  BY <1>1 DEF LineInv
<1>3. \A i, j \in 1..Len(line') : line'[i] = line'[j] => i = j
  <2>1. TAKE i, j \in 1..Len(line')
  <2>2. line'[i] = line'[j] => i + 1 = j + 1
    BY <1>1, <1>2 DEF LineInv
  <2>3. QED
    BY <2>2
<1>4. (\A i \in 1..Len(line) : Asking(line[i]))'
  <2>1. SUFFICES ASSUME NEW i \in 1..Len(line') PROVE Asking(line[i])'
    OBVIOUS
  <2>2. PICK u \in Turns : line'[i] = u /\ Asking(u)'
    BY <1>1, <1>2 DEF LineInv
  <2>3. QED
    BY <2>2 DEF Asking
<1>5. ASSUME NEW w \in Workers, At(w, "queued")'
      PROVE  \E i \in 1..Len(line') : line'[i] = Make(w)
  <2>1. PICK k \in 1..n : line[k] = Make(w)
    BY <1>5 DEF LineInv
  <2>2. k # 1
    BY <1>1, <1>5, <2>1
  <2>3. k - 1 \in 1..Len(line') /\ line'[k - 1] = line[k]
    BY <1>1, <2>2
  <2>4. QED
    BY <2>1, <2>3
<1>6. \A w \in Workers : ~At(w, "creating")'
  BY DEF LineInv, Holds, Make
<1>7. QED
  BY <1>3, <1>4, <1>5, <1>6 DEF LineInv

\* The merge stays ahead of its cancel in line, as long as both wait.
LEMMA StaysAhead ==
    ASSUME TypeOK, AheadInLine,
           \/ line' = line
           \/ \E t \in Turns : line' = Append(line, t)
           \/ line # <<>> /\ Release /\ Head(line) # Make(Merger)
    PROVE  AheadInLine'
<1>1. PICK i, j \in 1..Len(line) : i < j /\ line[i] = Make(Merger) /\ line[j] = Turn("merge")
  BY DEF AheadInLine
<1>2. line \in Seq(Turns)
  BY DEF TypeOK
<1>3. CASE line' = line
  BY <1>1, <1>3 DEF AheadInLine
<1>4. ASSUME NEW t \in Turns, line' = Append(line, t) PROVE AheadInLine'
  <2>1. i \in 1..Len(line') /\ j \in 1..Len(line') /\ line'[i] = line[i] /\ line'[j] = line[j]
    BY <1>2, <1>4, AfterAsking
  <2>2. QED
    BY <1>1, <2>1 DEF AheadInLine
<1>5. CASE line # <<>> /\ Release /\ Head(line) # Make(Merger)
  <2>1. /\ Len(line) \in Nat /\ Len(line') = Len(line) - 1 /\ Head(line) = line[1]
        /\ \A k \in 1..Len(line') : line'[k] = line[k + 1]
    BY <1>2, <1>5, AfterRelease
  <2>2. i # 1
    BY <1>1, <1>5, <2>1
  <2>3. i - 1 \in 1..Len(line') /\ j - 1 \in 1..Len(line') /\ i - 1 < j - 1
    BY <1>1, <2>1, <2>2
  <2>4. (i - 1) + 1 = i /\ (j - 1) + 1 = j
    BY <2>1
  <2>5. line'[i - 1] = line[i] /\ line'[j - 1] = line[j]
    BY <2>1, <2>3, <2>4
  <2>6. QED
    BY <1>1, <2>3, <2>5 DEF AheadInLine
<1>6. QED
  BY <1>3, <1>4, <1>5

-----------------------------------------------------------------------------
(***************************************************************************)
(* What a step of a coroutine leaves as it is.                             *)
(***************************************************************************)

\* A step at which nothing is spawned and no sweep moves.
LEMMA SweepsStay ==
    ASSUME TypeOK, SweepInv, UNCHANGED <<sweep, closed>>, alive' \subseteq alive,
           \A w \in Workers : At(w, "creating")' => At(w, "creating") \/ ~closed
    PROVE  SweepInv'
BY DEF SweepInv, Dead

\* The merge's callers stay where they are, and the merge does not go back.
LEMMA CallersStay ==
    ASSUME TypeOK, MergeInv, UNCHANGED <<sweep, merge, missed>>,
           admin' = admin \/ admin' = "gather",
           At(Merger, "idle") => At(Merger, "idle")',
           NoneToCome => NoneToCome',
           NoneToCome /\ Gone => Gone',
           NoneToCome => Gone' \/ worker'[Merger].handle = worker[Merger].handle,
           ~At(Merger, "called") => ~At(Merger, "called")',
           At(Merger, "queued")' => At(Merger, "queued") \/ At(Merger, "called"),
           AheadInLine /\ At(Merger, "queued")' => AheadInLine'
    PROVE  MergeInv'
BY DEF MergeInv

\* The same, when it is another coroutine's step and nothing is spawned.
LEMMA MergeStays ==
    ASSUME TypeOK, MergeInv, UNCHANGED <<sweep, merge, admin, missed>>,
           worker'[Merger] = worker[Merger], alive' \subseteq alive,
           AheadInLine => AheadInLine'
    PROVE  MergeInv'
BY CallersStay DEF At, NoneToCome, Gone

-----------------------------------------------------------------------------
(***************************************************************************)
(* The steps of a coroutine.                                               *)
(***************************************************************************)

\* The task of a creation asks for the lock.
LEMMA QueueingKeepsInvariant ==
    ASSUME IInv, NEW w \in Workers, At(w, "called") \/ (At(w, "idle") /\ w # Merger), Queues(w)
    PROVE  IInv'
<1> USE DEF IInv
<1> DEFINE t == Make(w)
<1>1. /\ worker' = [worker EXCEPT ![w].pc = "queued"] /\ line' = Append(line, t) /\ t \in Turns
      /\ UNCHANGED <<registry, alive, closed, sweep, merge, admin, missed>>
  BY KindsOfTurns DEF Queues, Asks, Make, processes
<1>2. TypeOK'
  <2>1. line' \in Seq(Turns)
    BY <1>1, AfterAsking DEF TypeOK
  <2>2. worker' \in [Workers -> [pc : WorkerPcs, handle : 0..MaxHandles, cancelled : BOOLEAN]]
    BY <1>1 DEF TypeOK, WorkerPcs
  <2>3. QED
    BY <1>1, <2>1, <2>2 DEF TypeOK
<1>3. /\ worker'[w].pc = "queued" /\ worker'[w].handle = worker[w].handle
      /\ \A v \in Workers : v # w => worker'[v] = worker[v]
  BY <1>1 DEF TypeOK
<1>4. LineInv'
  <2>1. ~Asking(t) /\ Asking(t)'
    BY <1>3 DEF Asking, Make, At
  <2>2. \A u \in Turns : Asking(u) => Asking(u)'
    BY <1>1, <1>3, KindsOfTurns DEF Asking, At
  <2>3. QED
    BY <1>1, <1>3, <2>1, <2>2, LineGrows DEF At
<1>5. HandleInv'
  BY <1>1, <1>3 DEF HandleInv, HasProcess, Owns, At
<1>6. SweepInv'
  BY <1>1, <1>3, SweepsStay DEF At
<1>7. AheadInLine => AheadInLine'
  BY <1>1, StaysAhead
<1>8. MergeInv'
  BY <1>1, <1>3, <1>7, CallersStay DEF At, NoneToCome, Gone
<1>9. QED
  BY <1>2, <1>4, <1>5, <1>6, <1>8

\* With the lock, the task goes on or gives up.
LEMMA EnterKeepsInvariant ==
    ASSUME IInv, NEW w \in Workers, Enter(w)
    PROVE  IInv'
<1> USE DEF IInv
<1> DEFINE t == Make(w)
<1>1. /\ Holds("make", w) /\ t \in Turns /\ Head(line) = t /\ line # <<>> /\ At(w, "queued")
      /\ UNCHANGED <<registry, alive, closed, sweep, merge, admin, missed>>
  BY KindsOfTurns DEF Enter, Holds, Make, processes
<1>2. worker[w].handle = 0
  BY <1>1 DEF HandleInv, HasProcess, At
<1>3. CASE worker' = [worker EXCEPT ![w] = Idle] /\ Release
  <2>1. TypeOK'
    <3>1. line' \in Seq(Turns)
      BY <1>1, <1>3, AfterRelease DEF TypeOK
    <3>2. worker' \in [Workers -> [pc : WorkerPcs, handle : 0..MaxHandles, cancelled : BOOLEAN]]
      BY <1>1, <1>3 DEF TypeOK, WorkerPcs, Idle
    <3>3. QED
      BY <1>1, <1>3, <3>1, <3>2 DEF TypeOK
  <2>2. /\ worker'[w].pc = "idle" /\ worker'[w].handle = 0
        /\ \A v \in Workers : v # w => worker'[v] = worker[v]
    BY <1>3 DEF TypeOK, Idle
  <2>3. \A u \in Turns : u # t /\ Asking(u) => Asking(u)'
    BY <1>1, <2>2, KindsOfTurns DEF Asking, At
  <2>4. \A v \in Workers : v # w => t # Make(v)
    BY DEF Make
  <2>5. LineInv'
    BY <1>1, <1>3, <2>2, <2>3, <2>4, LineShrinks DEF At
  <2>6. HandleInv'
    BY <1>1, <1>2, <2>2 DEF HandleInv, HasProcess, Owns, At
  <2>7. SweepInv'
    BY <1>1, <2>2, SweepsStay DEF At
  <2>8. w # Merger => (AheadInLine => AheadInLine')
    BY <1>1, <1>3, <2>4, StaysAhead
  <2>9. MergeInv'
    BY <1>1, <1>2, <2>2, <2>8, CallersStay DEF At, NoneToCome, Gone, TypeOK, Handles
  <2>10. QED
    BY <2>1, <2>5, <2>6, <2>7, <2>9
<1>4. CASE ~closed /\ worker' = [worker EXCEPT ![w].pc = "creating"] /\ UNCHANGED line
  <2>1. TypeOK'
    BY <1>1, <1>4 DEF TypeOK, WorkerPcs
  <2>2. /\ worker'[w].pc = "creating" /\ worker'[w].handle = 0
        /\ \A v \in Workers : v # w => worker'[v] = worker[v]
    BY <1>2, <1>4 DEF TypeOK
  <2>3. \A u \in Turns : Asking(u) => Asking(u)'
    BY <1>1, <2>2, KindsOfTurns DEF Asking, At
  <2>4. LineInv'
    BY <1>1, <1>4, <2>2, <2>3, LineStays DEF At
  <2>5. HandleInv'
    BY <1>1, <1>2, <2>2 DEF HandleInv, HasProcess, Owns, At
  <2>6. SweepInv'
    BY <1>1, <1>4, <2>2, SweepsStay DEF At
  <2>7. MergeInv'
    BY <1>1, <1>2, <1>4, <2>2, CallersStay, StaysAhead DEF At, NoneToCome, Gone, TypeOK, Handles
  <2>8. QED
    BY <2>1, <2>4, <2>5, <2>6, <2>7
<1>5. QED
  BY <1>3, <1>4 DEF Enter

\* The process is made, under a handle that nobody refers to, or there is none.
LEMMA CreateKeepsInvariant ==
    ASSUME IInv, NEW w \in Workers, Create(w)
    PROVE  IInv'
<1> USE DEF IInv
<1> DEFINE t == Make(w)
<1>1. /\ At(w, "creating") /\ Holds("make", w) /\ Release
      /\ t \in Turns /\ Head(line) = t /\ line # <<>> /\ ~closed
      /\ UNCHANGED <<closed, sweep, merge, admin, missed>>
  BY KindsOfTurns DEF Create, LineInv, SweepInv, Holds, Make
<1>2. worker[w].handle = 0
  BY <1>1 DEF HandleInv, HasProcess, At
<1>3. \A v \in Workers : v # w => t # Make(v) /\ ~At(v, "creating")
  <2>1. TAKE v \in Workers
  <2>2. v # w => t # Make(v)
    BY DEF Make
  <2>3. At(v, "creating") => Head(line) = Make(v)
    BY DEF LineInv, Holds, Make
  <2>4. QED
    BY <1>1, <2>2, <2>3
<1>4. ASSUME NEW r, worker' = [worker EXCEPT ![w] = r], r.pc \notin {"queued", "creating", "called"}
      PROVE  LineInv' /\ (w # Merger => (AheadInLine => AheadInLine'))
  <2>1. worker'[w] = r /\ \A v \in Workers : v # w => worker'[v] = worker[v]
    BY <1>4 DEF TypeOK
  <2>2. \A u \in Turns : u # t /\ Asking(u) => Asking(u)'
    BY <1>1, <2>1, KindsOfTurns DEF Asking, At
  <2>3. LineInv'
    BY <1>1, <1>3, <1>4, <2>1, <2>2, LineShrinks DEF At
  <2>4. QED
    BY <1>1, <1>3, <2>3, StaysAhead
<1>5. CASE worker' = [worker EXCEPT ![w] = Idle] /\ UNCHANGED <<registry, alive>>
  <2>1. TypeOK'
    <3>1. line' \in Seq(Turns)
      BY <1>1, <1>5, AfterRelease DEF TypeOK
    <3>2. worker' \in [Workers -> [pc : WorkerPcs, handle : 0..MaxHandles, cancelled : BOOLEAN]]
      BY <1>1, <1>5 DEF TypeOK, WorkerPcs, Idle
    <3>3. QED
      BY <1>1, <1>5, <3>1, <3>2 DEF TypeOK
  <2>2. /\ worker'[w].pc = "idle" /\ worker'[w].handle = 0
        /\ \A v \in Workers : v # w => worker'[v] = worker[v]
    BY <1>5 DEF TypeOK, Idle
  <2>3. LineInv' /\ (w # Merger => (AheadInLine => AheadInLine'))
    BY <1>4, <1>5 DEF Idle
  <2>4. HandleInv'
    BY <1>1, <1>2, <1>5, <2>2 DEF HandleInv, HasProcess, Owns, At
  <2>5. SweepInv'
    BY <1>1, <1>5, <2>2, SweepsStay DEF At
  <2>6. MergeInv'
    BY <1>1, <1>2, <1>5, <2>2, <2>3, CallersStay DEF At, NoneToCome, Gone, TypeOK, Handles
  <2>7. QED
    BY <2>1, <2>3, <2>4, <2>5, <2>6
<1>6. ASSUME NEW h \in Free, alive' = alive \cup {h}, registry' = [registry EXCEPT ![w] = h],
             worker' = [worker EXCEPT ![w] = AfterSpawn(w, h)]
      PROVE  IInv'
  <2> DEFINE r == AfterSpawn(w, h)
  <2>1. /\ h \in Handles /\ h # 0
        /\ \A v \in Workers : worker[v].handle # h
        /\ \A c \in Sweepers : h \notin sweep[c].got
    BY DEF Free, Handles
  <2>2. /\ r.pc \in {"reaping", "running"} /\ r.handle = h
        /\ r \in [pc : WorkerPcs, handle : 0..MaxHandles, cancelled : BOOLEAN]
    BY <2>1 DEF AfterSpawn, WorkerPcs, Handles
  <2>3. TypeOK'
    <3>1. line' \in Seq(Turns)
      BY <1>1, AfterRelease DEF TypeOK
    <3>2. alive' \subseteq Handles /\ registry' \in [Workers -> 0..MaxHandles]
      BY <1>6, <2>1 DEF TypeOK, Handles
    <3>3. worker' \in [Workers -> [pc : WorkerPcs, handle : 0..MaxHandles, cancelled : BOOLEAN]]
      BY <1>6, <2>2 DEF TypeOK
    <3>4. QED
      BY <1>1, <3>1, <3>2, <3>3 DEF TypeOK
  <2>4. /\ worker'[w] = r /\ registry'[w] = h
        /\ \A v \in Workers : v # w => worker'[v] = worker[v] /\ registry'[v] = registry[v]
    BY <1>6 DEF TypeOK
  <2>5. LineInv' /\ (w # Merger => (AheadInLine => AheadInLine'))
    BY <1>4, <1>6, <2>2
  <2>6. HandleInv'
    <3>1. \A v \in Workers : HasProcess(v)' <=> worker'[v].handle # 0
      BY <2>1, <2>2, <2>4 DEF HandleInv, HasProcess
    <3>2. \A u, v \in Workers : u # v /\ HasProcess(u)' => worker'[u].handle # worker'[v].handle
      BY <2>1, <2>2, <2>4 DEF HandleInv, HasProcess
    <3>3. Owns(w, h)'
      BY <2>2, <2>4 DEF Owns
    <3>4. \A g \in alive, v \in Workers : Owns(v, g) => Owns(v, g)'
      BY <1>1, <2>4 DEF Owns, At
    <3>5. QED
      BY <1>6, <3>1, <3>2, <3>3, <3>4 DEF HandleInv
  <2>7. SweepInv'
    BY <1>1, <1>6, <2>1, <2>2, <2>4 DEF SweepInv, Dead, At, Sweepers
  <2>8. MergeInv'
    BY <1>1, <1>6, <2>1, <2>2, <2>4, <2>5, CallersStay DEF At, NoneToCome, Gone
  <2>9. QED
    BY <2>3, <2>5, <2>6, <2>7, <2>8
<1>7. QED
  BY <1>5, <1>6 DEF Create

\* The run is over.
LEMMA RunKeepsInvariant ==
    ASSUME IInv, NEW w \in Workers, RunEnds(w)
    PROVE  IInv'
<1> USE DEF IInv
<1>1. /\ UNCHANGED <<line, registry, alive, closed, sweep, merge, admin, missed>>
      /\ At(w, "running") /\ worker' = [worker EXCEPT ![w].pc = "reaping"]
  BY DEF RunEnds, processes
<1>2. TypeOK'
  BY <1>1 DEF TypeOK, WorkerPcs
<1>3. /\ worker'[w].handle = worker[w].handle
      /\ worker[w].pc = "running" /\ worker'[w].pc = "reaping"
      /\ \A v \in Workers : v # w => worker'[v] = worker[v]
  BY <1>1 DEF TypeOK, At
<1>4. \A u \in Turns : Asking(u) => Asking(u)'
  BY <1>1, <1>3, KindsOfTurns DEF Asking
<1>5. LineInv'
  BY <1>1, <1>3, <1>4, LineStays DEF At
<1>6. HandleInv'
  BY <1>1, <1>3 DEF HandleInv, HasProcess, Owns
<1>7. SweepInv'
  BY <1>1, <1>3, SweepsStay DEF At
<1>8. MergeInv'
  BY <1>1, <1>3, CallersStay, StaysAhead DEF At, NoneToCome, Gone
<1>9. QED
  BY <1>2, <1>5, <1>6, <1>7, <1>8

\* The owner of a run is cancelled: the caller of a merge only passes that on
\* when it waits for the task of the merge.
LEMMA InterruptKeepsInvariant ==
    ASSUME IInv, NEW w \in Workers, w # Merger \/ merge = "gather",
           worker' \in {[worker EXCEPT ![w] = after] : after \in AfterInterrupt(w)},
           UNCHANGED <<line, processes, sweep, merge, missed>>,
           admin' \in {"idle", "sweep", "cancel", "gather", "over"},
           admin' = admin \/ admin' = "gather"
    PROVE  IInv'
<1> USE DEF IInv
<1>1. UNCHANGED <<line, registry, alive, closed, sweep, merge, missed>>
  BY DEF processes
<1>2. PICK after \in AfterInterrupt(w) : worker' = [worker EXCEPT ![w] = after]
  OBVIOUS
<1>3. /\ worker'[w] = after
      /\ \A v \in Workers : v # w => worker'[v] = worker[v]
  BY <1>2 DEF TypeOK
<1>4. /\ worker[w] \in [pc : WorkerPcs, handle : 0..MaxHandles, cancelled : BOOLEAN]
      /\ worker[w].pc = "called" => worker[w].handle = 0
  BY DEF TypeOK, HandleInv, HasProcess
<1>5. /\ after \in [pc : WorkerPcs, handle : 0..MaxHandles, cancelled : BOOLEAN]
      /\ after.handle = worker[w].handle
      /\ \/ after.pc = worker[w].pc
         \/ worker[w].pc = "called" /\ after.pc = "idle"
         \/ worker[w].pc = "running" /\ after.pc = "reaping"
  <2>1. CASE worker[w].pc \in {"queued", "creating"}
    <3>1. after = [worker[w] EXCEPT !.cancelled = TRUE]
      BY <2>1 DEF AfterInterrupt, At
    <3>2. QED
      BY <1>4, <3>1
  <2>2. CASE worker[w].pc = "called"
    <3>1. after = Idle \/ after = [worker[w] EXCEPT !.cancelled = TRUE]
      BY <2>2 DEF AfterInterrupt, At
    <3>2. CASE after = Idle
      BY <1>4, <2>2, <3>2 DEF Idle, WorkerPcs
    <3>3. CASE after = [worker[w] EXCEPT !.cancelled = TRUE]
      BY <1>4, <3>3
    <3>4. QED
      BY <3>1, <3>2, <3>3
  <2>3. CASE worker[w].pc = "running"
    BY <1>4, <2>3 DEF AfterInterrupt, At, WorkerPcs
  <2>4. CASE worker[w].pc \notin {"queued", "creating", "called", "running"}
    BY <1>4, <2>4 DEF AfterInterrupt, At
  <2>5. QED
    BY <2>1, <2>2, <2>3, <2>4
<1>6. TypeOK'
  BY <1>1, <1>2, <1>5 DEF TypeOK
<1>7. \A u \in Turns : Asking(u) => Asking(u)'
  BY <1>1, <1>3, <1>5, KindsOfTurns DEF Asking
<1>8. LineInv'
  BY <1>1, <1>3, <1>5, <1>7, LineStays DEF At
<1>9. HandleInv'
  BY <1>1, <1>3, <1>5 DEF HandleInv, HasProcess, Owns
<1>10. SweepInv'
  BY <1>1, <1>3, <1>5, SweepsStay DEF At
<1>11. MergeInv'
  BY <1>1, <1>3, <1>5, CallersStay, StaysAhead DEF At, NoneToCome, Gone
<1>12. QED
  BY <1>6, <1>8, <1>9, <1>10, <1>11

\* The process has exited; its stage is to be taken out of the registry.
LEMMA ReapKeepsInvariant ==
    ASSUME IInv, NEW w \in Workers, Reap(w)
    PROVE  IInv'
<1> USE DEF IInv
<1> DEFINE t == Drop(w)
<1>1. /\ At(w, "reaping") /\ worker[w].handle \notin alive
      /\ worker' = [worker EXCEPT ![w].pc = "dropping"] /\ line' = Append(line, t) /\ t \in Turns
      /\ UNCHANGED <<registry, alive, closed, sweep, merge, admin, missed>>
  BY KindsOfTurns DEF Reap, Dead, Asks, Drop, processes
<1>2. TypeOK'
  <2>1. line' \in Seq(Turns)
    BY <1>1 DEF TypeOK
  <2>2. worker' \in [Workers -> [pc : WorkerPcs, handle : 0..MaxHandles, cancelled : BOOLEAN]]
    BY <1>1 DEF TypeOK, WorkerPcs
  <2>3. QED
    BY <1>1, <2>1, <2>2 DEF TypeOK
<1>3. /\ worker'[w].pc = "dropping" /\ worker'[w].handle = worker[w].handle
      /\ \A v \in Workers : v # w => worker'[v] = worker[v]
  BY <1>1 DEF TypeOK
<1>4. LineInv'
  <2>1. ~Asking(t) /\ Asking(t)'
    BY <1>1, <1>3 DEF Asking, Drop, At
  <2>2. \A u \in Turns : Asking(u) => Asking(u)'
    BY <1>1, <1>3, KindsOfTurns DEF Asking, At
  <2>3. QED
    BY <1>1, <1>3, <2>1, <2>2, LineGrows DEF At
<1>5. HandleInv'
  BY <1>1, <1>3 DEF HandleInv, HasProcess, Owns, At
<1>6. SweepInv'
  BY <1>1, <1>3, SweepsStay DEF At
<1>7. AheadInLine => AheadInLine'
  BY <1>1, StaysAhead
<1>8. MergeInv'
  BY <1>1, <1>3, <1>7, CallersStay DEF At, NoneToCome, Gone
<1>9. QED
  BY <1>2, <1>4, <1>5, <1>6, <1>8

\* The stage is taken out of the registry, unless it has another process.
LEMMA UnregisterKeepsInvariant ==
    ASSUME IInv, NEW w \in Workers, Unregister(w)
    PROVE  IInv'
<1> USE DEF IInv
<1> DEFINE t == Drop(w)
<1>1. /\ At(w, "dropping") /\ Release /\ t \in Turns /\ Head(line) = t /\ line # <<>>
      /\ worker' = [worker EXCEPT ![w] = Idle]
      /\ \A v \in Workers : v # w => registry'[v] = registry[v]
      /\ registry' \in [Workers -> 0..MaxHandles]
      /\ UNCHANGED <<alive, closed, sweep, merge, admin, missed>>
  BY KindsOfTurns DEF Unregister, Holds, Drop, TypeOK
<1>2. TypeOK'
  <2>1. line' \in Seq(Turns)
    BY <1>1, AfterRelease DEF TypeOK
  <2>2. worker' \in [Workers -> [pc : WorkerPcs, handle : 0..MaxHandles, cancelled : BOOLEAN]]
    BY <1>1 DEF TypeOK, WorkerPcs, Idle
  <2>3. QED
    BY <1>1, <2>1, <2>2 DEF TypeOK
<1>3. /\ worker'[w].pc = "idle" /\ worker'[w].handle = 0
      /\ \A v \in Workers : v # w => worker'[v] = worker[v]
  BY <1>1 DEF TypeOK, Idle
<1>4. \A v \in Workers : t # Make(v)
  BY DEF Make, Drop
<1>5. \A u \in Turns : u # t /\ Asking(u) => Asking(u)'
  BY <1>1, <1>3, KindsOfTurns DEF Asking, At
<1>6. LineInv'
  BY <1>1, <1>3, <1>4, <1>5, LineShrinks DEF At
<1>7. HandleInv'
  BY <1>1, <1>3 DEF HandleInv, HasProcess, Owns, At
<1>8. SweepInv'
  BY <1>1, <1>3, SweepsStay DEF At
<1>9. AheadInLine => AheadInLine'
  BY <1>1, <1>4, StaysAhead
<1>10. MergeInv'
  BY <1>1, <1>3, <1>9, CallersStay DEF At, NoneToCome, Gone, TypeOK, Handles
<1>11. QED
  BY <1>2, <1>6, <1>7, <1>8, <1>10

\* A process exits.
LEMMA ExitKeepsInvariant ==
    ASSUME IInv, NEW h \in Handles, Exit(h)
    PROVE  IInv'
<1> USE DEF IInv
<1>1. alive' = alive \ {h} /\ UNCHANGED <<line, registry, closed, worker, sweep, merge, admin, missed>>
  BY DEF Exit
<1>2. TypeOK'
  BY <1>1 DEF TypeOK
<1>3. LineInv'
  BY <1>1, LineStays DEF Asking, At
<1>4. HandleInv'
  BY <1>1 DEF HandleInv, HasProcess, Owns
<1>5. SweepInv'
  BY <1>1, SweepsStay DEF At
<1>6. MergeInv'
  BY <1>1, MergeStays, StaysAhead
<1>7. QED
  BY <1>2, <1>3, <1>4, <1>5, <1>6

-----------------------------------------------------------------------------
(***************************************************************************)
(* The steps of a sweep.                                                   *)
(***************************************************************************)

\* A sweep moves, and no coroutine does.
LEMMA SweepMovesLine ==
    ASSUME TypeOK, LineInv, NEW c \in Sweepers, UNCHANGED worker,
           \A d \in Sweepers : d # c => sweep'[d] = sweep[d],
           \/ /\ line' = Append(line, Turn(c))
              /\ sweep[c].pc \notin {"list", "pop", "left"} /\ sweep'[c].pc \in {"list", "pop"}
           \/ Holds("sweep", c) /\ Release
    PROVE  LineInv' /\ (AheadInLine => AheadInLine')
<1> DEFINE t == Turn(c)
<1>1. t \in Turns
  BY KindsOfTurns
<1>2. \A w \in Workers : t # Make(w)
  BY DEF Turn, Make
<1>3. CASE /\ line' = Append(line, t)
           /\ sweep[c].pc \notin {"list", "pop", "left"} /\ sweep'[c].pc \in {"list", "pop"}
  <2>1. ~Asking(t) /\ Asking(t)'
    BY <1>3 DEF Asking, Turn
  <2>2. \A u \in Turns : Asking(u) => Asking(u)'
    BY <1>3, KindsOfTurns DEF Asking, Turn
  <2>3. QED
    BY <1>1, <1>3, <2>1, <2>2, LineGrows, StaysAhead DEF At
<1>4. CASE Holds("sweep", c) /\ Release
  <2>1. line # <<>> /\ Head(line) = t
    BY <1>4 DEF Holds, Turn
  <2>2. \A u \in Turns : u # t /\ Asking(u) => Asking(u)'
    BY KindsOfTurns DEF Asking
  <2>3. LineInv'
    BY <1>1, <1>2, <1>4, <2>1, <2>2, LineShrinks DEF At
  <2>4. AheadInLine => AheadInLine'
    BY <1>2, <1>4, <2>1, StaysAhead
  <2>5. QED
    BY <2>3, <2>4
<1>5. QED
  BY <1>3, <1>4

\* The sweep lists the processes, with the lock.
LEMMA ListKeepsInvariant ==
    ASSUME IInv, NEW c \in Sweepers, List(c)
    PROVE  IInv'
<1> USE DEF IInv
<1>1. /\ sweep[c].pc = "list" /\ Holds("sweep", c) /\ Release
      /\ sweep' = [sweep EXCEPT ![c] = [pc |-> "kill", got |-> Listed(c)]]
      /\ closed' = (closed \/ c = "down")
      /\ UNCHANGED <<registry, alive, worker, merge, admin, missed>>
  BY DEF List
<1>2. Listed(c) \subseteq Handles
  BY DEF Listed, TypeOK, Handles
<1>3. TypeOK'
  <2>1. line' \in Seq(Turns)
    BY <1>1, AfterRelease DEF TypeOK, Holds
  <2>2. sweep' \in [Sweepers -> [pc : SweepPcs, got : SUBSET Handles]]
    BY <1>1, <1>2 DEF TypeOK, SweepPcs
  <2>3. QED
    BY <1>1, <2>1, <2>2 DEF TypeOK
<1>4. /\ sweep'[c].pc = "kill" /\ sweep'[c].got = Listed(c)
      /\ \A d \in Sweepers : d # c => sweep'[d] = sweep[d]
  BY <1>1 DEF TypeOK
<1>5. LineInv' /\ (AheadInLine => AheadInLine')
  BY <1>1, <1>4, SweepMovesLine
<1>6. HandleInv'
  BY <1>1 DEF HandleInv, HasProcess, Owns
<1>7. \A w \in Workers : ~At(w, "creating")
  BY <1>1 DEF LineInv, Holds
<1>8. \A h \in alive : h # 0 /\ \E w \in Workers : registry[w] = h /\ worker[w].handle = h
  BY DEF HandleInv, Owns, TypeOK, Handles
<1>9. SweepInv'
  <2>1. c = "down" => alive \subseteq Listed(c)
    BY <1>8 DEF Listed
  <2>2. QED
    BY <1>1, <1>4, <1>7, <2>1 DEF SweepInv, Dead, At, Sweepers
<1>10. MergeInv'
  <2>1. c = "merge" => Gone \/ worker[Merger].handle \in Listed(c)
    <3>1. ASSUME ~Gone PROVE registry[Merger] = worker[Merger].handle /\ worker[Merger].handle # 0
      BY <1>8, <3>1 DEF Gone, HandleInv
    <3>2. QED
      BY <3>1 DEF Listed
  <2>2. c = "merge" => ~AheadInLine
    <3>1. c = "merge" => line[1] = Turn("merge") /\ Len(line) \in Nat /\ 1 \in 1..Len(line)
      BY <1>1, HolderIsFirst DEF Turn
    <3>2. QED
      BY <3>1 DEF AheadInLine, LineInv
  <2>3. QED
    BY <1>1, <1>4, <1>5, <1>7, <2>1, <2>2 DEF MergeInv, NoneToCome, Gone, At, Sweepers, TypeOK, WorkerPcs
<1>11. QED
  BY <1>3, <1>5, <1>6, <1>9, <1>10

\* What was listed has exited.
LEMMA KilledKeepsInvariant ==
    ASSUME IInv, NEW c \in Sweepers, Killed(c)
    PROVE  IInv'
<1> USE DEF IInv
<1>1. /\ sweep[c].pc = "kill" /\ Dead(sweep[c].got)
      /\ sweep' = [sweep EXCEPT ![c].pc = "pop"] /\ line' = Append(line, Turn(c)) /\ Turn(c) \in Turns
      /\ UNCHANGED <<registry, alive, closed, worker, merge, admin, missed>>
  BY KindsOfTurns DEF Killed, Asks, Turn, processes
<1>2. TypeOK'
  <2>1. line' \in Seq(Turns)
    BY <1>1, AfterAsking DEF TypeOK
  <2>2. sweep' \in [Sweepers -> [pc : SweepPcs, got : SUBSET Handles]]
    BY <1>1 DEF TypeOK, SweepPcs
  <2>3. QED
    BY <1>1, <2>1, <2>2 DEF TypeOK
<1>3. /\ sweep'[c].pc = "pop" /\ sweep'[c].got = sweep[c].got
      /\ \A d \in Sweepers : d # c => sweep'[d] = sweep[d]
  BY <1>1 DEF TypeOK
<1>4. LineInv' /\ (AheadInLine => AheadInLine')
  BY <1>1, <1>3, SweepMovesLine
<1>5. HandleInv'
  BY <1>1 DEF HandleInv, HasProcess, Owns
<1>6. SweepInv'
  BY <1>1, <1>3 DEF SweepInv, Dead, At, Sweepers
<1>7. MergeInv'
  BY <1>1, <1>3, <1>4 DEF MergeInv, NoneToCome, Gone, Dead, At, Sweepers
<1>8. QED
  BY <1>2, <1>4, <1>5, <1>6, <1>7

\* What was listed is taken out of the registry.
LEMMA PopKeepsInvariant ==
    ASSUME IInv, NEW c \in Sweepers, Pop(c)
    PROVE  IInv'
<1> USE DEF IInv
<1>1. /\ sweep[c].pc = "pop" /\ Holds("sweep", c) /\ Release /\ registry' = Popped(c)
      /\ sweep' = [sweep EXCEPT ![c] = [pc |-> "over", got |-> {}]]
      /\ UNCHANGED <<alive, closed, worker, merge, admin, missed>>
  BY DEF Pop
<1>2. registry' \in [Workers -> 0..MaxHandles]
  BY <1>1 DEF Popped, TypeOK
<1>3. TypeOK'
  <2>1. line' \in Seq(Turns)
    BY <1>1, AfterRelease DEF TypeOK, Holds
  <2>2. sweep' \in [Sweepers -> [pc : SweepPcs, got : SUBSET Handles]]
    BY <1>1 DEF TypeOK, SweepPcs
  <2>3. QED
    BY <1>1, <1>2, <2>1, <2>2 DEF TypeOK
<1>4. /\ sweep'[c].pc = "over" /\ sweep'[c].got = {}
      /\ \A d \in Sweepers : d # c => sweep'[d] = sweep[d]
  BY <1>1 DEF TypeOK
<1>5. LineInv' /\ (AheadInLine => AheadInLine')
  BY <1>1, <1>4, SweepMovesLine
<1>6. Dead(sweep[c].got) /\ (c = "down" => closed /\ alive = {})
  BY <1>1 DEF SweepInv, Dead, Sweepers
<1>7. HandleInv'
  <2>1. \A w \in Workers, h \in alive : Owns(w, h) => Owns(w, h)'
    BY <1>1, <1>6 DEF Owns, Popped, Dead
  <2>2. QED
    BY <1>1, <2>1 DEF HandleInv, HasProcess
<1>8. SweepInv'
  BY <1>1, <1>4, <1>6 DEF SweepInv, Dead, At, Sweepers
<1>9. MergeInv'
  BY <1>1, <1>4, <1>5 DEF MergeInv, NoneToCome, Gone, At, Sweepers
<1>10. QED
  BY <1>3, <1>5, <1>7, <1>8, <1>9

\* Who left is passed over.
LEMMA PassedOverKeepsInvariant ==
    ASSUME IInv, NEW c \in Sweepers, PassedOver(c)
    PROVE  IInv'
<1> USE DEF IInv
<1>1. /\ sweep[c].pc = "left" /\ Holds("sweep", c) /\ Release
      /\ sweep' = [sweep EXCEPT ![c].pc = "over"]
      /\ UNCHANGED <<registry, alive, closed, worker, merge, admin, missed>>
  BY DEF PassedOver, processes
<1>2. TypeOK'
  <2>1. line' \in Seq(Turns)
    BY <1>1, AfterRelease DEF TypeOK, Holds
  <2>2. sweep' \in [Sweepers -> [pc : SweepPcs, got : SUBSET Handles]]
    BY <1>1 DEF TypeOK, SweepPcs
  <2>3. QED
    BY <1>1, <2>1, <2>2 DEF TypeOK
<1>3. /\ c = "merge" /\ merge = "left" /\ sweep'[c].pc = "over"
      /\ \A d \in Sweepers : d # c => sweep'[d] = sweep[d]
  BY <1>1 DEF TypeOK, SweepInv, MergeInv
<1>4. LineInv'
  BY <1>1, <1>3, SweepMovesLine
<1>5. HandleInv'
  BY <1>1 DEF HandleInv, HasProcess, Owns
<1>6. SweepInv'
  BY <1>1, <1>3 DEF SweepInv, Dead, At, Sweepers
<1>7. MergeInv'
  BY <1>1, <1>3 DEF MergeInv, Sweepers
<1>8. QED
  BY <1>2, <1>4, <1>5, <1>6, <1>7

-----------------------------------------------------------------------------
(***************************************************************************)
(* The callers.                                                            *)
(***************************************************************************)

\* A caller starts a sweep; what it does besides is left to MergeInv'.
LEMMA SweepBegins ==
    ASSUME IInv, NEW c \in Sweepers, sweep[c].pc = "idle", Sweeps(c),
           UNCHANGED <<processes, worker>>
    PROVE  /\ line' \in Seq(Turns) /\ sweep' \in [Sweepers -> [pc : SweepPcs, got : SUBSET Handles]]
           /\ LineInv' /\ HandleInv' /\ SweepInv' /\ (AheadInLine => AheadInLine')
           /\ sweep'[c].pc = "list" /\ \A d \in Sweepers : d # c => sweep'[d] = sweep[d]
<1> USE DEF IInv
<1>1. /\ sweep' = [sweep EXCEPT ![c] = [pc |-> "list", got |-> {}]]
      /\ line' = Append(line, Turn(c)) /\ Turn(c) \in Turns
      /\ UNCHANGED <<registry, alive, closed, worker>>
  BY KindsOfTurns DEF Sweeps, Asks, Turn, processes
<1>2. line' \in Seq(Turns)
  BY <1>1, AfterAsking DEF TypeOK
<1>3. sweep' \in [Sweepers -> [pc : SweepPcs, got : SUBSET Handles]]
  BY <1>1 DEF TypeOK, SweepPcs
<1>4. sweep'[c].pc = "list" /\ \A d \in Sweepers : d # c => sweep'[d] = sweep[d]
  BY <1>1 DEF TypeOK
<1>5. LineInv' /\ (AheadInLine => AheadInLine')
  BY <1>1, <1>4, SweepMovesLine
<1>6. HandleInv'
  BY <1>1 DEF HandleInv, HasProcess, Owns
<1>7. SweepInv'
  BY <1>1, <1>4 DEF SweepInv, Dead, At, Sweepers
<1>8. QED
  BY <1>2, <1>3, <1>4, <1>5, <1>6, <1>7

\* The caller of the merge cancels it.
LEMMA CancelOfMerge ==
    ASSUME IInv, MergeIsCancelled, UNCHANGED <<processes, worker>>,
           admin' \in {"idle", "sweep", "cancel", "gather", "over"},
           admin' = admin \/ admin' = "gather"
    PROVE  IInv'
<1> USE DEF IInv
<1>1. /\ merge = "watch" /\ merge' = "sweep" /\ missed' = At(Merger, "called") /\ Sweeps("merge")
      /\ sweep["merge"].pc = "idle" /\ "merge" \in Sweepers
      /\ line' = Append(line, Turn("merge")) /\ Turn("merge") \in Turns
  BY KindsOfTurns DEF MergeIsCancelled, MergeInv, Sweepers, Sweeps, Asks, Turn
<1>2. /\ line' \in Seq(Turns) /\ sweep' \in [Sweepers -> [pc : SweepPcs, got : SUBSET Handles]]
      /\ LineInv' /\ HandleInv' /\ SweepInv'
      /\ sweep'["merge"].pc = "list" /\ sweep'["admin"] = sweep["admin"]
  BY <1>1, SweepBegins DEF Sweepers
<1>3. TypeOK'
  <2>1. missed' \in BOOLEAN
    BY <1>1 DEF At
  <2>2. QED
    BY <1>1, <1>2, <2>1 DEF TypeOK, processes
<1>4. At(Merger, "queued") => AheadInLine'
  <2>1. /\ Len(line) \in Nat /\ Len(line') = Len(line) + 1
        /\ \A i \in 1..Len(line) : line'[i] = line[i]
        /\ line'[Len(line) + 1] = Turn("merge")
    BY <1>1, AfterAsking DEF TypeOK
  <2>2. SUFFICES ASSUME At(Merger, "queued") PROVE AheadInLine'
    OBVIOUS
  <2>3. PICK i \in 1..Len(line) : line[i] = Make(Merger)
    BY <2>2 DEF LineInv
  <2>4. i < Len(line) + 1 /\ i \in 1..Len(line') /\ Len(line) + 1 \in 1..Len(line')
    BY <2>1
  <2>5. \E k, j \in 1..Len(line') : k < j /\ line'[k] = Make(Merger) /\ line'[j] = Turn("merge")
    BY <2>1, <2>3, <2>4
  <2>6. QED
    BY <2>5 DEF AheadInLine, Make, Turn
<1>5. MergeInv'
  BY <1>1, <1>2, <1>4 DEF MergeInv, At
<1>6. QED
  BY <1>2, <1>3, <1>5

\* It is cancelled again while it does.
LEMMA SecondCancelOfMerge ==
    ASSUME IInv, CancelledAgain, UNCHANGED processes,
           admin' \in {"idle", "sweep", "cancel", "gather", "over"},
           admin' = admin \/ admin' = "gather"
    PROVE  IInv'
<1> USE DEF IInv
<1>1. CASE CancelsExecution
  BY <1>1, InterruptKeepsInvariant, MergerAssumption DEF CancelsExecution, CancelledAgain
<1>2. CASE LeavesSweep
  <2> DEFINE to == IF sweep["merge"].pc = "kill" THEN "over" ELSE "left"
  <2>1. /\ merge = "sweep" /\ sweep["merge"].pc \in {"list", "kill", "pop"} /\ merge' = "left"
        /\ sweep' = [sweep EXCEPT !["merge"] = [pc |-> to, got |-> {}]]
        /\ UNCHANGED <<line, registry, alive, closed, worker, missed>>
    BY <1>2 DEF LeavesSweep, CancelledAgain, processes
  <2>2. TypeOK'
    BY <2>1 DEF TypeOK, SweepPcs
  <2>3. /\ sweep'["merge"].pc = to /\ sweep'["merge"].got = {}
        /\ \A d \in Sweepers : d # "merge" => sweep'[d] = sweep[d]
    BY <2>1 DEF TypeOK, Sweepers
  <2>4. \A u \in Turns : Asking(u) => Asking(u)'
    BY <2>1, <2>3, KindsOfTurns DEF Asking
  <2>5. LineInv'
    BY <2>1, <2>4, LineStays DEF At
  <2>6. HandleInv'
    BY <2>1 DEF HandleInv, HasProcess, Owns
  <2>7. SweepInv'
    BY <2>1, <2>3 DEF SweepInv, Dead, At, Sweepers
  <2>8. MergeInv'
    BY <2>1, <2>3 DEF MergeInv, Sweepers
  <2>9. QED
    BY <2>2, <2>5, <2>6, <2>7, <2>8
<1>3. QED
  BY <1>1, <1>2 DEF CancelledAgain

\* The merge's task is made, ends, or is waited for.
LEMMA MergeKeepsInvariant ==
    ASSUME IInv, Merge \/ MergeStep
    PROVE  IInv'
<1> USE DEF IInv
<1>1. CASE Merge
  <2>1. /\ merge = "idle" /\ merge' = "watch" /\ worker' = [worker EXCEPT ![Merger].pc = "called"]
        /\ At(Merger, "idle")
        /\ UNCHANGED <<line, registry, alive, closed, sweep, admin, missed>>
    BY <1>1 DEF Merge, Calls, processes
  <2>2. TypeOK'
    BY <2>1 DEF TypeOK, WorkerPcs
  <2>3. /\ worker'[Merger].pc = "called" /\ worker'[Merger].handle = worker[Merger].handle
        /\ \A v \in Workers : v # Merger => worker'[v] = worker[v]
    BY <2>1 DEF TypeOK
  <2>4. \A u \in Turns : Asking(u) => Asking(u)'
    BY <2>1, <2>3, KindsOfTurns DEF Asking, At
  <2>5. LineInv'
    BY <2>1, <2>3, <2>4, LineStays DEF At
  <2>6. HandleInv'
    BY <2>1, <2>3 DEF HandleInv, HasProcess, Owns, At
  <2>7. SweepInv'
    BY <2>1, <2>3, SweepsStay DEF At
  <2>8. MergeInv'
    BY <2>1 DEF MergeInv
  <2>9. QED
    BY <2>2, <2>5, <2>6, <2>7, <2>8
<1>2. CASE MergeStep
  <2>1. /\ UNCHANGED <<line, registry, alive, closed, worker, sweep, admin, missed>>
        /\ \/ merge = "watch" /\ At(Merger, "idle") /\ merge' \in {"idle", "over"}
           \/ merge = "sweep" /\ sweep["merge"].pc = "over" /\ merge' = "gather"
           \/ merge = "gather" /\ At(Merger, "idle") /\ merge' = "over"
    BY <1>2 DEF MergeStep, MergeEnds, MergeSwept, MergeGathered, ExecutionIsOver, processes
  <2>2. TypeOK'
    BY <2>1 DEF TypeOK
  <2>3. LineInv' /\ HandleInv' /\ SweepInv'
    BY <2>1, LineStays, SweepsStay DEF Asking, At, HandleInv, HasProcess, Owns
  <2>4. MergeInv'
    BY <2>1 DEF MergeInv, NoneToCome, Gone, At, AheadInLine
  <2>5. QED
    BY <2>2, <2>3, <2>4
<1>3. QED
  BY <1>1, <1>2

\* The administrator, and the end of the program.
LEMMA CallersKeepInvariant ==
    ASSUME IInv, Shutdown \/ GrowthFails \/ CancelRunningJob \/ StopScheduler \/ CancelStep
    PROVE  IInv'
<1> USE DEF IInv
<1>1. CASE Shutdown
  <2>1. /\ "down" \in Sweepers /\ sweep["down"].pc = "idle" /\ Sweeps("down")
        /\ UNCHANGED <<processes, worker, merge, admin, missed>>
    BY <1>1 DEF Shutdown, Sweepers
  <2>2. /\ line' \in Seq(Turns) /\ sweep' \in [Sweepers -> [pc : SweepPcs, got : SUBSET Handles]]
        /\ LineInv' /\ HandleInv' /\ SweepInv' /\ (AheadInLine => AheadInLine')
        /\ sweep'["merge"] = sweep["merge"] /\ sweep'["admin"] = sweep["admin"]
    BY <2>1, SweepBegins DEF Sweepers
  <2>3. TypeOK'
    BY <2>1, <2>2 DEF TypeOK, processes
  <2>4. MergeInv'
    BY <2>1, <2>2 DEF MergeInv, NoneToCome, Gone, At, processes
  <2>5. QED
    BY <2>2, <2>3, <2>4
<1>2. CASE GrowthFails
  BY <1>2, CancelOfMerge DEF GrowthFails, TypeOK
<1>3. CASE CancelRunningJob
  <2>1. /\ "admin" \in Sweepers /\ sweep["admin"].pc = "idle" /\ Sweeps("admin") /\ admin' = "sweep"
        /\ UNCHANGED <<processes, worker, merge, missed>>
    BY <1>3 DEF CancelRunningJob, MergeInv, Sweepers
  <2>2. /\ line' \in Seq(Turns) /\ sweep' \in [Sweepers -> [pc : SweepPcs, got : SUBSET Handles]]
        /\ LineInv' /\ HandleInv' /\ SweepInv' /\ (AheadInLine => AheadInLine')
        /\ sweep'["merge"] = sweep["merge"]
    BY <2>1, SweepBegins DEF Sweepers
  <2>3. TypeOK'
    BY <2>1, <2>2 DEF TypeOK, processes
  <2>4. MergeInv'
    BY <2>1, <2>2 DEF MergeInv, NoneToCome, Gone, At, processes
  <2>5. QED
    BY <2>2, <2>3, <2>4
<1>4. CASE CancelTask
  <2>1. CASE MergeIsCancelled /\ UNCHANGED worker
    BY <1>4, <2>1, CancelOfMerge DEF CancelTask
  <2>2. CASE CancelledAgain
    BY <1>4, <2>2, SecondCancelOfMerge DEF CancelTask
  <2>3. CASE /\ merge \in {"idle", "over", "left"} /\ UNCHANGED <<line, worker, sweep, missed>>
             /\ merge' = IF merge = "idle" THEN "over" ELSE merge
    <3>1. /\ admin = "sweep" /\ admin' = "gather"
          /\ UNCHANGED <<line, registry, alive, closed, worker, sweep, missed>>
      BY <1>4, <2>3 DEF CancelTask, processes
    <3>2. TypeOK'
      BY <2>3, <3>1 DEF TypeOK
    <3>3. LineInv' /\ HandleInv' /\ SweepInv'
      BY <3>1, LineStays, SweepsStay DEF Asking, At, HandleInv, HasProcess, Owns
    <3>4. MergeInv'
      BY <2>3, <3>1 DEF MergeInv, NoneToCome, Gone, At, AheadInLine
    <3>5. QED
      BY <3>2, <3>3, <3>4
  <2>4. QED
    BY <1>4, <2>1, <2>2, <2>3 DEF CancelTask
<1>5. CASE JobGathered
  <2>1. /\ admin = "gather" /\ merge \in {"over", "left"} /\ admin' = "over"
        /\ UNCHANGED <<line, registry, alive, closed, worker, sweep, merge, missed>>
    BY <1>5 DEF JobGathered, processes
  <2>2. TypeOK'
    BY <2>1 DEF TypeOK
  <2>3. LineInv' /\ HandleInv' /\ SweepInv'
    BY <2>1, LineStays, SweepsStay DEF Asking, At, HandleInv, HasProcess, Owns
  <2>4. MergeInv'
    BY <2>1 DEF MergeInv, NoneToCome, Gone, At, AheadInLine
  <2>5. QED
    BY <2>2, <2>3, <2>4
<1>6. CASE StopScheduler
  BY <1>6, SecondCancelOfMerge DEF StopScheduler, TypeOK
<1>7. QED
  BY <1>1, <1>2, <1>3, <1>4, <1>5, <1>6 DEF CancelStep

-----------------------------------------------------------------------------
(***************************************************************************)
(* The theorems.                                                           *)
(***************************************************************************)

\* At first nobody has asked for anything.
LEMMA AtFirst == Init => IInv
<1>1. SUFFICES ASSUME Init PROVE IInv
  OBVIOUS
<1>2. TypeOK
  <2>1. line \in Seq(Turns) /\ alive \subseteq Handles
    BY <1>1 DEF Init
  <2>2. registry \in [Workers -> 0..MaxHandles]
    BY <1>1 DEF Init
  <2>3. worker \in [Workers -> [pc : WorkerPcs, handle : 0..MaxHandles, cancelled : BOOLEAN]]
    BY <1>1 DEF Init, Idle, WorkerPcs
  <2>4. sweep \in [Sweepers -> [pc : SweepPcs, got : SUBSET Handles]]
    BY <1>1 DEF Init, NoSweep, SweepPcs
  <2>5. QED
    BY <1>1, <2>1, <2>2, <2>3, <2>4 DEF Init, TypeOK
<1>3. LineInv
  BY <1>1 DEF Init, LineInv, At, Idle
<1>4. HandleInv /\ SweepInv
  BY <1>1 DEF Init, HandleInv, HasProcess, SweepInv, Idle, NoSweep, Sweepers
<1>5. MergeInv
  BY <1>1 DEF Init, MergeInv, At, Idle, NoSweep, Sweepers
<1>6. QED
  BY <1>2, <1>3, <1>4, <1>5 DEF IInv

\* Every step keeps the invariant.
LEMMA InvariantIsKept == IInv /\ [Next]_vars => IInv'
<1>1. SUFFICES ASSUME IInv, [Next]_vars PROVE IInv'
  OBVIOUS
<1>2. CASE UNCHANGED vars
  <2>1. UNCHANGED <<line, registry, alive, closed, worker, sweep, merge, admin, missed>>
    BY <1>2 DEF vars, processes
  <2>2. TypeOK'
    BY <1>1, <2>1 DEF IInv, TypeOK
  <2>3. LineInv' /\ HandleInv' /\ SweepInv'
    BY <1>1, <2>1, LineStays, SweepsStay DEF IInv, Asking, At, HandleInv, HasProcess, Owns
  <2>4. MergeInv'
    BY <1>1, <2>1 DEF IInv, MergeInv, NoneToCome, Gone, At, AheadInLine
  <2>5. QED
    BY <2>2, <2>3, <2>4 DEF IInv
<1>3. ASSUME NEW w \in Workers, Call(w) \/ WorkerStep(w) \/ Interrupt(w) PROVE IInv'
  <2>1. CASE Call(w) \/ Queue(w)
    BY <1>1, <2>1, QueueingKeepsInvariant DEF Call, Queue
  <2>2. CASE Enter(w)
    BY <1>1, <2>2, EnterKeepsInvariant
  <2>3. CASE Create(w)
    BY <1>1, <2>3, CreateKeepsInvariant
  <2>4. CASE RunEnds(w)
    BY <1>1, <2>4, RunKeepsInvariant
  <2>5. CASE Reap(w)
    BY <1>1, <2>5, ReapKeepsInvariant
  <2>6. CASE Unregister(w)
    BY <1>1, <2>6, UnregisterKeepsInvariant
  <2>7. CASE Interrupt(w)
    BY <1>1, <2>7, InterruptKeepsInvariant DEF Interrupt, IInv, TypeOK
  <2>8. QED
    BY <1>3, <2>1, <2>2, <2>3, <2>4, <2>5, <2>6, <2>7 DEF WorkerStep
<1>4. ASSUME NEW h \in Handles, Exit(h) PROVE IInv'
  BY <1>1, <1>4, ExitKeepsInvariant
<1>5. ASSUME NEW c \in Sweepers, SweepStep(c) PROVE IInv'
  BY <1>1, <1>5, ListKeepsInvariant, KilledKeepsInvariant, PopKeepsInvariant,
     PassedOverKeepsInvariant DEF SweepStep
<1>6. CASE Merge \/ MergeStep
  BY <1>1, <1>6, MergeKeepsInvariant
<1>7. CASE Shutdown \/ GrowthFails \/ CancelRunningJob \/ StopScheduler \/ CancelStep
  BY <1>1, <1>7, CallersKeepInvariant
<1>8. QED
  BY <1>1, <1>2, <1>3, <1>4, <1>5, <1>6, <1>7 DEF Next

\* The invariant of the supervisor and its callers, over all their steps.
THEOREM InvariantHolds == Spec => []IInv
BY AtFirst, InvariantIsKept, PTL DEF Spec

\* However spawning, cancelling, sweeping and shutting down interleave, every
\* live process has the coroutine that will reap it, and the registry shows it.
THEOREM EveryProcessIsOwned == Spec => []NothingIsOrphaned
<1>1. IInv => NothingIsOrphaned
  <2>1. SUFFICES ASSUME IInv, NEW h \in alive PROVE
          /\ \E w \in Workers : Owner(h) = {w} /\ registry[w] = h
          /\ \A w \in Owner(h) : worker[w].pc \in {"running", "reaping"}
    BY DEF NothingIsOrphaned
  <2>2. PICK w \in Workers : Owns(w, h)
    BY <2>1 DEF IInv, HandleInv
  <2>3. \A v \in Workers : v # w => worker[v].handle # h
    BY <2>1, <2>2 DEF IInv, HandleInv, HasProcess, Owns
  <2>4. Owner(h) = {w}
    BY <2>2, <2>3 DEF Owner, Owns
  <2>5. QED
    BY <2>2, <2>4 DEF Owns
<1>2. QED
  BY <1>1, InvariantHolds, PTL

\* Once shutdown has ended nothing is alive; a cancel that has ended has left no
\* process of its job, unless it was the second cancel of a caller that was in
\* cancel_job; and a caller that cancels its merge does not wait for all of it,
\* unless it was cancelled before the merge had asked for the lock.
THEOREM GoneMeansGone == Spec => []GoneWhenTold
<1>1. IInv => GoneWhenTold
  <2>1. SUFFICES ASSUME IInv PROVE GoneWhenTold
    OBVIOUS
  <2>2. TypeOK /\ ShutdownIsFinal /\ CancelledMergeIsTerminated
    BY <2>1 DEF IInv, SweepInv, MergeInv, Gone, ShutdownIsFinal, CancelledMergeIsTerminated
  <2>3. CancelledMeansGone
    <3>1. admin = "over" /\ merge # "left" => worker[Merger].handle = 0
      BY <2>1 DEF IInv, MergeInv, HandleInv, HasProcess, At
    <3>2. 0 \notin alive
      BY <2>2 DEF TypeOK, Handles
    <3>3. QED
      BY <3>1, <3>2 DEF CancelledMeansGone
  <2>4. QED
    BY <2>2, <2>3 DEF GoneWhenTold
<1>2. QED
  BY <1>1, InvariantHolds, PTL

=============================================================================
