----------------------------- MODULE HttpResume -----------------------------
(***************************************************************************)
(* The download of one source asset over HTTP (_download_http and          *)
(* _download_http_once): a part file, a state file that says which version *)
(* of the source the part was taken from, retries, and a later attempt by  *)
(* another run of the program that goes on where the part ends.            *)
(*                                                                         *)
(* A version of the source is its validator.  The source may change at any *)
(* time; the server may honour or ignore Range and If-Range, and may send  *)
(* no validator.  What it sends has an end that the client recognises.     *)
(* resume_enabled is on, as it is by default.                              *)
(***************************************************************************)
EXTENDS Naturals, Sequences

CONSTANTS
    Length,      \* chunks of the asset, in every version
    MaxRetries,  \* settings.max_retries
    MaxChanges,  \* bound: changes of the source
    MaxStops     \* bound: shutdowns and crashes

ASSUME LengthAssumption == Length \in Nat \ {0}
ASSUME BoundsAssumption ==
    MaxRetries \in Nat /\ MaxChanges \in Nat /\ MaxStops \in Nat

VARIABLES
    source,   \* the version the server has
    part,     \* the part file: the version each chunk was taken from
    saved,    \* the state file's validator
    output,   \* the finished file
    pc,       \* where the download is
    reply,    \* the answer being read: its version, validator, append or not
    attempt,  \* the loop variable of _download_http
    stops,    \* history: shutdowns and crashes so far
    torn      \* history: one fell between the state file and the truncation

downloadVars == <<source, part, saved, output, pc, reply, attempt, stops, torn>>

Versions == 0..MaxChanges
None == MaxChanges + 1          \* no state file, or no validator in it
Validators == Versions \cup {None}
NoReply == [version |-> 0, validator |-> None, append |-> FALSE]

Pcs == {"idle", "asked", "opening", "streaming", "whole", "renamed",
        "down", "done", "failed"}

DownloadTypeOK ==
    /\ source \in Versions
    /\ part \in Seq(Versions) /\ Len(part) <= Length
    /\ saved \in Validators
    /\ output \in Seq(Versions)
    /\ pc \in Pcs
    /\ reply \in [version : Versions, validator : Validators, append : BOOLEAN]
    /\ attempt \in 0..MaxRetries
    /\ stops \in 0..MaxStops
    /\ torn \in BOOLEAN

DownloadInit ==
    /\ source = 0
    /\ part = <<>>
    /\ saved = None
    /\ output = <<>>
    /\ pc = "idle"
    /\ reply = NoReply
    /\ attempt = 0
    /\ stops = 0
    /\ torn = FALSE

-----------------------------------------------------------------------------
(***************************************************************************)
(* One attempt                                                             *)
(***************************************************************************)

\* Without a validator the part is of no use.
Offset == IF saved = None THEN 0 ELSE Len(part)

\* The request is sent, with Range and If-Range when there is a part.
Ask ==
    /\ pc = "idle"
    /\ pc' = "asked"
    /\ UNCHANGED <<source, part, saved, output, reply, attempt, stops, torn>>

\* The job fails: its directory is removed.
Fail ==
    /\ pc' = "failed"
    /\ part' = <<>>
    /\ saved' = None
    /\ UNCHANGED <<source, output, reply, attempt, stops, torn>>

\* Mutated form: a partial answer is taken whatever it is a part of.
ChangedIgnored(append, validator) == FALSE

\* "Source changed while resuming": a partial answer must be of the version
\* the part was taken from.
Changed(append, validator) == append /\ validator # saved

\* The headers arrive: a whole answer, or a partial one from the offset on.
\* The state file is written before the part file is opened.
Answer ==
    /\ pc = "asked"
    /\ \E append \in (IF 0 < Offset /\ Offset < Length THEN BOOLEAN ELSE {FALSE}),
         validator \in {source, None} :
          /\ ~Changed(append, validator)
          /\ reply' = [version |-> source, validator |-> validator, append |-> append]
          /\ saved' = validator
    /\ pc' = "opening"
    /\ UNCHANGED <<source, part, output, attempt, stops, torn>>

\* The answer is an error (416 for a part that is whole already), has another
\* range than the one asked for, or is of another version.
Refused ==
    /\ pc = "asked"
    /\ Fail

\* The part file is opened "ab" or "wb", without an await since the headers.
Opened(append) == IF append THEN part ELSE <<>>

OpenPart ==
    /\ pc = "opening"
    /\ part' = Opened(reply.append)
    /\ pc' = "streaming"
    /\ UNCHANGED <<source, saved, output, reply, attempt, stops, torn>>

Receive ==
    /\ pc = "streaming"
    /\ Len(part) < Length
    /\ part' = Append(part, reply.version)
    /\ UNCHANGED <<source, saved, output, pc, reply, attempt, stops, torn>>

\* The size limit, the disk, or too few bytes: an error that is not retried.
ReceiveFails ==
    /\ pc = "streaming"
    /\ Fail

\* All the announced bytes arrived.
EndOfBody(n) == n = Length

Whole ==
    /\ pc = "streaming"
    /\ EndOfBody(Len(part))
    /\ pc' = "whole"
    /\ UNCHANGED <<source, part, saved, output, reply, attempt, stops, torn>>

\* part.replace(output_path), then the state file is removed.
Rename ==
    /\ pc = "whole"
    /\ output' = part
    /\ part' = <<>>
    /\ pc' = "renamed"
    /\ UNCHANGED <<source, saved, reply, attempt, stops, torn>>

Finish ==
    /\ pc = "renamed"
    /\ saved' = None
    /\ pc' = "done"
    /\ UNCHANGED <<source, part, output, reply, attempt, stops, torn>>

\* Mutated form: attempts are not counted.
NextAttemptUncounted == attempt

MayRetry == attempt < MaxRetries
NextAttempt == attempt + 1

\* A connection error or a timeout: the attempt is made again, from the files.
Retry ==
    /\ pc \in {"asked", "streaming"}
    /\ MayRetry
    /\ attempt' = NextAttempt
    /\ pc' = "idle"
    /\ UNCHANGED <<source, part, saved, output, reply, stops, torn>>

GiveUp ==
    /\ pc \in {"asked", "streaming"}
    /\ ~MayRetry
    /\ Fail

-----------------------------------------------------------------------------
(***************************************************************************)
(* The source, the process                                                 *)
(***************************************************************************)
Change ==
    /\ source < MaxChanges
    /\ source' = source + 1
    /\ UNCHANGED <<part, saved, output, pc, reply, attempt, stops, torn>>

\* A shutdown cancels the download at one of its awaits.
Stop ==
    /\ pc \in {"idle", "asked", "streaming"}
    /\ stops < MaxStops
    /\ stops' = stops + 1
    /\ pc' = "down"
    /\ UNCHANGED <<source, part, saved, output, reply, attempt, torn>>

\* The process dies anywhere; in the middle of writing the state file it leaves
\* one that cannot be read.  It tears the files apart between the state file
\* and a part file that is about to be truncated.
Crash ==
    /\ pc \notin {"down", "done", "failed"}
    /\ stops < MaxStops
    /\ stops' = stops + 1
    /\ pc' = "down"
    /\ saved' \in (IF pc = "asked" THEN {saved, None} ELSE {saved})
    /\ torn' = (torn \/ (pc = "opening" /\ ~reply.append /\ part # <<>>))
    /\ UNCHANGED <<source, part, output, reply, attempt>>

\* The next run of the program downloads again, unless the file is there.
Restart ==
    /\ pc = "down"
    /\ attempt' = 0
    /\ pc' = IF output = <<>> THEN "idle" ELSE "done"
    /\ UNCHANGED <<source, part, saved, output, reply, stops, torn>>

-----------------------------------------------------------------------------
Download ==
    \/ Ask \/ Answer \/ Refused \/ OpenPart \/ Receive \/ ReceiveFails
    \/ Whole \/ Rename \/ Finish \/ Retry \/ GiveUp \/ Restart

DownloadNext == Download \/ Change \/ Stop \/ Crash

DownloadSpec == DownloadInit /\ [][DownloadNext]_downloadVars

\* Every answer and every chunk arrives or times out; the process is started
\* again after a stop.
FairSpec == DownloadSpec /\ WF_downloadVars(Download)

-----------------------------------------------------------------------------
(***************************************************************************)
(* Properties                                                              *)
(***************************************************************************)
OfOneVersion(file) == \A i, j \in DOMAIN file : file[i] = file[j]

\* The finished file is whole and never spliced from two versions of the
\* source, whatever changes, retries and restarts it took, unless the process
\* died in the instant between the state file and the part file.
ExactUnlessTorn == output # <<>> => Len(output) = Length /\ (torn \/ OfOneVersion(output))

\* What the code says of itself: it streams "an exact auxiliary source asset".
Exact == output # <<>> => OfOneVersion(output)

\* The download comes to an end.
DownloadEnds == <>(pc \in {"done", "failed"})

\* The inductive invariant: the part file is of the version that the state
\* file names, when somebody is going to rely on it.
PartOf(version) == \A i \in DOMAIN part : part[i] = version
PartInv ==
    ~torn =>
        /\ saved # None /\ pc # "opening" => PartOf(saved)
        /\ pc = "opening" =>
              saved = reply.validator /\ (reply.append => saved = reply.version /\ PartOf(saved))
        /\ pc \in {"streaming", "whole"} =>
              saved = reply.validator /\ saved \in {reply.version, None} /\ PartOf(reply.version)
        /\ OfOneVersion(output)
LengthInv ==
    /\ pc = "whole" => Len(part) = Length
    /\ pc \in {"opening", "streaming"} => saved \in {reply.version, None}
    /\ output # <<>> => Len(output) = Length
    /\ output # <<>> => pc \in {"renamed", "down", "done"}

DownloadInv == DownloadTypeOK /\ PartInv /\ LengthInv

=============================================================================
