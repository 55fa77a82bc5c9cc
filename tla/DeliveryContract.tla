-------------------------- MODULE DeliveryContract --------------------------
(***************************************************************************)
(* What a shared download promises the people who asked for it, whatever   *)
(* happens to its task, its files and the process that runs it:            *)
(*   - as long as the download is open, more people may ask for it;        *)
(*   - whoever asked is waiting until told one outcome, which is final;    *)
(*   - "delivered" is only said to somebody who got the media;             *)
(*   - a download that closed stays closed to newcomers.                   *)
(* JobContract shows that the job lifecycle keeps the promise.             *)
(***************************************************************************)
CONSTANT Recipients

VARIABLES
    outcome,  \* of each recipient: absent, waiting, or how it ended
    phase,    \* open or closed to newcomers
    got       \* the recipients Telegram took the media for

vars == <<outcome, phase, got>>

Settled == {"delivered", "failed", "cancelled"}
WaitingFor == {r \in Recipients : outcome[r] = "waiting"}

Init ==
    /\ \E r \in Recipients :
          outcome = [q \in Recipients |-> IF q = r THEN "waiting" ELSE "absent"]
    /\ phase = "open"
    /\ got = {}

Ask(r) ==
    /\ phase = "open"
    /\ outcome[r] = "absent"
    /\ outcome' = [outcome EXCEPT ![r] = "waiting"]
    /\ UNCHANGED <<phase, got>>

\* The media goes out to somebody who asked, perhaps too late to matter.
Serve(r) ==
    /\ outcome[r] # "absent"
    /\ got' = got \cup {r}
    /\ UNCHANGED <<outcome, phase>>

\* Waiting recipients are told an outcome; that may close the download.
Settle(S, o) ==
    /\ S # {} /\ S \subseteq WaitingFor
    /\ o = "delivered" => S \subseteq got
    /\ outcome' = [r \in Recipients |-> IF r \in S THEN o ELSE outcome[r]]
    /\ phase' \in {phase, "closed"}
    /\ UNCHANGED got

Close ==
    /\ phase = "open"
    /\ phase' = "closed"
    /\ UNCHANGED <<outcome, got>>

Next ==
    \/ \E r \in Recipients : Ask(r) \/ Serve(r)
    \/ \E S \in SUBSET Recipients, o \in Settled : Settle(S, o)
    \/ Close

Spec == Init /\ [][Next]_vars

=============================================================================
