---------------------------- MODULE StageLeases ----------------------------
(***************************************************************************)
(* Admission to one stage by leases (resources/governor.py), and those who *)
(* ask for them.  A client samples the resources off the event loop, and   *)
(* then compares the active leases with the limit, in one piece: the lock  *)
(* of the governor is never held over an await.  A client that is denied   *)
(* asks again later: an analysis polls, a job goes back to the queue.      *)
(*                                                                         *)
(* The limit follows the samples one slot at a time; the administrator may *)
(* set a ceiling at any time.  A sample is its outcome: the raw limit that *)
(* adaptive_limits computes from it, and whether the pressure check passes *)
(* (in manual mode it is ignored, which is passing).                       *)
(***************************************************************************)
EXTENDS Integers, FiniteSets

CONSTANTS
    Prompt,    \* clients that enter the lease's context as they get it
    Batch,     \* items of a batch of links: they publish their state first
    MaxRaw     \* bound: the largest limit a sample allows

Clients == Prompt \cup Batch

ASSUME ClientsAssumption == IsFiniteSet(Clients)
ASSUME DisjointAssumption == Prompt \cap Batch = {}
ASSUME MaxRawAssumption == MaxRaw \in Nat \ {0}

VARIABLES
    active,   \* ResourceGovernor._active_counts of the stage
    stable,   \* ResourceGovernor._stable_limits of the stage, Unset at first
    cooled,   \* five seconds passed since the last change of stable
    ceiling,  \* the configured ceiling; 0 is automatic
    leaked,   \* history: leases nobody will ever release
    at        \* where each client is

leaseVars == <<active, stable, cooled, ceiling, leaked, at>>

Unset == 0
Limits == 1..MaxRaw
Pcs == {"idle", "sampling", "waiting", "publishing", "inside"}

LeaseTypeOK ==
    /\ active \in 0..MaxRaw
    /\ stable \in Limits \cup {Unset}
    /\ cooled \in BOOLEAN
    /\ ceiling \in 0..MaxRaw
    /\ leaked \in Nat
    /\ at \in [Clients -> Pcs]

LeaseInit ==
    /\ active = 0
    /\ stable = Unset
    /\ cooled = TRUE
    /\ ceiling = 0
    /\ leaked = 0
    /\ at = [c \in Clients |-> "idle"]

MoveTo(c, place) == at' = [at EXCEPT ![c] = place]

-----------------------------------------------------------------------------
(***************************************************************************)
(* The governor                                                            *)
(***************************************************************************)
\* One slot towards the raw limit.
Towards(raw) ==
    CASE raw > stable -> stable + 1
      [] raw < stable -> stable - 1
      [] OTHER -> stable

Stabilised(raw) ==
    IF stable = Unset THEN raw ELSE IF cooled THEN Towards(raw) ELSE stable

\* Mutated form: the ceiling only steers the target of the next changes.
EffectiveEventually(limit) == limit

\* A lowered ceiling counts at once.
Effective(limit) == IF ceiling # 0 /\ ceiling < limit THEN ceiling ELSE limit

Adapts(raw) ==
    /\ stable' = Stabilised(raw)
    /\ cooled' = (cooled /\ stable = Unset)

HasSlot(limit) == active < limit

\* Mutated form: leaving the context does not count down.
ReleasedNever == active

\* register_stage_end.
Released == IF active > 0 THEN active - 1 ELSE 0

-----------------------------------------------------------------------------
(***************************************************************************)
(* The clients                                                             *)
(***************************************************************************)
\* acquire_stage is called: by a new request, by a poll, by a job dispatched
\* again.
Ask(c) ==
    /\ at[c] \in {"idle", "waiting"}
    /\ MoveTo(c, "sampling")
    /\ UNCHANGED <<active, stable, cooled, ceiling, leaked>>

\* The protected disk headroom is checked before the sample.
DiskIsLow(c) ==
    /\ at[c] = "idle"
    /\ MoveTo(c, "waiting")
    /\ UNCHANGED <<active, stable, cooled, ceiling, leaked>>

\* The sample is there: the limits adapt to it, and the client is admitted or
\* denied.
Decide(c, raw, ok) ==
    /\ at[c] = "sampling"
    /\ Adapts(raw)
    /\ \/ /\ ok /\ HasSlot(Effective(Stabilised(raw)))
          /\ active' = active + 1
          /\ MoveTo(c, IF c \in Batch THEN "publishing" ELSE "inside")
       \/ /\ ~(ok /\ HasSlot(Effective(Stabilised(raw))))
          /\ MoveTo(c, "waiting")
          /\ UNCHANGED active
    /\ UNCHANGED <<ceiling, leaked>>

\* scheduler_capacity adapts the limits too.
Sample(raw) ==
    /\ Adapts(raw)
    /\ UNCHANGED <<active, ceiling, leaked, at>>

\* A batch item has the lease; it saves and shows "analyzing" before it
\* enters the context of the lease.
Publish(c) ==
    /\ at[c] = "publishing"
    /\ MoveTo(c, "inside")
    /\ UNCHANGED <<active, stable, cooled, ceiling, leaked>>

\* The save fails, or the batch is cancelled: the lease is dropped unreleased.
PublishFails(c) ==
    /\ at[c] = "publishing"
    /\ MoveTo(c, "idle")
    /\ leaked' = leaked + 1
    /\ UNCHANGED <<active, stable, cooled, ceiling>>

\* The context ends: normally, with an error or cancelled.
EndStage(c) ==
    /\ at[c] = "inside"
    /\ active' = Released
    /\ MoveTo(c, "idle")
    /\ UNCHANGED <<stable, cooled, ceiling, leaked>>

\* Cancelled without a lease: by a user, a shutdown, or access that is revoked.
Leave(c) ==
    /\ at[c] \in {"sampling", "waiting"}
    /\ MoveTo(c, "idle")
    /\ UNCHANGED <<active, stable, cooled, ceiling, leaked>>

-----------------------------------------------------------------------------
SetCeiling(n) ==
    /\ ceiling' = n
    /\ UNCHANGED <<active, stable, cooled, leaked, at>>

Cool ==
    /\ ~cooled
    /\ cooled' = TRUE
    /\ UNCHANGED <<active, stable, ceiling, leaked, at>>

LeaseNext ==
    \/ \E c \in Clients :
          \/ Ask(c) \/ DiskIsLow(c) \/ Publish(c) \/ PublishFails(c)
          \/ EndStage(c) \/ Leave(c)
          \/ \E raw \in Limits, ok \in BOOLEAN : Decide(c, raw, ok)
    \/ \E raw \in Limits : Sample(raw)
    \/ \E n \in 0..MaxRaw : SetCeiling(n)
    \/ Cool

LeaseSpec == LeaseInit /\ [][LeaseNext]_leaseVars

\* A client that waits asks again; every sample arrives, and again and again
\* without pressure; publishing and the work of a stage are bounded by
\* timeouts.
FairSpec ==
    /\ LeaseSpec
    /\ \A c \in Clients :
          /\ WF_leaseVars(at[c] = "waiting" /\ Ask(c))
          /\ SF_leaseVars(\E raw \in Limits : Decide(c, raw, TRUE))
          /\ WF_leaseVars(Publish(c) \/ PublishFails(c))
          /\ WF_leaseVars(EndStage(c))

-----------------------------------------------------------------------------
(***************************************************************************)
(* Properties                                                              *)
(***************************************************************************)
Holders == {c \in Clients : at[c] \in {"publishing", "inside"}}

\* The count that admissions are decided by is the number of leases out, those
\* included that a failed publication dropped: no end of a context is counted
\* twice or not at all, so that nobody is admitted beyond the limit.
ActiveIsExact == active = Cardinality(Holders) + leaked

\* A ceiling lowered while a client waits for its sample binds that client:
\* nobody is admitted beyond the ceiling of the moment.
CeilingBindsAdmission ==
    [][active' > active => ceiling = 0 \/ active' <= ceiling]_leaseVars

\* As long as no lease is dropped the stage never comes to a standstill: while
\* somebody waits and does not leave, somebody gets to work.
StageNeverStalls ==
    \A c \in Clients :
        at[c] = "waiting" ~>
            at[c] = "idle" \/ leaked > 0 \/ \E d \in Clients : at[d] = "inside"

\* "Every acquired lease releases": nothing is counted that nobody holds.
EveryLeaseReleases == active = Cardinality(Holders)

=============================================================================
