---------------------------- MODULE JobContract -----------------------------
(***************************************************************************)
(* The job lifecycle keeps the delivery contract.                          *)
(*                                                                         *)
(* A job is open while it is active; once the process is going down or is  *)
(* down, only if recovery is going to carry it on for somebody.            *)
(***************************************************************************)
EXTENDS JobLifecycle

Phase == IF status \in Active /\ (mode = "up" \/ Waiting # {}) THEN "open" ELSE "closed"
Served == {r \in Recipients : sent[r] > 0}

Contract == INSTANCE DeliveryContract
            WITH outcome <- sub, phase <- Phase, got <- Served

\* Every behaviour of the job, with its races, cancels, sweeps, shutdowns,
\* crashes and recoveries, is one of the contract: outcomes are final,
\* nobody joins a job that closed, nobody is told "delivered" for nothing.
KeepsContract == Contract!Spec

\* What the refinement rests on beside the lifecycle's own invariant: a job
\* has a recipient, and a finished job that the interruption of its task is
\* about to queue again has nobody waiting and a process on its way down.
ContractInv ==
    /\ Known # {}
    /\ pc \in {"reread", "notify_end"} /\ status = "failed" => Waiting = {}
    /\ pc \in {"requeue_read", "requeue_save"} /\ status \in {"completed", "failed"}
          => mode # "up" /\ Waiting = {}

=============================================================================
