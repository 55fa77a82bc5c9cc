---------------------------- MODULE MCAdmission -----------------------------
(***************************************************************************)
(* Admission for TLC.  All names may be permuted: no liveness is checked.  *)
(***************************************************************************)
EXTENDS Admission, TLC

CONSTANTS u1, m1, m2, o1, o2, j1, j2, p1, p2

\* Both messages are in the chat of one user.
OneOwner == (m1 :> u1) @@ (m2 :> u1)

Names == Permutations(Messages) \cup Permutations(Outputs)
         \cup Permutations(Jobs) \cup Permutations(Presses)
=============================================================================
