--------------------------- MODULE MCJobLifecycle ---------------------------
(***************************************************************************)
(* JobLifecycle for TLC.  Recipients differ in nothing but their name, so  *)
(* they may be permuted in runs that check no liveness.                    *)
(***************************************************************************)
EXTENDS JobContract, TLC

RecipientSymmetry == Permutations(Recipients)
=============================================================================
