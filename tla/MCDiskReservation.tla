------------------------- MODULE MCDiskReservation --------------------------
(***************************************************************************)
(* DiskReservation for TLC.  Jobs differ in nothing but their name.        *)
(***************************************************************************)
EXTENDS DiskReservation, TLC

JobSymmetry == Permutations(Jobs)
=============================================================================
