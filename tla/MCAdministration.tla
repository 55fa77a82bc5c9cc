--------------------------- MODULE MCAdministration ---------------------------
(* Two or three presses of administrators, one numeric setting with two    *)
(* values, the resource mode, two site login sessions, one configured      *)
(* administrator and one other user.                                       *)
EXTENDS Administration, TLC

CONSTANTS p1, p2, p3

MCPresses == {p1, p2, p3}
MCBootstrap == [k \in {Limit, Mode} |-> 1]
Symmetric == Permutations(MCPresses)
===============================================================================
