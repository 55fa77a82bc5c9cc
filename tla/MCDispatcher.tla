---------------------------- MODULE MCDispatcher ----------------------------
EXTENDS Dispatcher, TLC

CONSTANTS u1, u2, a, b, c

\* One user with two jobs, one with a single one.
OwnerOfThree == (a :> u1 @@ b :> u1 @@ c :> u2)

=============================================================================
