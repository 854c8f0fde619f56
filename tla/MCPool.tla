------------------------------- MODULE MCPool -------------------------------
(***************************************************************************)
(* Instances of Pool for TLC.                                              *)
(***************************************************************************)
EXTENDS Pool, TLC

CONSTANTS a, b, c   \* the tasks

FlatPriority == [t \in Tasks |-> 0]
\* b overtakes the others in the backlog.
UrgentB == [t \in Tasks |-> IF t = b THEN 0 ELSE 1]

NoShutdown == {}
AllModes == [wait : BOOLEAN, cancel : BOOLEAN]

TaskSymmetry == Permutations(Tasks)

=============================================================================
