---------------------------- MODULE MCScheduler ----------------------------
(* Instances of SchedulerSystem for TLC.                                   *)
EXTENDS SchedulerSystem, TLC

CONSTANTS a1, a2, b1, b2, c1, alice, bob, carol

\* Three principals share a priority; alice has more work there than the others.
TwoPriorities == (a1 :> 1 @@ a2 :> 1 @@ b1 :> 1 @@ b2 :> 2 @@ c1 :> 1)
Owners        == (a1 :> alice @@ a2 :> alice @@ b1 :> bob @@ b2 :> bob @@ c1 :> carol)

=============================================================================
