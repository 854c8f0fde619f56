------------------------------ MODULE MCBroker ------------------------------
(* Instances of Broker for TLC.                                            *)
EXTENDS Broker, TLC

CONSTANTS a, b, c, s1, s2, alice

\* Requests a and b of one session, c of another; all of one priority.
Flat      == [r \in Items |-> 1]
Submitter == [r \in Items |-> IF r \in {a, b} THEN s1 ELSE s2]
OneClient == [r \in Items |-> s1]
Numbers   == [r \in Items |-> IF r = a THEN 1 ELSE IF r = b THEN 2 ELSE 3]
Alice     == [r \in Items |-> alice]
AliceToo  == [s \in Sessions |-> alice]

NoShutdown    == {}
AnyShutdown   == [cancel : BOOLEAN, deadline : BOOLEAN]

=============================================================================
