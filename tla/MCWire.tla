------------------------------- MODULE MCWire -------------------------------
(* Instances of Wire for TLC.                                              *)
EXTENDS Wire

CONSTANTS a, b, c

\* The client sends two messages, the server one.
Senders == [m \in Messages |-> IF m = c THEN "server" ELSE "client"]

\* One frame and a part, a whole number of frames, less than a frame.
Sizes == [m \in Messages |-> CASE m = a -> 3 [] m = b -> 2 [] OTHER -> 1]

\* Ends that agree, and ends that differ in one limit.
Choices ==
  {[frame |-> 2, message |-> 4, chunks |-> 2, incomplete |-> 2],
   [frame |-> 2, message |-> 4, chunks |-> 2, incomplete |-> 1],
   [frame |-> 1, message |-> 3, chunks |-> 3, incomplete |-> 2],
   [frame |-> 1, message |-> 3, chunks |-> 2, incomplete |-> 2]}

=============================================================================
