------------------------------ MODULE TaskPool ------------------------------
(***************************************************************************)
(* What the local pool promises whoever submits a task, with the threads,  *)
(* the workers, their pipes and the queues left out: a task waits, is      *)
(* launched once and only while its future is pending, starts in one place *)
(* at most, and is not let go before its future is done; a future is done  *)
(* once, and what it says has happened.                                    *)
(*                                                                         *)
(* Pool implements this specification.                                     *)
(***************************************************************************)
CONSTANTS
  Tasks,     \* the tasks that may be submitted
  Places,    \* where a task may run
  Nowhere,   \* the place of a task that has not started
  Pending    \* the outcome of a future that is not done

VARIABLES
  stage,     \* [Tasks -> how far the pool is with the task]
  place,     \* [Tasks -> where it has started, or Nowhere]
  outcome    \* [Tasks -> what its future says]

taskVars == <<stage, place, outcome>>

\* "dropped": the pool has let go of a task that it never gave to a worker.
Follows(v) ==
  CASE v = "new"     -> {"waiting", "refused"}
    [] v = "waiting" -> {"running", "dropped"}
    [] v = "running" -> {"over", "dropped"}
    [] OTHER         -> {}

TaskInit ==
  /\ stage = [t \in Tasks |-> "new"]
  /\ place = [t \in Tasks |-> Nowhere]
  /\ outcome = [t \in Tasks |-> Pending]

\* The runner launches what is pending, and nobody lets go of a pending future.
Moves(t) ==
  /\ stage'[t] \in Follows(stage[t])
  /\ stage'[t] = "running" => outcome[t] = Pending
  /\ stage'[t] \in {"over", "dropped"} => outcome'[t] # Pending

\* A worker may come to a task after the pool has given it up: a timeout that an
\* earlier task left in the pipe ends the wait for this one.
Starts(t) ==
  /\ stage[t] \in {"running", "over"}
  /\ place[t] = Nowhere
  /\ place'[t] \in Places

\* A result needs a start; a timeout is that of a task that has started.
Settles(t) ==
  LET o == outcome'[t] IN
    /\ outcome[t] = Pending
    /\ o.state \in {"result", "error"} => o.of = t
    /\ o.state = "result" => place[t] # Nowhere
    /\ o.state = "timeout" => o.of \in Tasks /\ place[o.of] # Nowhere

TaskNext ==
  \A t \in Tasks : /\ stage'[t] = stage[t] \/ Moves(t)
                   /\ place'[t] = place[t] \/ Starts(t)
                   /\ outcome'[t] = outcome[t] \/ Settles(t)

TaskSpec == TaskInit /\ [][TaskNext]_taskVars

=============================================================================
