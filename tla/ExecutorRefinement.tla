------------------------- MODULE ExecutorRefinement -------------------------
(* CommandExecutor implements CommandLifecycle: the phase of a request is the *)
(* status of its row, a request is open while its turn submits it, and a plan *)
(* runs while its task is alive and not cancelled.                           *)
EXTENDS CommandExecutor

Asking == {r \in Req : Plan[r].kind = "confirm"}
Undecided == {r \in Req : Submitting(r)}
Claimed == {r \in Req : runs[r] > 0}
Performing == IF exec.pc \notin {"none", "ended"} /\ ~exec.cancelled THEN exec.req ELSE NoReq

Lifecycle == INSTANCE CommandLifecycle WITH
  Asks <- Asking, phase <- status, open <- Undecided, agreed <- consent,
  started <- Claimed, running <- Performing

(* Whatever turns, callers, worker and tasks do among each other, each step  *)
(* is a step of the lifecycle or shows in none of its variables: no lock,    *)
(* queue, future or task is needed to say what the executor promises.        *)
Implements == Lifecycle!Spec
=============================================================================
