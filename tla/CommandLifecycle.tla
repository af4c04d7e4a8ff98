-------------------------- MODULE CommandLifecycle --------------------------
(***************************************************************************)
(* What the executor of VoiceLoop promises of a request, without its lock, *)
(* queue, worker and tasks: docs/ARCHITECTURE_CURRENT.md gives the phases, *)
(* CommandExecutor implements them.                                        *)
(***************************************************************************)
EXTENDS Naturals

CONSTANTS
  Req,     \* request ids
  NoReq,   \* no request
  Asks     \* the requests whose plan needs the user's consent

VARIABLES
  phase,    \* the phase of each request
  open,     \* the requests whose turn has yet to decide about them
  agreed,   \* the requests the user has agreed to and not withdrawn
  started,  \* the requests that were started
  running   \* the request whose plan is being executed

vars == <<phase, open, agreed, started, running>>

Results == {"succeeded", "failed", "cancelled", "rejected"}
Phases == {"absent", "planning", "awaiting", "queued", "executing"} \cup Results

Init ==
  /\ phase = [r \in Req |-> "absent"]
  /\ open = {} /\ agreed = {} /\ started = {} /\ running = NoReq

Becomes(r, p) == phase' = [phase EXCEPT ![r] = p]

(* A turn begins, decides about its request, or is given up.                 *)
Ask(r) ==
  /\ phase[r] = "absent"
  /\ Becomes(r, "planning") /\ open' = open \cup {r}
  /\ UNCHANGED <<agreed, started, running>>

Decide(r) ==
  /\ r \in open /\ open' = open \ {r}
  /\ \E p \in {"awaiting", "queued", "rejected", "succeeded"} :
       Becomes(r, p) /\ (p = "queued" => r \notin Asks)
  /\ UNCHANGED <<agreed, started, running>>

GiveUp(r) ==
  /\ r \in open /\ open' = open \ {r}
  /\ UNCHANGED <<phase, agreed, started, running>>

(* The user says yes while the request awaits it; the queue may be full.     *)
Agree(r) ==
  /\ phase[r] = "awaiting"
  /\ agreed' = agreed \cup {r}
  /\ \E p \in {"queued", "rejected"} : Becomes(r, p)
  /\ UNCHANGED <<open, started, running>>

(* The yes came too late.                                                    *)
Expire(r) ==
  /\ phase[r] = "awaiting"
  /\ agreed' = agreed \ {r}
  /\ Becomes(r, "cancelled")
  /\ UNCHANGED <<open, started, running>>

(* One plan at a time, with consent where it is needed.                      *)
Start(r) ==
  /\ phase[r] = "queued" /\ running = NoReq
  /\ r \in Asks => r \in agreed
  /\ Becomes(r, "executing")
  /\ running' = r /\ started' = started \cup {r}
  /\ UNCHANGED <<open, agreed>>

Conclude(r) ==
  /\ phase[r] = "executing" /\ running \in {r, NoReq}
  /\ \E p \in Results \ {"rejected"} : Becomes(r, p)
  /\ UNCHANGED <<open, agreed, started, running>>

Return ==
  /\ running # NoReq /\ running' = NoReq
  /\ UNCHANGED <<phase, open, agreed, started>>

(* A cancel reaches row, consent and execution in one step; the STOP it may  *)
(* be part of gives up the turns in progress.                                *)
Cancel(r) ==
  /\ Becomes(r, "cancelled")
  /\ agreed' = agreed \ {r}
  /\ running' = IF running = r THEN NoReq ELSE running
  /\ open' \in SUBSET open
  /\ UNCHANGED started

(* The row of a turn that was given up is closed; nothing else is told.      *)
Close(r) ==
  /\ r \notin open /\ Becomes(r, "cancelled")
  /\ UNCHANGED <<open, agreed, started, running>>

Crash ==
  /\ running' = NoReq /\ open' = {}
  /\ UNCHANGED <<phase, agreed, started>>

Next ==
  \/ \E r \in Req : \/ Ask(r) \/ Decide(r) \/ GiveUp(r) \/ Agree(r) \/ Expire(r)
                    \/ Start(r) \/ Conclude(r) \/ Cancel(r) \/ Close(r)
  \/ Return
  \/ Crash

Spec == Init /\ [][Next]_vars

-----------------------------------------------------------------------------
(* What follows from the lifecycle.                                         *)

(* Nothing runs that needs consent and does not have it.                    *)
Agreement == running \in Asks => running \in agreed

(* What was started is not started again.                                   *)
StartsOnce == [][\A r \in Req : Start(r) => r \notin started]_vars
=============================================================================
