-------------------------- MODULE CommandExecutor --------------------------
(***************************************************************************)
(* listener/voiceloop/executor.py: the single execution queue of VoiceLoop,*)
(* with the row of the `commands' table it keeps for every request.        *)
(*                                                                         *)
(* Four kinds of coroutine share the executor on one asyncio loop:         *)
(*   Turn     the turn that plans and submits (AssistantService.handle;    *)
(*            its _turn_lock admits one at a time);                        *)
(*   callers  confirm, cancel, wait_for_completion and STOP, called by the *)
(*            HTTP API, by voice confirmation and by the conversation;     *)
(*   Worker   CommandExecutor._run;                                        *)
(*   Exec     the task that _claim_execution creates for _execute_plan.    *)
(*                                                                         *)
(* `async with self._state_lock' is modelled by the queue of the asyncio   *)
(* lock: a coroutine that asks for it joins the tail of lock, and its      *)
(* critical section is one step that it takes when it is at the head.      *)
(* asyncio.Lock is FIFO, and STOP relies on that.  What the code does      *)
(* without the lock (reads of the row by waiters and by the cancelled      *)
(* turn, the snapshots of pending_confirmation) is a step of its own.      *)
(***************************************************************************)
EXTENDS Naturals, Sequences, SequencesExt

CONSTANTS
  Req,          \* request ids
  Caller,       \* coroutines that confirm, cancel, wait or stop
  Turn, Worker, Exec,
  NoReq,        \* no request
  Plan,         \* Plan[r]: the plan that planning r produces
  QueueLimit,   \* COMMAND_QUEUE_LIMIT
  MaxCalls,     \* bound: MaxCalls[c][k] calls of kind k by caller c
  MaxRestarts   \* bound: restarts of the core

Kinds == {"clarify", "empty", "confirm", "direct"}
AllCalls == {"confirm", "cancel", "wait", "stop"}

ASSUME ExecutorAssumption ==
  /\ NoReq \notin Req
  /\ Turn \notin Caller \cup {Worker, Exec}
  /\ Worker \notin Caller \cup {Exec}
  /\ Exec \notin Caller
  /\ Plan \in [Req -> [kind : Kinds, deps : Seq(SUBSET Nat)]]
  /\ \A r \in Req : Plan[r].kind = "empty" <=> Plan[r].kind # "clarify" /\ Plan[r].deps = <<>>
  /\ QueueLimit \in Nat \ {0}
  /\ MaxCalls \in [Caller -> [AllCalls -> Nat]] /\ MaxRestarts \in Nat

VARIABLES
  status,   \* commands.status of each request, "absent" before its row exists
  fresh,    \* FALSE once commands.updated_at is over CONFIRMATION_TTL_SECONDS ago
  pending,  \* keys of pending_confirmation
  queue,    \* the asyncio.Queue of plans
  futures,  \* keys of _completion_futures
  lock,     \* _state_lock: its holder, then the coroutines waiting for it
  current,  \* _current_request_id
  exec,     \* the task _current_execution
  worker,   \* _run
  turn,     \* the turn being handled
  caller,   \* the other callers
  calls,    \* calls made so far
  restarts, \* restarts so far
  consent,  \* history: requests whose last decision by the user is a yes in time
  runs,     \* history: how often each request was claimed for execution
  halted    \* history: requests that a finished cancel or STOP has put an end to

vars == <<status, fresh, pending, queue, futures, lock, current, exec, worker,
          turn, caller, calls, restarts, consent, runs, halted>>
row == <<status, fresh>>
ghosts == <<consent, runs, halted>>
bounds == <<calls, restarts>>

Procs == Caller \cup {Turn, Worker, Exec}
Terminal == {"succeeded", "failed", "cancelled", "rejected"}
Live == {"queued", "executing"}
Statuses == {"absent", "planning", "awaiting"} \cup Live \cup Terminal
Steps(r) == DOMAIN Plan[r].deps

TurnPcs == {"idle", "planning", "clarify", "empty", "stale", "park", "enqueue",
            "reply", "mark_read", "mark_write"}
InSubmit == {"clarify", "empty", "stale", "park", "enqueue"}
ExecPcs == {"none", "step", "acting", "finish_ok", "finish_fail", "post", "ended"}
WorkerPcs == {"get", "claim", "await", "finish_cancelled", "finish_failed", "cleanup"}
StopPcs == {"stop_snapshot", "stop_pending", "stop_drain", "stop_current",
            "stop_join", "stop_gather"}
Requests == {"confirm", "cancel", "read", "register", "waiting"}
CallerPcs == {"idle"} \cup Requests \cup StopPcs

(* Whoever is at work is at work on a request.                               *)
Tasks == {t \in [pc : ExecPcs, req : Req \cup {NoReq}, at : Nat, cancelled : BOOLEAN,
                 outcome : {"none", "returned", "raised", "cancelled"}] :
            t.pc # "none" => t.req \in Req}
Workers == {w \in [pc : WorkerPcs, req : Req \cup {NoReq}] : w.pc # "get" => w.req \in Req}
Turns == {t \in [pc : TurnPcs, req : Req \cup {NoReq}, todo : SUBSET Req,
                 cancelled : BOOLEAN] :
            t.pc # "idle" => t.req \in Req}
Calls == {k \in [pc : CallerPcs, req : Req \cup {NoReq}, todo : SUBSET Req,
                 joins : Req \cup {NoReq}, doomed : SUBSET Req] :
            k.pc \in Requests => k.req \in Req}

NoTurn == [pc |-> "idle", req |-> NoReq, todo |-> {}, cancelled |-> FALSE]
NoExec == [pc |-> "none", req |-> NoReq, at |-> 1, cancelled |-> FALSE, outcome |-> "none"]
NoCall == [pc |-> "idle", req |-> NoReq, todo |-> {}, joins |-> NoReq, doomed |-> {}]
IdleWorker == [pc |-> "get", req |-> NoReq]

Init ==
  /\ status = [r \in Req |-> "absent"]
  /\ fresh = [r \in Req |-> TRUE]
  /\ pending = {} /\ queue = <<>> /\ futures = {} /\ lock = <<>>
  /\ current = NoReq /\ exec = NoExec /\ worker = IdleWorker
  /\ turn = NoTurn /\ caller = [c \in Caller |-> NoCall]
  /\ calls = [c \in Caller |-> [k \in AllCalls |-> 0]] /\ restarts = 0
  /\ consent = {} /\ runs = [r \in Req |-> 0] /\ halted = {}

-----------------------------------------------------------------------------
(* The state lock, the row and the completion futures.                      *)

Holds(p) == lock # <<>> /\ Head(lock) = p
Acquire(p) == lock' = Append(lock, p)
Release == lock' = Tail(lock)
Reacquire(p) == lock' = Append(Tail(lock), p)
Leave(p) ==
  \/ \E i \in DOMAIN lock : lock[i] = p /\ lock' = RemoveAt(lock, i)
  \/ p \notin Range(lock) /\ UNCHANGED lock

(* update_command writes the status and renews updated_at, whatever the row  *)
(* held before.                                                              *)
UpdateCommand(r, s) ==
  /\ status' = [status EXCEPT ![r] = s]
  /\ fresh' = [fresh EXCEPT ![r] = TRUE]

(* _resolve_completion forgets the future of r and answers those awaiting it.*)
Answered(calling, r) ==
  [c \in Caller |-> IF calling[c].pc = "waiting" /\ calling[c].req = r
                    THEN NoCall ELSE calling[c]]
ResolveCompletion(r, calling) ==
  /\ futures' = futures \ {r}
  /\ caller' = Answered(calling, r)

(* _enqueue_locked: rejected when the queue is full.                         *)
EnqueueLocked(r) ==
  \/ /\ Len(queue) >= QueueLimit
     /\ UpdateCommand(r, "rejected")
     /\ UNCHANGED <<queue, futures>>
  \/ /\ Len(queue) < QueueLimit
     /\ UpdateCommand(r, "queued")
     /\ queue' = Append(queue, r)
     /\ futures' = futures \cup {r}

(* Mutant: the row is cancelled, the running task is not.                    *)
CancelWritesRowOnly(r) ==
  /\ pending' = pending \ {r}
  /\ UpdateCommand(r, "cancelled")
  /\ consent' = consent \ {r}
  /\ UNCHANGED exec

(* cancel, up to and including the write: the row is written without being   *)
(* read; the task is cancelled when r is the current request.                *)
CancelWrites(r) ==
  /\ pending' = pending \ {r}
  /\ exec' = [exec EXCEPT !.cancelled = @ \/ (current = r /\ exec.pc # "ended")]
  /\ UpdateCommand(r, "cancelled")
  /\ consent' = consent \ {r}

-----------------------------------------------------------------------------
(* The turn: it creates the row, plans, submits and replies.  An exception   *)
(* from planning, bind_execution_targets or enforce_policy leaves the row as *)
(* it is.                                                                    *)

TurnStarts(r) ==
  /\ turn.pc = "idle" /\ status[r] = "absent"
  /\ UpdateCommand(r, "planning")
  /\ turn' = [NoTurn EXCEPT !.pc = "planning", !.req = r]
  /\ UNCHANGED <<pending, queue, futures, lock, current, exec, worker, caller,
                 bounds, ghosts>>

TurnMoves(pc) == turn' = [turn EXCEPT !.pc = pc]

SubmitRefused ==
  /\ turn.pc = "planning" /\ ~turn.cancelled
  /\ turn' = NoTurn
  /\ UNCHANGED <<row, pending, queue, futures, lock, current, exec, worker,
                 caller, bounds, ghosts>>

(* Mutant: a plan that needs consent is parked beside those pending.         *)
SubmitKeepsStale ==
  /\ turn.pc = "planning" /\ ~turn.cancelled
  /\ \/ Plan[turn.req].kind = "clarify" /\ TurnMoves("clarify")
     \/ Plan[turn.req].kind = "empty" /\ TurnMoves("empty")
     \/ Plan[turn.req].kind = "direct" /\ TurnMoves("enqueue")
     \/ Plan[turn.req].kind = "confirm" /\ TurnMoves("park")
  /\ Acquire(Turn)
  /\ UNCHANGED <<row, pending, queue, futures, current, exec, worker, caller,
                 bounds, ghosts>>

(* The order of the tests in submit.  For a plan that needs consent it       *)
(* snapshots the other pending requests, and then cancels them one by one.   *)
Submit ==
  /\ turn.pc = "planning" /\ ~turn.cancelled
  /\ LET r == turn.req
         stale == pending \ {r}
     IN \/ Plan[r].kind = "clarify" /\ TurnMoves("clarify")
        \/ Plan[r].kind = "empty" /\ TurnMoves("empty")
        \/ Plan[r].kind = "direct" /\ TurnMoves("enqueue")
        \/ Plan[r].kind = "confirm" /\ stale = {} /\ TurnMoves("park")
        \/ /\ Plan[r].kind = "confirm" /\ stale # {}
           /\ turn' = [turn EXCEPT !.pc = "stale", !.todo = stale]
  /\ Acquire(Turn)
  /\ UNCHANGED <<row, pending, queue, futures, current, exec, worker, caller,
                 bounds, ghosts>>

InTurnSection(pc) == turn.pc = pc /\ ~turn.cancelled /\ Holds(Turn)

(* A clarification is put to the user: awaiting, but not pending.            *)
SubmitClarification ==
  /\ InTurnSection("clarify")
  /\ UpdateCommand(turn.req, "awaiting")
  /\ TurnMoves("reply") /\ Release
  /\ UNCHANGED <<pending, queue, futures, current, exec, worker, caller, bounds,
                 ghosts>>

SubmitEmpty ==
  /\ InTurnSection("empty")
  /\ UpdateCommand(turn.req, "succeeded")
  /\ TurnMoves("reply") /\ Release
  /\ UNCHANGED <<pending, queue, futures, current, exec, worker, caller, bounds,
                 ghosts>>

SubmitCancelsStale ==
  /\ InTurnSection("stale")
  /\ \E r \in turn.todo :
       /\ CancelWrites(r)
       /\ ResolveCompletion(r, caller)
       /\ turn' = [turn EXCEPT !.todo = @ \ {r},
                               !.pc = IF turn.todo = {r} THEN "park" ELSE "stale"]
  /\ Reacquire(Turn)
  /\ UNCHANGED <<queue, current, worker, bounds, runs, halted>>

SubmitParks ==
  /\ InTurnSection("park")
  /\ pending' = pending \cup {turn.req}
  /\ UpdateCommand(turn.req, "awaiting")
  /\ TurnMoves("reply") /\ Release
  /\ UNCHANGED <<queue, futures, current, exec, worker, caller, bounds, ghosts>>

SubmitEnqueues ==
  /\ InTurnSection("enqueue")
  /\ EnqueueLocked(turn.req)
  /\ TurnMoves("reply") /\ Release
  /\ UNCHANGED <<pending, current, exec, worker, caller, bounds, ghosts>>

TurnEnds ==
  /\ turn.pc = "reply" /\ ~turn.cancelled
  /\ turn' = NoTurn
  /\ UNCHANGED <<row, pending, queue, futures, lock, current, exec, worker,
                 caller, bounds, ghosts>>

(* interrupt cancelled the turn: CancelledError is raised at the await it is *)
(* at, before its critical section has begun (StopCutsSection is the rest).  *)
TurnAborted ==
  /\ turn.cancelled /\ turn.pc \notin {"idle", "mark_read", "mark_write"}
  /\ turn' = [turn EXCEPT !.pc = "mark_read", !.cancelled = FALSE, !.todo = {}]
  /\ Leave(Turn)
  /\ UNCHANGED <<row, pending, queue, futures, current, exec, worker, caller,
                 bounds, ghosts>>

(* _mark_request_cancelled: it reads the row, then writes it, and holds no   *)
(* lock in between.                                                          *)
MarkReads ==
  /\ turn.pc = "mark_read" /\ ~turn.cancelled
  /\ IF status[turn.req] \in Terminal THEN turn' = NoTurn
                                      ELSE TurnMoves("mark_write")
  /\ UNCHANGED <<row, pending, queue, futures, lock, current, exec, worker,
                 caller, bounds, ghosts>>

MarkWrites ==
  /\ turn.pc = "mark_write" /\ ~turn.cancelled
  /\ UpdateCommand(turn.req, "cancelled")
  /\ turn' = NoTurn
  /\ UNCHANGED <<pending, queue, futures, lock, current, exec, worker, caller,
                 bounds, ghosts>>

(* A second STOP cancels the turn in its handler of the first.  What was put *)
(* to the user as a clarification then goes on awaiting, pending nowhere; if *)
(* it has steps it can be confirmed, and neither STOP has promised anything. *)
MarkAborted ==
  /\ turn.pc \in {"mark_read", "mark_write"} /\ turn.cancelled
  /\ turn' = NoTurn
  /\ caller' = IF status[turn.req] = "awaiting" /\ turn.req \notin pending
               THEN [c \in Caller |-> [caller[c] EXCEPT !.doomed = @ \ {turn.req}]]
               ELSE caller
  /\ UNCHANGED <<row, pending, queue, futures, lock, current, exec, worker,
                 bounds, ghosts>>

-----------------------------------------------------------------------------
(* confirm, cancel and wait_for_completion.  Whoever confirms r during a STOP*)
(* asks for r again, so that STOP's promise no longer covers r.              *)

Places(c, kind) ==
  /\ caller[c].pc = "idle"
  /\ calls[c][kind] < MaxCalls[c][kind]
  /\ calls' = [calls EXCEPT ![c][kind] = @ + 1]

Call(c, kind, r) ==
  /\ Places(c, kind)
  /\ \/ kind \in {"confirm", "cancel"} /\ status[r] # "absent" /\ Acquire(c)
     \/ kind = "wait" /\ status[r] # "absent" /\ turn.req # r /\ UNCHANGED lock
  /\ caller' = [d \in Caller |->
       IF d = c THEN [NoCall EXCEPT !.req = r, !.pc = IF kind = "wait" THEN "read" ELSE kind]
       ELSE IF kind = "confirm" THEN [caller[d] EXCEPT !.doomed = @ \ {r}]
       ELSE caller[d]]
  /\ UNCHANGED <<row, pending, queue, futures, current, exec, worker, turn,
                 restarts, ghosts>>

Becomes(c, call) == [caller EXCEPT ![c] = call]
Returns(c) == caller' = Becomes(c, NoCall)
Moves(c, pc) == caller' = Becomes(c, [caller[c] EXCEPT !.pc = pc])
InSection(c, pc) == caller[c].pc = pc /\ Holds(c)

ConfirmTooLate(c) ==
  /\ InSection(c, "confirm")
  /\ LET r == caller[c].req
     IN \/ status[r] # "awaiting" /\ UNCHANGED <<row, pending, consent>>
        \/ /\ status[r] = "awaiting" /\ ~fresh[r]
           /\ pending' = pending \ {r}
           /\ UpdateCommand(r, "cancelled")
           /\ consent' = consent \ {r}
  /\ Returns(c) /\ Release
  /\ UNCHANGED <<queue, futures, current, exec, worker, turn, bounds, runs, halted>>

(* The plan comes from pending_confirmation or else from the row; a row      *)
(* without steps is left awaiting, and so is one whose stored plan           *)
(* enforce_policy refuses.                                                   *)
ConfirmNotRunnable(c) ==
  /\ InSection(c, "confirm")
  /\ LET r == caller[c].req
     IN status[r] = "awaiting" /\ fresh[r] /\ r \notin pending
  /\ Returns(c) /\ Release
  /\ UNCHANGED <<row, pending, queue, futures, current, exec, worker, turn,
                 bounds, ghosts>>

(* Mutants: confirm does not look at the status, or not at the age, of the row.*)
ConfirmAnyStatus(c) ==
  /\ InSection(c, "confirm")
  /\ LET r == caller[c].req
     IN /\ Steps(r) # {}
        /\ pending' = pending \ {r}
        /\ EnqueueLocked(r)
        /\ consent' = consent \cup {r}
  /\ Returns(c) /\ Release
  /\ UNCHANGED <<current, exec, worker, turn, bounds, runs, halted>>

ConfirmAnyAge(c) ==
  /\ InSection(c, "confirm")
  /\ LET r == caller[c].req
     IN /\ status[r] = "awaiting"
        /\ r \in pending \/ Steps(r) # {}
        /\ pending' = pending \ {r}
        /\ EnqueueLocked(r)
        /\ consent' = IF fresh[r] THEN consent \cup {r} ELSE consent
  /\ Returns(c) /\ Release
  /\ UNCHANGED <<current, exec, worker, turn, bounds, runs, halted>>

(* Consent that arrives in time, for a plan with steps, queues the plan.     *)
Confirm(c) ==
  /\ InSection(c, "confirm")
  /\ LET r == caller[c].req
     IN /\ status[r] = "awaiting" /\ fresh[r]
        /\ r \in pending \/ Steps(r) # {}
        /\ pending' = pending \ {r}
        /\ EnqueueLocked(r)
        /\ consent' = IF fresh[r] THEN consent \cup {r} ELSE consent
  /\ Returns(c) /\ Release
  /\ UNCHANGED <<current, exec, worker, turn, bounds, runs, halted>>

(* cancel holds for good once the request has been submitted.                *)
Submitting(r) == turn.req = r /\ turn.pc \in {"planning"} \cup InSubmit

Cancel(c) ==
  /\ InSection(c, "cancel")
  /\ LET r == caller[c].req
     IN /\ CancelWrites(r)
        /\ ResolveCompletion(r, Becomes(c, NoCall))
        /\ halted' = IF Submitting(r) THEN halted ELSE halted \cup {r}
  /\ Release
  /\ UNCHANGED <<queue, current, worker, turn, bounds, runs>>

(* wait_for_completion reads the row and then asks for the future.           *)
WaitReads(c) ==
  /\ caller[c].pc = "read"
  /\ IF status[caller[c].req] \in Terminal \cup {"awaiting"}
     THEN Returns(c)
     ELSE Moves(c, "register")
  /\ UNCHANGED <<row, pending, queue, futures, lock, current, exec, worker, turn,
                 bounds, ghosts>>

WaitRegisters(c) ==
  /\ caller[c].pc = "register"
  /\ futures' = futures \cup {caller[c].req}
  /\ Moves(c, "waiting")
  /\ UNCHANGED <<row, pending, queue, lock, current, exec, worker, turn, bounds,
                 ghosts>>

-----------------------------------------------------------------------------
(* STOP: AssistantService.interrupt cancels the turn in progress and runs    *)
(* stop_all, which cancels what was pending when it looked, drains the       *)
(* queue, cancels the current task and awaits it.                            *)

Doomed == pending \cup {r \in Req : status[r] \in Live}
                  \cup (IF turn.pc = "idle" THEN {} ELSE {turn.req})

Stops(c) ==
  /\ Places(c, "stop")
  /\ caller' = Becomes(c, [NoCall EXCEPT !.pc = "stop_snapshot", !.req = turn.req,
                                          !.doomed = Doomed])

StopCall(c) ==
  /\ Stops(c)
  /\ turn' = [turn EXCEPT !.cancelled = (turn.pc # "idle")]
  /\ UNCHANGED <<row, pending, queue, futures, lock, current, exec, worker,
                 restarts, ghosts>>

(* The turn is at the await of update_command inside its critical section:   *)
(* the thread writes the row all the same, what follows the await is skipped.*)
StopCutsSection(c) ==
  /\ Stops(c)
  /\ InTurnSection(turn.pc)
  /\ \/ /\ turn.pc \in {"clarify", "park"} /\ UpdateCommand(turn.req, "awaiting")
        /\ pending' = IF turn.pc = "park" THEN pending \cup {turn.req} ELSE pending
        /\ UNCHANGED <<exec, consent>>
     \/ /\ turn.pc = "empty" /\ UpdateCommand(turn.req, "succeeded")
        /\ UNCHANGED <<pending, exec, consent>>
     \/ /\ turn.pc = "stale" /\ \E r \in turn.todo : CancelWrites(r)
     \/ /\ turn.pc = "enqueue"
        /\ UpdateCommand(turn.req, IF Len(queue) < QueueLimit THEN "queued"
                                   ELSE "rejected")
        /\ UNCHANGED <<pending, exec, consent>>
  /\ turn' = [turn EXCEPT !.pc = "mark_read", !.todo = {}]
  /\ Release
  /\ UNCHANGED <<queue, futures, current, worker, restarts, runs, halted>>

StopSnapshots(c) ==
  /\ caller[c].pc = "stop_snapshot"
  /\ caller' = Becomes(c, [caller[c] EXCEPT !.todo = pending,
                    !.pc = IF pending = {} THEN "stop_drain" ELSE "stop_pending"])
  /\ Acquire(c)
  /\ UNCHANGED <<row, pending, queue, futures, current, exec, worker, turn,
                 bounds, ghosts>>

(* Mutant: STOP forgets what is pending, but leaves its row awaiting.        *)
StopForgetsPending(c) ==
  /\ InSection(c, "stop_pending")
  /\ \E r \in caller[c].todo :
       /\ pending' = pending \ {r}
       /\ ResolveCompletion(r, Becomes(c, [caller[c] EXCEPT !.todo = @ \ {r},
            !.pc = IF caller[c].todo = {r} THEN "stop_drain" ELSE "stop_pending"]))
  /\ Reacquire(c)
  /\ UNCHANGED <<row, exec, consent, queue, current, worker, turn, bounds, runs, halted>>

StopCancelsPending(c) ==
  /\ InSection(c, "stop_pending")
  /\ \E r \in caller[c].todo :
       /\ CancelWrites(r)
       /\ ResolveCompletion(r, Becomes(c, [caller[c] EXCEPT !.todo = @ \ {r},
            !.pc = IF caller[c].todo = {r} THEN "stop_drain" ELSE "stop_pending"]))
  /\ Reacquire(c)
  /\ UNCHANGED <<queue, current, worker, turn, bounds, runs, halted>>

(* Mutant: STOP empties the queue without writing the rows.                  *)
StopDropsOne(c) ==
  /\ InSection(c, "stop_drain") /\ queue # <<>>
  /\ ResolveCompletion(Head(queue), caller)
  /\ queue' = Tail(queue)
  /\ Reacquire(c)
  /\ UNCHANGED <<row, consent, pending, current, exec, worker, turn, bounds, runs, halted>>

StopDrainsOne(c) ==
  /\ InSection(c, "stop_drain") /\ queue # <<>>
  /\ LET r == Head(queue)
     IN /\ UpdateCommand(r, "cancelled")
        /\ ResolveCompletion(r, caller)
        /\ consent' = consent \ {r}
  /\ queue' = Tail(queue)
  /\ Reacquire(c)
  /\ UNCHANGED <<pending, current, exec, worker, turn, bounds, runs, halted>>

StopDrained(c) ==
  /\ InSection(c, "stop_drain") /\ queue = <<>>
  /\ Moves(c, "stop_current")
  /\ Reacquire(c)
  /\ UNCHANGED <<row, pending, queue, futures, current, exec, worker, turn,
                 bounds, ghosts>>

(* The last section cancels the task and writes its row; it does not resolve *)
(* the completion future of the request.                                     *)
StopCancelsCurrent(c) ==
  /\ InSection(c, "stop_current")
  /\ \/ current = NoReq /\ UNCHANGED <<row, exec, consent>>
     \/ /\ current # NoReq
        /\ exec' = [exec EXCEPT !.cancelled = @ \/ exec.pc # "ended"]
        /\ UpdateCommand(current, "cancelled")
        /\ consent' = consent \ {current}
  /\ caller' = Becomes(c, [caller[c] EXCEPT !.pc = "stop_join", !.joins = current])
  /\ Release
  /\ UNCHANGED <<pending, queue, futures, current, worker, turn, bounds, runs, halted>>

Joined(c) == caller[c].joins = NoReq \/ exec.req # caller[c].joins \/ exec.pc = "ended"

StopJoins(c) ==
  /\ caller[c].pc = "stop_join" /\ Joined(c)
  /\ exec.req = caller[c].joins => exec.outcome # "raised"
  /\ Moves(c, "stop_gather")
  /\ UNCHANGED <<row, pending, queue, futures, lock, current, exec, worker, turn,
                 bounds, ghosts>>

(* The task had failed while it spoke: awaiting it raises, and so does STOP. *)
StopRaises(c) ==
  /\ caller[c].pc = "stop_join"
  /\ exec.req = caller[c].joins /\ exec.outcome = "raised"
  /\ Returns(c)
  /\ UNCHANGED <<row, pending, queue, futures, lock, current, exec, worker, turn,
                 bounds, ghosts>>

(* interrupt gathers the turn it cancelled and returns.                      *)
StopReturns(c) ==
  /\ caller[c].pc = "stop_gather"
  /\ turn.pc = "idle" \/ turn.req # caller[c].req
  /\ halted' = halted \cup caller[c].doomed
  /\ Returns(c)
  /\ UNCHANGED <<row, pending, queue, futures, lock, current, exec, worker, turn,
                 bounds, consent, runs>>

-----------------------------------------------------------------------------
(* _run, _claim_execution and _finish_execution of the worker.               *)

WorkerGets ==
  /\ worker.pc = "get" /\ queue # <<>>
  /\ worker' = [pc |-> "claim", req |-> Head(queue)]
  /\ queue' = Tail(queue)
  /\ Acquire(Worker)
  /\ UNCHANGED <<row, pending, futures, current, exec, turn, caller, bounds, ghosts>>

(* Mutant: the early return of _claim_execution keeps the lock.              *)
WorkerClaimsAndKeeps ==
  /\ worker.pc = "claim" /\ Holds(Worker)
  /\ LET r == worker.req
     IN \/ /\ status[r] # "queued"
           /\ worker' = IdleWorker
           /\ UNCHANGED <<row, exec, current, runs, lock>>
        \/ /\ status[r] = "queued"
           /\ UpdateCommand(r, "executing")
           /\ exec' = [NoExec EXCEPT !.pc = "step", !.req = r]
           /\ current' = r
           /\ worker' = [worker EXCEPT !.pc = "await"]
           /\ runs' = [runs EXCEPT ![r] = @ + 1]
           /\ Release
  /\ UNCHANGED <<pending, queue, futures, turn, caller, bounds, consent, halted>>

WorkerClaims ==
  /\ worker.pc = "claim" /\ Holds(Worker)
  /\ LET r == worker.req
     IN \/ /\ status[r] # "queued"
           /\ worker' = IdleWorker
           /\ UNCHANGED <<row, exec, current, runs>>
        \/ /\ status[r] = "queued"
           /\ UpdateCommand(r, "executing")
           /\ exec' = [NoExec EXCEPT !.pc = "step", !.req = r]
           /\ current' = r
           /\ worker' = [worker EXCEPT !.pc = "await"]
           /\ runs' = [runs EXCEPT ![r] = @ + 1]
  /\ Release
  /\ UNCHANGED <<pending, queue, futures, turn, caller, bounds, consent, halted>>

WorkerAwaits ==
  /\ worker.pc = "await" /\ exec.pc = "ended"
  /\ worker' = [worker EXCEPT !.pc =
       IF exec.outcome = "cancelled" THEN "finish_cancelled"
       ELSE IF exec.outcome = "raised" THEN "finish_failed" ELSE "cleanup"]
  /\ Acquire(Worker)
  /\ UNCHANGED <<row, pending, queue, futures, current, exec, turn, caller,
                 bounds, ghosts>>

(* Mutants: the result is written whatever the row holds; nobody is told.    *)
FinishAnyStatus(r, s) ==
  UpdateCommand(r, s) /\ ResolveCompletion(r, caller)

FinishSilently(r, s) ==
  /\ \/ status[r] = "executing" /\ UpdateCommand(r, s)
     \/ status[r] # "executing" /\ UNCHANGED row
  /\ UNCHANGED <<futures, caller>>

(* _finish_execution: only an executing row takes a result.                  *)
FinishExecution(r, s) ==
  \/ /\ status[r] = "executing"
     /\ UpdateCommand(r, s)
     /\ ResolveCompletion(r, caller)
  \/ /\ status[r] # "executing"
     /\ UNCHANGED <<row, futures, caller>>

WorkerFinishes ==
  /\ worker.pc \in {"finish_cancelled", "finish_failed"} /\ Holds(Worker)
  /\ FinishExecution(worker.req,
       IF worker.pc = "finish_cancelled" THEN "cancelled" ELSE "failed")
  /\ worker' = [worker EXCEPT !.pc = "cleanup"]
  /\ Reacquire(Worker)
  /\ UNCHANGED <<pending, queue, current, exec, turn, bounds, ghosts>>

WorkerCleansUp ==
  /\ worker.pc = "cleanup" /\ Holds(Worker)
  /\ current' = NoReq
  /\ worker' = IdleWorker
  /\ Release
  /\ UNCHANGED <<row, pending, queue, futures, exec, turn, caller, bounds, ghosts>>

-----------------------------------------------------------------------------
(* _execute_plan: the steps in order, up to the first that does not succeed. *)

ExecBeginsStep ==
  /\ exec.pc = "step" /\ ~exec.cancelled
  /\ exec.at \in Steps(exec.req)
  /\ Plan[exec.req].deps[exec.at] \subseteq 1..(exec.at - 1)
  /\ exec' = [exec EXCEPT !.pc = "acting"]
  /\ UNCHANGED <<row, pending, queue, futures, lock, current, worker, turn,
                 caller, bounds, ghosts>>

(* The step is done, or was skipped because a dependency has not succeeded.  *)
ExecStepFails ==
  /\ ~exec.cancelled
  /\ \/ exec.pc = "acting"
     \/ /\ exec.pc = "step" /\ exec.at \in Steps(exec.req)
        /\ ~(Plan[exec.req].deps[exec.at] \subseteq 1..(exec.at - 1))
  /\ exec' = [exec EXCEPT !.pc = "finish_fail"]
  /\ Acquire(Exec)
  /\ UNCHANGED <<row, pending, queue, futures, current, worker, turn, caller,
                 bounds, ghosts>>

ExecStepSucceeds ==
  /\ exec.pc = "acting" /\ ~exec.cancelled
  /\ exec' = [exec EXCEPT !.pc = "step", !.at = exec.at + 1]
  /\ UNCHANGED <<row, pending, queue, futures, lock, current, worker, turn,
                 caller, bounds, ghosts>>

ExecStepsDone ==
  /\ exec.pc = "step" /\ ~exec.cancelled
  /\ exec.at \notin Steps(exec.req)
  /\ exec' = [exec EXCEPT !.pc = "finish_ok"]
  /\ Acquire(Exec)
  /\ UNCHANGED <<row, pending, queue, futures, current, worker, turn, caller,
                 bounds, ghosts>>

ExecFinishes ==
  /\ exec.pc \in {"finish_ok", "finish_fail"} /\ ~exec.cancelled /\ Holds(Exec)
  /\ FinishExecution(exec.req, IF exec.pc = "finish_ok" THEN "succeeded" ELSE "failed")
  /\ exec' = IF status[exec.req] = "executing"
             THEN [exec EXCEPT !.pc = "post"]
             ELSE [exec EXCEPT !.pc = "ended", !.outcome = "returned"]
  /\ Release
  /\ UNCHANGED <<pending, queue, current, worker, turn, bounds, ghosts>>

(* The result is published and spoken; either may raise.                     *)
ExecReports ==
  /\ exec.pc = "post" /\ ~exec.cancelled
  /\ \E o \in {"returned", "raised"} :
       exec' = [exec EXCEPT !.pc = "ended", !.outcome = o]
  /\ UNCHANGED <<row, pending, queue, futures, lock, current, worker, turn,
                 caller, bounds, ghosts>>

(* CancelledError at the next await, whichever it is.                        *)
ExecCancelled ==
  /\ exec.cancelled /\ exec.pc \notin {"none", "ended"}
  /\ exec' = [exec EXCEPT !.pc = "ended", !.outcome = "cancelled"]
  /\ Leave(Exec)
  /\ UNCHANGED <<row, pending, queue, futures, current, worker, turn, caller,
                 bounds, ghosts>>

-----------------------------------------------------------------------------
(* Five minutes pass over a request that awaits consent; the core restarts:  *)
(* the rows stay, everything in memory is new.                               *)

Expires(r) ==
  /\ status[r] = "awaiting" /\ fresh[r]
  /\ fresh' = [fresh EXCEPT ![r] = FALSE]
  /\ UNCHANGED <<status, pending, queue, futures, lock, current, exec, worker,
                 turn, caller, bounds, ghosts>>

Restart ==
  /\ restarts < MaxRestarts /\ restarts' = restarts + 1
  /\ pending' = {} /\ queue' = <<>> /\ futures' = {} /\ lock' = <<>>
  /\ current' = NoReq /\ exec' = NoExec /\ worker' = IdleWorker
  /\ turn' = NoTurn /\ caller' = [c \in Caller |-> NoCall]
  /\ UNCHANGED <<row, calls, ghosts>>

TurnStep ==
  \/ SubmitRefused \/ Submit \/ SubmitClarification \/ SubmitEmpty
  \/ SubmitCancelsStale \/ SubmitParks \/ SubmitEnqueues \/ TurnEnds
  \/ TurnAborted \/ MarkReads \/ MarkWrites \/ MarkAborted

CallerStep(c) ==
  \/ ConfirmTooLate(c) \/ ConfirmNotRunnable(c) \/ Confirm(c) \/ Cancel(c)
  \/ WaitReads(c) \/ WaitRegisters(c)
  \/ StopSnapshots(c) \/ StopCancelsPending(c) \/ StopDrainsOne(c) \/ StopDrained(c)
  \/ StopCancelsCurrent(c) \/ StopJoins(c) \/ StopRaises(c) \/ StopReturns(c)

WorkerStep == WorkerGets \/ WorkerClaims \/ WorkerAwaits \/ WorkerFinishes \/ WorkerCleansUp

ExecStep ==
  \/ ExecBeginsStep \/ ExecStepFails \/ ExecStepSucceeds \/ ExecStepsDone
  \/ ExecFinishes \/ ExecReports \/ ExecCancelled

Next ==
  \/ \E r \in Req : TurnStarts(r) \/ Expires(r)
  \/ TurnStep
  \/ \E c \in Caller : \/ \E k \in AllCalls \ {"stop"}, r \in Req : Call(c, k, r)
                       \/ StopCall(c) \/ StopCutsSection(c)
                       \/ CallerStep(c)
  \/ WorkerStep
  \/ ExecStep
  \/ Restart

Spec == Init /\ [][Next]_vars

(* The event loop runs every ready coroutine, handlers of actions and TTS    *)
(* return, and a turn, once begun, is planned and submitted.  Nothing obliges*)
(* a user to call, time to pass or the core to restart.                      *)
FairSpec ==
  /\ Spec
  /\ WF_vars(TurnStep) /\ WF_vars(WorkerStep) /\ WF_vars(ExecStep)
  /\ \A c \in Caller : WF_vars(CallerStep(c))

-----------------------------------------------------------------------------
(* Properties.                                                              *)

(* Every variable keeps its type.                                           *)
TypeOK ==
  /\ status \in [Req -> Statuses] /\ fresh \in [Req -> BOOLEAN]
  /\ pending \subseteq Req /\ queue \in Seq(Req) /\ futures \subseteq Req
  /\ lock \in Seq(Procs) /\ current \in Req \cup {NoReq}
  /\ exec \in Tasks /\ worker \in Workers /\ turn \in Turns
  /\ caller \in [Caller -> Calls]
  /\ calls \in [Caller -> [AllCalls -> Nat]] /\ restarts \in Nat
  /\ consent \subseteq Req /\ runs \in [Req -> Nat] /\ halted \subseteq Req

Running(r) == exec.req = r /\ exec.pc \notin {"none", "ended"} /\ ~exec.cancelled

(* A request is claimed for execution at most once, whatever confirmations  *)
(* race, whatever is queued, cancelled or restored after a restart.         *)
AtMostOnce == \A r \in Req : runs[r] <= 1

(* The task of a plan that needs consent goes on only while the user's last *)
(* decision on it is a yes given in time: a cancel, a STOP, a newer plan or *)
(* an expiry that comes after the yes reaches the task or the queued plan.  *)
ConsentGoverns ==
  \A r \in Req : Plan[r].kind = "confirm" /\ Running(r) => r \in consent

(* At most one plan is pending, so that a spoken "yes" is about that plan.  *)
OnePending == \A r, s \in pending : r = s

(* Once a cancel or a STOP has returned, nothing it was about runs: what had *)
(* been submitted, for a cancel, and what a STOP found pending, queued,      *)
(* running or being submitted and the user has not confirmed since.          *)
HaltedStaysDown == \A r \in halted : ~Running(r)

(* A row with a result changes afterwards only to cancelled: neither a late *)
(* result, nor speech that fails, nor a lost claim rewrites it.             *)
ResultOnlyCancelled ==
  [][\A r \in Req : status[r] \in Terminal /\ status'[r] # status[r]
                      => status'[r] = "cancelled" \/ Submitting(r)]_vars

(* A queued or executing request comes to an end.                           *)
QueuedEnds == \A r \in Req : status[r] \in Live ~> status[r] \in Terminal

(* confirm, cancel and STOP return: no caller waits for the lock, or for    *)
(* the task or the turn it cancelled, for ever.                             *)
CallsReturn ==
  \A c \in Caller : caller[c].pc \notin {"idle", "waiting"}
                     ~> caller[c].pc \in {"idle", "waiting"}

(* Whoever awaits the completion of a request that has not ended is answered *)
(* unless the request is cancelled.                                          *)
WaiterToldResult ==
  \A c \in Caller :
    caller[c].pc = "waiting" /\ status[caller[c].req] \in Live
      ~> caller[c].pc # "waiting" \/ status[caller[c].req] = "cancelled"

(* voice_conversation.py:938 handles a completion whose status is CANCELLED: *)
(* whoever awaits a request that has not ended is answered in any case.      *)
WaiterAnswered ==
  \A c \in Caller :
    caller[c].pc = "waiting" /\ status[caller[c].req] \in Live
      ~> caller[c].pc # "waiting"

(* docs/ARCHITECTURE_CURRENT.md:300 lists cancelled among the ends of the    *)
(* lifecycle: a cancelled request stays cancelled.                           *)
CancelledIsAnEnd ==
  [][\A r \in Req : status[r] = "cancelled" => status'[r] = "cancelled"]_vars

(* README.md:335: STOP cancels pending confirmation, also one that survived  *)
(* the restart of the core.                                                  *)
StopVoidsConfirmation ==
  \A c \in Caller, r \in Req :
    /\ Plan[r].kind = "confirm" /\ status[r] = "awaiting"
    /\ caller[c].pc = "stop_snapshot" /\ restarts = MaxRestarts
    ~> status[r] # "awaiting"
=============================================================================
