------------------------ MODULE CommandExecutorProofs ------------------------
(* The safety of CommandExecutor: results stand, a request is executed at most *)
(* once, one plan is pending, consent governs execution, and what a finished *)
(* cancel or STOP was about never runs again.  Each is proved from the types *)
(* and an inductive invariant that is stated first.                          *)
EXTENDS CommandExecutor, SequenceTheorems, TLAPS

-----------------------------------------------------------------------------
(* Type correctness: one step per action, one lemma per helper that several  *)
(* actions use.                                                              *)

(* What a coroutine leaves behind in the lock's queue is a queue.            *)
LEMMA RemoveAtIsSeq ==
  ASSUME NEW S, NEW s \in Seq(S), NEW i \in 1..Len(s)
  PROVE  RemoveAt(s, i) \in Seq(S)
<1>1. i \in Int /\ Len(s) \in Nat /\ 1 <= i /\ i <= Len(s)
  OBVIOUS
<1>2. SubSeq(s, 1, i-1) \in Seq(S)
  BY <1>1
<1>3. SubSeq(s, i+1, Len(s)) \in Seq(S)
  BY <1>1
<1>. QED
  BY <1>2, <1>3 DEF RemoveAt

(* update_command keeps the table of rows typed.                             *)
LEMMA UpdateCommandType ==
  ASSUME TypeOK, NEW r \in Req, NEW s \in Statuses, UpdateCommand(r, s)
  PROVE  status' \in [Req -> Statuses] /\ fresh' \in [Req -> BOOLEAN]
  BY DEF TypeOK, UpdateCommand

(* Asking for, giving back and abandoning the lock keep its queue typed.     *)
LEMMA LockType ==
  ASSUME TypeOK, NEW p \in Procs,
         Acquire(p) \/ (lock # <<>> /\ (Release \/ Reacquire(p))) \/ Leave(p)
  PROVE  lock' \in Seq(Procs)
<1>1. CASE Acquire(p)
  BY <1>1 DEF TypeOK, Acquire
<1>2. CASE lock # <<>> /\ Release
  BY <1>2 DEF TypeOK, Release
<1>3. CASE lock # <<>> /\ Reacquire(p)
  BY <1>3 DEF TypeOK, Reacquire
<1>4. CASE Leave(p)
  BY <1>4, RemoveAtIsSeq DEF TypeOK, Leave
<1>. QED BY <1>1, <1>2, <1>3, <1>4

(* A caller's next record of its type gives callers of their type.           *)
LEMMA CallerType ==
  ASSUME TypeOK, NEW c \in Caller, NEW call \in Calls
  PROVE  Becomes(c, call) \in [Caller -> Calls]
  BY DEF TypeOK, Becomes

(* A caller that goes on in its call keeps its type.                         *)
LEMMA MovesType ==
  ASSUME TypeOK, NEW c \in Caller, NEW pc \in CallerPcs, Moves(c, pc),
         pc \in Requests => caller[c].pc \in Requests
  PROVE  caller' \in [Caller -> Calls]
<1>1. caller[c] \in Calls
  BY DEF TypeOK
<1>2. [caller[c] EXCEPT !.pc = pc] \in Calls
  BY <1>1 DEF Calls
<1>. QED
  BY <1>2, CallerType DEF Moves

(* A caller that returns keeps its type.                                     *)
LEMMA ReturnsType ==
  ASSUME TypeOK, NEW c \in Caller, Returns(c)
  PROVE  caller' \in [Caller -> Calls]
<1>1. NoCall \in Calls
  BY DEF NoCall, Calls, CallerPcs, Requests
<1>. QED
  BY <1>1, CallerType DEF Returns

(* _resolve_completion keeps futures and callers typed.                      *)
LEMMA ResolveType ==
  ASSUME TypeOK, NEW calling \in [Caller -> Calls], NEW r \in Req,
         ResolveCompletion(r, calling)
  PROVE  futures' \subseteq Req /\ caller' \in [Caller -> Calls]
<1>1. NoCall \in Calls
  BY DEF NoCall, Calls, CallerPcs, Requests
<1>. QED
  BY <1>1 DEF TypeOK, ResolveCompletion, Answered

(* A turn that goes on keeps its type.                                       *)
LEMMA TurnMovesType ==
  ASSUME TypeOK, NEW pc \in TurnPcs, TurnMoves(pc), turn.pc # "idle"
  PROVE  turn' \in Turns
  BY DEF TypeOK, TurnMoves, Turns

(* _enqueue_locked keeps rows, queue and futures typed.                      *)
LEMMA EnqueueType ==
  ASSUME TypeOK, NEW r \in Req, EnqueueLocked(r)
  PROVE  /\ status' \in [Req -> Statuses] /\ fresh' \in [Req -> BOOLEAN]
         /\ queue' \in Seq(Req) /\ futures' \subseteq Req
<1>1. "queued" \in Statuses /\ "rejected" \in Statuses
  BY DEF Statuses, Live, Terminal
<1>2. status' \in [Req -> Statuses] /\ fresh' \in [Req -> BOOLEAN]
  BY <1>1, UpdateCommandType DEF EnqueueLocked
<1>3. queue' \in Seq(Req) /\ futures' \subseteq Req
  <2>1. CASE UNCHANGED <<queue, futures>>
    BY <2>1 DEF TypeOK
  <2>2. CASE queue' = Append(queue, r) /\ futures' = futures \cup {r}
    BY <2>2 DEF TypeOK
  <2>. QED BY <2>1, <2>2 DEF EnqueueLocked
<1>. QED BY <1>2, <1>3

(* What cancel writes keeps its type.                                        *)
LEMMA CancelWritesType ==
  ASSUME TypeOK, NEW r \in Req, CancelWrites(r)
  PROVE  /\ pending' \subseteq Req /\ exec' \in Tasks /\ consent' \subseteq Req
         /\ status' \in [Req -> Statuses] /\ fresh' \in [Req -> BOOLEAN]
<1>1. exec' \in Tasks
  <2>1. exec.cancelled \/ (current = r /\ exec.pc # "ended") \in BOOLEAN
    OBVIOUS
  <2>. QED BY <2>1 DEF CancelWrites, TypeOK, Tasks
<1>2. "cancelled" \in Statuses
  BY DEF Statuses, Terminal
<1>. QED BY <1>1, <1>2, UpdateCommandType DEF CancelWrites, TypeOK

(* _finish_execution keeps what it writes typed.                             *)
LEMMA FinishType ==
  ASSUME TypeOK, NEW r \in Req, NEW s \in Statuses, FinishExecution(r, s)
  PROVE  /\ status' \in [Req -> Statuses] /\ fresh' \in [Req -> BOOLEAN]
         /\ futures' \subseteq Req /\ caller' \in [Caller -> Calls]
<1>1. CASE UpdateCommand(r, s) /\ ResolveCompletion(r, caller)
  BY <1>1, UpdateCommandType, ResolveType DEF TypeOK
<1>2. CASE UNCHANGED <<row, futures, caller>>
  BY <1>2 DEF row, TypeOK
<1>. QED
  BY <1>1, <1>2 DEF FinishExecution

(* Every step of the turn keeps the types.                                   *)
LEMMA TurnStepType ==
  ASSUME TypeOK, TurnStep
  PROVE  TypeOK'
<1>1. CASE SubmitRefused
  <2>1. NoTurn \in Turns
    BY <1>1 DEF SubmitRefused, NoTurn, Turns, TurnPcs
  <2>. QED
    BY <1>1, <2>1 DEF SubmitRefused, TypeOK, row, ghosts, bounds
<1>2. CASE Submit
  <2>1. turn \in Turns /\ turn.req \in Req /\ pending \ {turn.req} \subseteq Req
    BY <1>2 DEF TypeOK, Submit, Turns
  <2>2. turn' \in Turns
    <3>1. ASSUME NEW pc \in TurnPcs, TurnMoves(pc)
          PROVE  turn' \in Turns
      BY <1>2, <3>1, TurnMovesType DEF Submit
    <3>2. [turn EXCEPT !.pc = "stale", !.todo = pending \ {turn.req}] \in Turns
      BY <2>1 DEF Turns, TurnPcs
    <3>. QED
      BY <1>2, <3>1, <3>2 DEF Submit, TurnPcs
  <2>3. lock' \in Seq(Procs)
    BY <1>2, LockType DEF Submit, Procs
  <2>. QED
    BY <1>2, <2>2, <2>3 DEF Submit, TypeOK, row, ghosts, bounds
<1>3. CASE SubmitClarification
  <2>1. turn.req \in Req
    BY <1>3 DEF SubmitClarification, InTurnSection, TypeOK, Turns
  <2>2. status' \in [Req -> Statuses] /\ fresh' \in [Req -> BOOLEAN]
    BY <1>3, <2>1, UpdateCommandType DEF SubmitClarification, Statuses
  <2>3. turn' \in Turns
    BY <1>3, TurnMovesType DEF SubmitClarification, TurnPcs, InTurnSection
  <2>4. lock' \in Seq(Procs)
    BY <1>3, LockType DEF SubmitClarification, Procs, Holds, InTurnSection
  <2>. QED
    BY <1>3, <2>1, <2>2, <2>3, <2>4 DEF SubmitClarification, TypeOK, row, ghosts, bounds
<1>4. CASE SubmitEmpty
  <2>1. turn.req \in Req
    BY <1>4 DEF SubmitEmpty, InTurnSection, TypeOK, Turns
  <2>2. status' \in [Req -> Statuses] /\ fresh' \in [Req -> BOOLEAN]
    BY <1>4, <2>1, UpdateCommandType DEF SubmitEmpty, Statuses, Terminal
  <2>3. turn' \in Turns
    BY <1>4, TurnMovesType DEF SubmitEmpty, TurnPcs, InTurnSection
  <2>4. lock' \in Seq(Procs)
    BY <1>4, LockType DEF SubmitEmpty, Procs, Holds, InTurnSection
  <2>. QED
    BY <1>4, <2>1, <2>2, <2>3, <2>4 DEF SubmitEmpty, TypeOK, row, ghosts, bounds
<1>5. CASE SubmitCancelsStale
  <2>1. PICK r \in turn.todo : /\ CancelWrites(r)
                             /\ ResolveCompletion(r, caller)
                             /\ turn' = [turn EXCEPT !.todo = @ \ {r},
                                  !.pc = IF turn.todo = {r} THEN "park" ELSE "stale"]
    BY <1>5 DEF SubmitCancelsStale
  <2>2. r \in Req
    BY <2>1 DEF TypeOK, Turns
  <2>3. futures' \subseteq Req /\ caller' \in [Caller -> Calls]
    BY <2>1, <2>2, ResolveType DEF TypeOK
  <2>4. turn' \in Turns
    <3>1. turn \in Turns /\ turn.pc = "stale"
      BY <1>5 DEF TypeOK, SubmitCancelsStale, InTurnSection
    <3>2. turn.todo \ {r} \subseteq Req /\ turn.req \in Req
      BY <3>1 DEF Turns
    <3>3. turn' = [turn EXCEPT !.todo = turn.todo \ {r},
                    !.pc = IF turn.todo = {r} THEN "park" ELSE "stale"]
      BY <2>1, <3>1 DEF Turns
    <3>. QED
      BY <3>1, <3>2, <3>3 DEF Turns, TurnPcs
  <2>5. lock' \in Seq(Procs)
    BY <1>5, LockType DEF SubmitCancelsStale, InTurnSection, Procs, Holds
  <2>. QED
    BY <1>5, <2>1, <2>2, <2>3, <2>4, <2>5, CancelWritesType
       DEF SubmitCancelsStale, TypeOK, bounds
<1>6. CASE SubmitParks
  <2>1. turn.req \in Req
    BY <1>6 DEF SubmitParks, InTurnSection, TypeOK, Turns
  <2>2. status' \in [Req -> Statuses] /\ fresh' \in [Req -> BOOLEAN]
    BY <1>6, <2>1, UpdateCommandType DEF SubmitParks, Statuses
  <2>3. pending' \subseteq Req
    BY <1>6, <2>1 DEF SubmitParks, TypeOK
  <2>4. turn' \in Turns
    BY <1>6, TurnMovesType DEF SubmitParks, TurnPcs, InTurnSection
  <2>5. lock' \in Seq(Procs)
    BY <1>6, LockType DEF SubmitParks, Procs, Holds, InTurnSection
  <2>. QED
    BY <1>6, <2>1, <2>2, <2>3, <2>4, <2>5 DEF SubmitParks, TypeOK, row, ghosts, bounds
<1>7. CASE SubmitEnqueues
  <2>1. turn.req \in Req
    BY <1>7 DEF SubmitEnqueues, InTurnSection, TypeOK, Turns
  <2>2. /\ status' \in [Req -> Statuses] /\ fresh' \in [Req -> BOOLEAN]
       /\ queue' \in Seq(Req) /\ futures' \subseteq Req
    BY <1>7, <2>1, EnqueueType DEF SubmitEnqueues
  <2>3. turn' \in Turns
    BY <1>7, TurnMovesType DEF SubmitEnqueues, TurnPcs, InTurnSection
  <2>4. lock' \in Seq(Procs)
    BY <1>7, LockType DEF SubmitEnqueues, Procs, Holds, InTurnSection
  <2>. QED
    BY <1>7, <2>1, <2>2, <2>3, <2>4 DEF SubmitEnqueues, TypeOK, row, ghosts, bounds
<1>8. CASE TurnEnds
  <2>1. NoTurn \in Turns
    BY <1>8 DEF TurnEnds, NoTurn, Turns, TurnPcs
  <2>. QED
    BY <1>8, <2>1 DEF TurnEnds, TypeOK, row, ghosts, bounds
<1>9. CASE TurnAborted
  <2>1. turn' \in Turns
    BY <1>9 DEF TurnAborted, TypeOK, Turns, TurnPcs
  <2>2. lock' \in Seq(Procs)
    BY <1>9, LockType DEF TurnAborted, Procs, Holds
  <2>. QED
    BY <1>9, <2>1, <2>2 DEF TurnAborted, TypeOK, row, ghosts, bounds
<1>10. CASE MarkReads
  <2>1. NoTurn \in Turns
    BY <1>10 DEF MarkReads, NoTurn, Turns, TurnPcs
  <2>2. turn' \in Turns
    BY <1>10, <2>1, TurnMovesType DEF MarkReads, TurnPcs
  <2>. QED
    BY <1>10, <2>1, <2>2 DEF MarkReads, TypeOK, row, ghosts, bounds
<1>11. CASE MarkWrites
  <2>1. turn.req \in Req
    BY <1>11 DEF MarkWrites, TypeOK, Turns
  <2>2. status' \in [Req -> Statuses] /\ fresh' \in [Req -> BOOLEAN]
    BY <1>11, <2>1, UpdateCommandType DEF MarkWrites, Statuses, Terminal
  <2>3. NoTurn \in Turns
    BY <1>11 DEF MarkWrites, NoTurn, Turns, TurnPcs
  <2>. QED
    BY <1>11, <2>1, <2>2, <2>3 DEF MarkWrites, TypeOK, row, ghosts, bounds
<1>12. CASE MarkAborted
  <2>1. NoTurn \in Turns
    BY <1>12 DEF MarkAborted, NoTurn, Turns, TurnPcs
  <2>2. \A c \in Caller : [caller[c] EXCEPT !.doomed = @ \ {turn.req}] \in Calls
    BY DEF TypeOK, Calls
  <2>3. caller' \in [Caller -> Calls]
    BY <1>12, <2>2 DEF MarkAborted, TypeOK
  <2>. QED
    BY <1>12, <2>1, <2>3 DEF MarkAborted, TypeOK, row, ghosts, bounds
<1>. QED
  BY <1>1, <1>2, <1>3, <1>4, <1>5, <1>6, <1>7, <1>8, <1>9, <1>10, <1>11, <1>12 DEF TurnStep

(* Every step of the worker keeps the types.                                 *)
LEMMA WorkerStepType ==
  ASSUME TypeOK, WorkerStep
  PROVE  TypeOK'
<1>1. CASE WorkerGets
  <2>1. Head(queue) \in Req /\ queue' \in Seq(Req)
    BY <1>1 DEF WorkerGets, TypeOK
  <2>2. worker' \in Workers
    BY <1>1, <2>1 DEF WorkerGets, Workers, WorkerPcs
  <2>3. lock' \in Seq(Procs)
    BY <1>1, LockType DEF WorkerGets, Procs, Holds
  <2>. QED
    BY <1>1, <2>1, <2>2, <2>3 DEF WorkerGets, TypeOK, row, ghosts, bounds
<1>2. CASE WorkerClaims
  <2>1. worker.req \in Req /\ "executing" \in Statuses
    BY <1>2 DEF WorkerClaims, TypeOK, Workers, Statuses, Live
  <2>2. lock' \in Seq(Procs)
    BY <1>2, LockType DEF WorkerClaims, Procs, Holds
  <2>3. CASE status[worker.req] # "queued"
    <3>1. worker' \in Workers
      BY <1>2, <2>3 DEF WorkerClaims, IdleWorker, Workers, WorkerPcs
    <3>. QED
      BY <1>2, <2>2, <2>3, <3>1 DEF WorkerClaims, TypeOK, row, bounds
  <2>4. CASE status[worker.req] = "queued"
    <3>1. status' \in [Req -> Statuses] /\ fresh' \in [Req -> BOOLEAN]
      BY <1>2, <2>1, <2>4, UpdateCommandType DEF WorkerClaims
    <3>2. exec' \in Tasks
      <4>1. exec' = [pc |-> "step", req |-> worker.req, at |-> 1,
                     cancelled |-> FALSE, outcome |-> "none"]
        BY <1>2, <2>4 DEF WorkerClaims, NoExec
      <4>. QED
        BY <2>1, <4>1 DEF Tasks, ExecPcs
    <3>3. worker' \in Workers
      BY <1>2, <2>1, <2>4 DEF WorkerClaims, TypeOK, Workers, WorkerPcs
    <3>4. runs' \in [Req -> Nat]
      <4>1. runs \in [Req -> Nat] /\ runs[worker.req] + 1 \in Nat
        BY <2>1 DEF TypeOK
      <4>2. runs' = [runs EXCEPT ![worker.req] = runs[worker.req] + 1]
        BY <1>2, <2>4 DEF WorkerClaims
      <4>. QED
        BY <2>1, <4>1, <4>2
    <3>. QED
      BY <1>2, <2>1, <2>2, <2>4, <3>1, <3>2, <3>3, <3>4 DEF WorkerClaims, TypeOK, bounds
  <2>. QED
    BY <2>3, <2>4
<1>3. CASE WorkerAwaits
  <2>1. worker' \in Workers
    BY <1>3 DEF WorkerAwaits, TypeOK, Workers, WorkerPcs
  <2>2. lock' \in Seq(Procs)
    BY <1>3, LockType DEF WorkerAwaits, Procs, Holds
  <2>. QED
    BY <1>3, <2>1, <2>2 DEF WorkerAwaits, TypeOK, row, ghosts, bounds
<1>4. CASE WorkerFinishes
  <2>1. worker.req \in Req
    BY <1>4 DEF WorkerFinishes, TypeOK, Workers
  <2>2. (IF worker.pc = "finish_cancelled" THEN "cancelled" ELSE "failed") \in Statuses
    BY DEF Statuses, Terminal
  <2>3. /\ status' \in [Req -> Statuses] /\ fresh' \in [Req -> BOOLEAN]
       /\ futures' \subseteq Req /\ caller' \in [Caller -> Calls]
    BY <1>4, <2>1, <2>2, FinishType DEF WorkerFinishes
  <2>4. worker' \in Workers
    BY <1>4, <2>1 DEF WorkerFinishes, TypeOK, Workers, WorkerPcs
  <2>5. lock' \in Seq(Procs)
    BY <1>4, LockType DEF WorkerFinishes, Procs, Holds
  <2>. QED
    BY <1>4, <2>3, <2>4, <2>5 DEF WorkerFinishes, TypeOK, ghosts, bounds
<1>5. CASE WorkerCleansUp
  <2>1. worker' \in Workers
    BY <1>5 DEF WorkerCleansUp, Workers, WorkerPcs, IdleWorker
  <2>2. lock' \in Seq(Procs)
    BY <1>5, LockType DEF WorkerCleansUp, Procs, Holds
  <2>. QED
    BY <1>5, <2>1, <2>2 DEF WorkerCleansUp, TypeOK, row, ghosts, bounds
<1>. QED
  BY <1>1, <1>2, <1>3, <1>4, <1>5 DEF WorkerStep

(* Every step of the task keeps the types.                                   *)
LEMMA ExecStepType ==
  ASSUME TypeOK, ExecStep
  PROVE  TypeOK'
<1>1. CASE ExecBeginsStep
  <2>1. exec' \in Tasks
    BY <1>1 DEF ExecBeginsStep, TypeOK, Tasks, ExecPcs
  <2>. QED
    BY <1>1, <2>1 DEF ExecBeginsStep, TypeOK, row, ghosts, bounds
<1>2. CASE ExecStepFails
  <2>1. exec' \in Tasks
    BY <1>2 DEF ExecStepFails, TypeOK, Tasks, ExecPcs
  <2>2. lock' \in Seq(Procs)
    BY <1>2, LockType DEF ExecStepFails, Procs, Holds
  <2>. QED
    BY <1>2, <2>1, <2>2 DEF ExecStepFails, TypeOK, row, ghosts, bounds
<1>3. CASE ExecStepSucceeds
  <2>1. exec.at + 1 \in Nat
    BY <1>3 DEF ExecStepSucceeds, TypeOK, Tasks
  <2>2. exec' \in Tasks
    BY <1>3, <2>1 DEF ExecStepSucceeds, TypeOK, Tasks, ExecPcs
  <2>. QED
    BY <1>3, <2>1, <2>2 DEF ExecStepSucceeds, TypeOK, row, ghosts, bounds
<1>4. CASE ExecStepsDone
  <2>1. exec' \in Tasks
    BY <1>4 DEF ExecStepsDone, TypeOK, Tasks, ExecPcs
  <2>2. lock' \in Seq(Procs)
    BY <1>4, LockType DEF ExecStepsDone, Procs, Holds
  <2>. QED
    BY <1>4, <2>1, <2>2 DEF ExecStepsDone, TypeOK, row, ghosts, bounds
<1>5. CASE ExecFinishes
  <2>1. exec.req \in Req
    BY <1>5 DEF ExecFinishes, TypeOK, Tasks
  <2>2. (IF exec.pc = "finish_ok" THEN "succeeded" ELSE "failed") \in Statuses
    BY DEF Statuses, Terminal
  <2>3. /\ status' \in [Req -> Statuses] /\ fresh' \in [Req -> BOOLEAN]
       /\ futures' \subseteq Req /\ caller' \in [Caller -> Calls]
    BY <1>5, <2>1, <2>2, FinishType DEF ExecFinishes
  <2>4. exec' \in Tasks
    BY <1>5, <2>1 DEF ExecFinishes, TypeOK, Tasks, ExecPcs
  <2>5. lock' \in Seq(Procs)
    BY <1>5, LockType DEF ExecFinishes, Procs, Holds
  <2>. QED
    BY <1>5, <2>3, <2>4, <2>5 DEF ExecFinishes, TypeOK, ghosts, bounds
<1>6. CASE ExecReports
  <2>1. exec' \in Tasks
    BY <1>6 DEF ExecReports, TypeOK, Tasks, ExecPcs
  <2>. QED
    BY <1>6, <2>1 DEF ExecReports, TypeOK, row, ghosts, bounds
<1>7. CASE ExecCancelled
  <2>1. exec' \in Tasks
    BY <1>7 DEF ExecCancelled, TypeOK, Tasks, ExecPcs
  <2>2. lock' \in Seq(Procs)
    BY <1>7, LockType DEF ExecCancelled, Procs, Holds
  <2>. QED
    BY <1>7, <2>1, <2>2 DEF ExecCancelled, TypeOK, row, ghosts, bounds
<1>. QED
  BY <1>1, <1>2, <1>3, <1>4, <1>5, <1>6, <1>7 DEF ExecStep

(* Every step of confirm, cancel, wait and STOP keeps the types.             *)
LEMMA CallerStepType ==
  ASSUME TypeOK, NEW c \in Caller, CallerStep(c)
  PROVE  TypeOK'
<1>1. CASE ConfirmTooLate(c)
  <2>1. caller[c].req \in Req
    BY <1>1 DEF ConfirmTooLate, InSection, TypeOK, Calls, Requests
  <2>2. status' \in [Req -> Statuses] /\ fresh' \in [Req -> BOOLEAN]
    BY <1>1, <2>1, UpdateCommandType DEF ConfirmTooLate, TypeOK, Statuses, Terminal, row
  <2>3. pending' \subseteq Req /\ consent' \subseteq Req
    BY <1>1 DEF ConfirmTooLate, TypeOK
  <2>4. caller' \in [Caller -> Calls]
    BY <1>1, ReturnsType DEF ConfirmTooLate
  <2>5. lock' \in Seq(Procs)
    BY <1>1, LockType DEF ConfirmTooLate, Procs, Holds, InSection
  <2>. QED
    BY <1>1, <2>1, <2>2, <2>3, <2>4, <2>5 DEF ConfirmTooLate, TypeOK, row, ghosts, bounds
<1>2. CASE ConfirmNotRunnable(c)
  <2>1. caller' \in [Caller -> Calls]
    BY <1>2, ReturnsType DEF ConfirmNotRunnable
  <2>2. lock' \in Seq(Procs)
    BY <1>2, LockType DEF ConfirmNotRunnable, Procs, Holds, InSection
  <2>. QED
    BY <1>2, <2>1, <2>2 DEF ConfirmNotRunnable, TypeOK, row, ghosts, bounds
<1>3. CASE Confirm(c)
  <2>1. caller[c].req \in Req
    BY <1>3 DEF Confirm, InSection, TypeOK, Calls, Requests
  <2>2. /\ status' \in [Req -> Statuses] /\ fresh' \in [Req -> BOOLEAN]
       /\ queue' \in Seq(Req) /\ futures' \subseteq Req
    BY <1>3, <2>1, EnqueueType DEF Confirm
  <2>3. pending' \subseteq Req /\ consent' \subseteq Req
    BY <1>3, <2>1 DEF Confirm, TypeOK
  <2>4. caller' \in [Caller -> Calls]
    BY <1>3, ReturnsType DEF Confirm
  <2>5. lock' \in Seq(Procs)
    BY <1>3, LockType DEF Confirm, Procs, Holds, InSection
  <2>. QED
    BY <1>3, <2>1, <2>2, <2>3, <2>4, <2>5 DEF Confirm, TypeOK, row, ghosts, bounds
<1>4. CASE Cancel(c)
  <2>1. caller[c].req \in Req
    BY <1>4 DEF Cancel, InSection, TypeOK, Calls, Requests
  <2>2. Becomes(c, NoCall) \in [Caller -> Calls]
    BY CallerType DEF NoCall, Calls, CallerPcs, Requests
  <2>3. futures' \subseteq Req /\ caller' \in [Caller -> Calls]
    BY <1>4, <2>1, <2>2, ResolveType DEF Cancel
  <2>4. halted' \subseteq Req
    BY <1>4, <2>1 DEF Cancel, TypeOK
  <2>5. lock' \in Seq(Procs)
    BY <1>4, LockType DEF Cancel, InSection, Procs, Holds
  <2>. QED
    BY <1>4, <2>1, <2>3, <2>4, <2>5, CancelWritesType DEF Cancel, TypeOK, bounds
<1>5. CASE WaitReads(c)
  <2>1. caller' \in [Caller -> Calls]
    BY <1>5, ReturnsType, MovesType DEF WaitReads, CallerPcs, Requests
  <2>. QED
    BY <1>5, <2>1 DEF WaitReads, TypeOK, row, ghosts, bounds
<1>6. CASE WaitRegisters(c)
  <2>1. caller[c].req \in Req
    BY <1>6 DEF WaitRegisters, TypeOK, Calls, Requests
  <2>2. futures' \subseteq Req
    BY <1>6, <2>1 DEF WaitRegisters, TypeOK
  <2>3. caller' \in [Caller -> Calls]
    BY <1>6, MovesType DEF WaitRegisters, CallerPcs, Requests
  <2>. QED
    BY <1>6, <2>1, <2>2, <2>3 DEF WaitRegisters, TypeOK, row, ghosts, bounds
<1>7. CASE StopSnapshots(c)
  <2>1. caller[c] \in Calls /\ pending \subseteq Req
    BY DEF TypeOK
  <2>2. [caller[c] EXCEPT !.todo = pending,
          !.pc = IF pending = {} THEN "stop_drain" ELSE "stop_pending"] \in Calls
    BY <2>1 DEF Calls, CallerPcs, StopPcs, Requests
  <2>3. caller' \in [Caller -> Calls]
    BY <1>7, <2>2, CallerType DEF StopSnapshots
  <2>4. lock' \in Seq(Procs)
    BY <1>7, LockType DEF StopSnapshots, Procs
  <2>. QED
    BY <1>7, <2>3, <2>4 DEF StopSnapshots, TypeOK, row, ghosts, bounds
<1>8. CASE StopCancelsPending(c)
  <2>. DEFINE call(r) == [caller[c] EXCEPT !.todo = @ \ {r},
                  !.pc = IF caller[c].todo = {r} THEN "stop_drain" ELSE "stop_pending"]
  <2>1. PICK r \in caller[c].todo : /\ CancelWrites(r)
                                  /\ ResolveCompletion(r, Becomes(c, call(r)))
    BY <1>8 DEF StopCancelsPending
  <2>2. r \in Req /\ caller[c] \in Calls
    BY <2>1 DEF TypeOK, Calls
  <2>3. call(r) \in Calls
    BY <2>2 DEF Calls, CallerPcs, StopPcs, Requests
  <2>4. Becomes(c, call(r)) \in [Caller -> Calls]
    BY <2>3, CallerType
  <2>5. futures' \subseteq Req /\ caller' \in [Caller -> Calls]
    BY <2>1, <2>2, <2>4, ResolveType
  <2>6. lock' \in Seq(Procs)
    BY <1>8, LockType DEF StopCancelsPending, InSection, Procs, Holds
  <2>. QED
    BY <1>8, <2>1, <2>2, <2>5, <2>6, CancelWritesType
       DEF StopCancelsPending, TypeOK, bounds
<1>9. CASE StopDrainsOne(c)
  <2>1. Head(queue) \in Req /\ queue' \in Seq(Req)
    BY <1>9 DEF StopDrainsOne, TypeOK
  <2>2. status' \in [Req -> Statuses] /\ fresh' \in [Req -> BOOLEAN]
    BY <1>9, <2>1, UpdateCommandType DEF StopDrainsOne, Statuses, Terminal
  <2>3. futures' \subseteq Req /\ caller' \in [Caller -> Calls]
    BY <1>9, <2>1, ResolveType DEF StopDrainsOne, TypeOK
  <2>4. lock' \in Seq(Procs)
    BY <1>9, LockType DEF StopDrainsOne, InSection, Procs, Holds
  <2>. QED
    BY <1>9, <2>1, <2>2, <2>3, <2>4 DEF StopDrainsOne, TypeOK, bounds
<1>10. CASE StopDrained(c)
  <2>1. caller' \in [Caller -> Calls]
    BY <1>10, MovesType DEF StopDrained, CallerPcs, StopPcs, Requests
  <2>2. lock' \in Seq(Procs)
    BY <1>10, LockType DEF StopDrained, Procs, Holds, InSection
  <2>. QED
    BY <1>10, <2>1, <2>2 DEF StopDrained, TypeOK, row, ghosts, bounds
<1>11. CASE StopCancelsCurrent(c)
  <2>1. status' \in [Req -> Statuses] /\ fresh' \in [Req -> BOOLEAN]
    BY <1>11, UpdateCommandType DEF StopCancelsCurrent, TypeOK, Statuses, Terminal, row
  <2>2. exec' \in Tasks
    <3>1. CASE UNCHANGED exec
      BY <3>1 DEF TypeOK
    <3>2. CASE exec' = [exec EXCEPT !.cancelled = @ \/ exec.pc # "ended"]
      <4>1. (exec.cancelled \/ (exec.pc # "ended")) \in BOOLEAN
        OBVIOUS
      <4>. QED
        BY <3>2, <4>1 DEF TypeOK, Tasks
    <3>. QED
      BY <1>11, <3>1, <3>2 DEF StopCancelsCurrent
  <2>3. caller[c] \in Calls /\ current \in Req \cup {NoReq}
    BY DEF TypeOK
  <2>4. [caller[c] EXCEPT !.pc = "stop_join", !.joins = current] \in Calls
    BY <2>3 DEF Calls, CallerPcs, StopPcs, Requests
  <2>5. caller' \in [Caller -> Calls]
    BY <1>11, <2>4, CallerType DEF StopCancelsCurrent
  <2>6. lock' \in Seq(Procs)
    BY <1>11, LockType DEF StopCancelsCurrent, InSection, Procs, Holds
  <2>. QED
    BY <1>11, <2>1, <2>2, <2>5, <2>6 DEF StopCancelsCurrent, TypeOK, bounds
<1>12. CASE StopJoins(c)
  <2>1. caller' \in [Caller -> Calls]
    BY <1>12, MovesType DEF StopJoins, CallerPcs, StopPcs, Requests
  <2>. QED
    BY <1>12, <2>1 DEF StopJoins, TypeOK, row, ghosts, bounds
<1>13. CASE StopRaises(c)
  <2>1. caller' \in [Caller -> Calls]
    BY <1>13, ReturnsType DEF StopRaises
  <2>. QED
    BY <1>13, <2>1 DEF StopRaises, TypeOK, row, ghosts, bounds
<1>14. CASE StopReturns(c)
  <2>1. caller' \in [Caller -> Calls]
    BY <1>14, ReturnsType DEF StopReturns
  <2>2. halted' \subseteq Req
    BY <1>14 DEF StopReturns, TypeOK, Calls
  <2>. QED
    BY <1>14, <2>1, <2>2 DEF StopReturns, TypeOK, row, ghosts, bounds
<1>. QED
  BY <1>1, <1>2, <1>3, <1>4, <1>5, <1>6, <1>7, <1>8, <1>9, <1>10, <1>11, <1>12, <1>13,
     <1>14 DEF CallerStep

(* Counting a call keeps the counters typed.                                 *)
LEMMA PlacesType ==
  ASSUME TypeOK, NEW c \in Caller, NEW k \in AllCalls, Places(c, k)
  PROVE  calls' \in [Caller -> [AllCalls -> Nat]]
<1>1. calls[c] \in [AllCalls -> Nat] /\ calls[c][k] + 1 \in Nat
  BY DEF TypeOK
<1>2. calls' = [calls EXCEPT ![c] = [calls[c] EXCEPT ![k] = calls[c][k] + 1]]
  BY DEF Places, TypeOK
<1>. QED
  BY <1>1, <1>2 DEF TypeOK

(* The records everyone starts from have their types.                        *)
LEMMA InitialRecords ==
  /\ NoTurn \in Turns /\ NoExec \in Tasks /\ NoCall \in Calls /\ IdleWorker \in Workers
  BY DEF NoTurn, Turns, TurnPcs, NoExec, Tasks, ExecPcs, NoCall, Calls, CallerPcs,
         Requests, IdleWorker, Workers, WorkerPcs

(* The call of STOP keeps callers and counters typed.                        *)
LEMMA StopsType ==
  ASSUME TypeOK, NEW c \in Caller, Stops(c)
  PROVE  caller' \in [Caller -> Calls] /\ calls' \in [Caller -> [AllCalls -> Nat]]
<1>1. Doomed \subseteq Req /\ turn.req \in Req \cup {NoReq}
  BY DEF TypeOK, Doomed, Turns
<1>2. [NoCall EXCEPT !.pc = "stop_snapshot", !.req = turn.req, !.doomed = Doomed] \in Calls
  BY <1>1 DEF NoCall, Calls, CallerPcs, StopPcs, Requests
<1>3. caller' \in [Caller -> Calls]
  BY <1>2, CallerType DEF Stops
<1>4. calls' \in [Caller -> [AllCalls -> Nat]]
  BY PlacesType DEF Stops, AllCalls
<1>. QED
  BY <1>3, <1>4

(* New requests, calls, time and restarts keep the types.                    *)
LEMMA WorldStepType ==
  ASSUME TypeOK,
         \/ \E r \in Req : TurnStarts(r) \/ Expires(r)
         \/ \E c \in Caller : \/ \E k \in AllCalls \ {"stop"}, r \in Req : Call(c, k, r)
                              \/ StopCall(c) \/ StopCutsSection(c)
         \/ Restart
  PROVE  TypeOK'
<1>1. ASSUME NEW r \in Req, TurnStarts(r)
      PROVE  TypeOK'
  <2>1. status' \in [Req -> Statuses] /\ fresh' \in [Req -> BOOLEAN]
    BY <1>1, UpdateCommandType DEF TurnStarts, Statuses
  <2>2. turn' = [pc |-> "planning", req |-> r, todo |-> {}, cancelled |-> FALSE]
    BY <1>1 DEF TurnStarts, NoTurn
  <2>3. turn' \in Turns
    BY <2>2 DEF Turns, TurnPcs
  <2>. QED
    BY <1>1, <2>1, <2>3 DEF TurnStarts, TypeOK, ghosts, bounds
<1>2. ASSUME NEW r \in Req, Expires(r)
      PROVE  TypeOK'
  <2>1. fresh' \in [Req -> BOOLEAN]
    BY <1>2 DEF Expires, TypeOK
  <2>. QED
    BY <1>2, <2>1 DEF Expires, TypeOK, ghosts, bounds
<1>3. ASSUME NEW c \in Caller, NEW k \in AllCalls \ {"stop"}, NEW r \in Req, Call(c, k, r)
      PROVE  TypeOK'
  <2>. DEFINE pc == IF k = "wait" THEN "read" ELSE k
  <2>1. calls' \in [Caller -> [AllCalls -> Nat]]
    BY <1>3, PlacesType DEF Call
  <2>2. pc \in CallerPcs
    BY DEF AllCalls, CallerPcs, Requests
  <2>3. [NoCall EXCEPT !.req = r, !.pc = pc] \in Calls
    BY <2>2 DEF NoCall, Calls
  <2>4. \A d \in Caller : [caller[d] EXCEPT !.doomed = @ \ {r}] \in Calls
    <3>1. TAKE d \in Caller
    <3>2. caller[d] \in Calls /\ caller[d].doomed \ {r} \subseteq Req
      BY DEF TypeOK, Calls
    <3>. QED
      BY <3>2 DEF Calls
  <2>5. caller' \in [Caller -> Calls]
    BY <1>3, <2>3, <2>4 DEF Call, TypeOK
  <2>6. lock' \in Seq(Procs)
    BY <1>3, LockType DEF Call, Procs, TypeOK
  <2>. QED
    BY <1>3, <2>1, <2>5, <2>6 DEF Call, TypeOK, row, ghosts
<1>4. ASSUME NEW c \in Caller, StopCall(c)
      PROVE  TypeOK'
  <2>1. turn' \in Turns
    BY <1>4 DEF StopCall, TypeOK, Turns
  <2>. QED
    BY <1>4, <2>1, StopsType DEF StopCall, TypeOK, row, ghosts
<1>5. ASSUME NEW c \in Caller, StopCutsSection(c)
      PROVE  TypeOK'
  <2>1. turn.req \in Req /\ turn \in Turns
    BY <1>5 DEF StopCutsSection, TypeOK, Turns
  <2>2. /\ status' \in [Req -> Statuses] /\ fresh' \in [Req -> BOOLEAN]
        /\ pending' \subseteq Req /\ exec' \in Tasks /\ consent' \subseteq Req
    <3>1. {"awaiting", "succeeded", "queued", "rejected"} \subseteq Statuses
      BY DEF Statuses, Live, Terminal
    <3>2. ASSUME NEW s \in Statuses, UpdateCommand(turn.req, s), UNCHANGED <<exec, consent>>,
                 pending' \in {pending, pending \cup {turn.req}}
          PROVE  /\ status' \in [Req -> Statuses] /\ fresh' \in [Req -> BOOLEAN]
                 /\ pending' \subseteq Req /\ exec' \in Tasks /\ consent' \subseteq Req
      BY <2>1, <3>2, UpdateCommandType DEF TypeOK
    <3>3. ASSUME NEW r \in turn.todo, CancelWrites(r)
          PROVE  /\ status' \in [Req -> Statuses] /\ fresh' \in [Req -> BOOLEAN]
                 /\ pending' \subseteq Req /\ exec' \in Tasks /\ consent' \subseteq Req
      <4>1. r \in Req
        BY <2>1 DEF Turns
      <4>. QED
        BY <3>3, <4>1, CancelWritesType
    <3>. QED
      BY <1>5, <3>1, <3>2, <3>3 DEF StopCutsSection
  <2>3. turn' \in Turns
    BY <1>5, <2>1 DEF StopCutsSection, Turns, TurnPcs
  <2>4. lock' \in Seq(Procs)
    BY <1>5, LockType DEF StopCutsSection, InTurnSection, Procs, Holds
  <2>. QED
    BY <1>5, <2>2, <2>3, <2>4, StopsType DEF StopCutsSection, TypeOK
<1>6. ASSUME Restart
      PROVE  TypeOK'
  <2>1. exec' \in Tasks /\ worker' \in Workers /\ turn' \in Turns
    BY <1>6, InitialRecords DEF Restart
  <2>2. caller' \in [Caller -> Calls]
    BY <1>6, InitialRecords DEF Restart
  <2>. QED
    BY <1>6, <2>1, <2>2 DEF Restart, TypeOK, row, ghosts
<1>. QED
  BY <1>1, <1>2, <1>3, <1>4, <1>5, <1>6

(* Every step keeps the types.                                               *)
LEMMA StepKeepsTypes ==
  ASSUME TypeOK, [Next]_vars
  PROVE  TypeOK'
<1>1. CASE UNCHANGED vars
  BY <1>1 DEF TypeOK, vars, row, ghosts, bounds
<1>2. CASE Next
  BY <1>2, TurnStepType, WorkerStepType, ExecStepType, CallerStepType, WorldStepType
     DEF Next
<1>. QED
  BY <1>1, <1>2

(* In every behaviour, for any requests, callers, plans and queue limit, every *)
(* variable of the executor keeps its type.                                  *)
THEOREM TypeCorrect == Spec => []TypeOK
<1>1. Init => TypeOK
  BY InitialRecords DEF Init, TypeOK, Statuses
<1>2. TypeOK /\ [Next]_vars => TypeOK'
  BY StepKeepsTypes
<1>. QED
  BY <1>1, <1>2, PTL DEF Spec

-----------------------------------------------------------------------------
(* The safety of the executor.                                               *)

(* The rule of the rows: who may write row r, and with what.                 *)
MayBeWritten(r, s) ==
  \/ s = "cancelled"
  \/ Submitting(r)
  \/ status[r] \in {"absent", "awaiting", "executing"}
  \/ status[r] = "queued" /\ worker.pc = "claim" /\ worker.req = r /\ worker'.pc = "await"

RowRule == \A r \in Req : status'[r] # status[r] => MayBeWritten(r, status'[r])

(* A row written by a write that the rule allows obeys the rule.             *)
LEMMA RowWritten ==
  ASSUME TypeOK, NEW r \in Req, NEW s, UpdateCommand(r, s), MayBeWritten(r, s)
  PROVE  RowRule
<1>1. \A q \in Req : status'[q] = IF q = r THEN s ELSE status[q]
  BY DEF TypeOK, UpdateCommand
<1>. QED
  BY <1>1 DEF RowRule

(* Rows nobody writes obey the rule.                                         *)
LEMMA SameRows ==
  ASSUME UNCHANGED status PROVE RowRule
  BY DEF RowRule

(* The turn obeys the rule: it writes rows while it submits, or cancelled.   *)
LEMMA TurnKeepsResults ==
  ASSUME TypeOK, TurnStep
  PROVE  RowRule
<1>1. CASE UNCHANGED status
  BY <1>1, SameRows
<1>2. CASE SubmitClarification \/ SubmitEmpty \/ SubmitParks \/ SubmitEnqueues
  <2>1. turn.req \in Req /\ Submitting(turn.req)
    BY <1>2 DEF SubmitClarification, SubmitEmpty, SubmitParks, SubmitEnqueues, InTurnSection,
                Submitting, InSubmit, TypeOK, Turns
  <2>2. PICK s : UpdateCommand(turn.req, s)
    BY <1>2 DEF SubmitClarification, SubmitEmpty, SubmitParks, SubmitEnqueues, EnqueueLocked
  <2>. QED
    BY <2>1, <2>2, RowWritten DEF MayBeWritten
<1>3. CASE SubmitCancelsStale
  <2>1. PICK r \in turn.todo : UpdateCommand(r, "cancelled")
    BY <1>3 DEF SubmitCancelsStale, CancelWrites
  <2>2. r \in Req
    BY <2>1 DEF TypeOK, Turns
  <2>. QED
    BY <2>1, <2>2, RowWritten DEF MayBeWritten
<1>4. CASE MarkWrites
  <2>1. turn.req \in Req
    BY <1>4 DEF MarkWrites, TypeOK, Turns
  <2>. QED
    BY <1>4, <2>1, RowWritten DEF MarkWrites, MayBeWritten
<1>. QED
  BY <1>1, <1>2, <1>3, <1>4 DEF TurnStep, SubmitRefused, Submit, TurnEnds, TurnAborted,
                                MarkReads, MarkAborted, row

(* Callers obey the rule: confirm reads before it writes, others cancel.     *)
LEMMA CallersKeepResults ==
  ASSUME TypeOK, NEW c \in Caller, CallerStep(c) \/ StopCall(c) \/ StopCutsSection(c)
  PROVE  RowRule
<1>1. CASE UNCHANGED status
  BY <1>1, SameRows
<1>2. ASSUME NEW r \in Req, UpdateCommand(r, "cancelled")
      PROVE  RowRule
  BY <1>2, RowWritten DEF MayBeWritten
<1>3. CASE Confirm(c)
  <2>1. caller[c].req \in Req /\ status[caller[c].req] = "awaiting"
    BY <1>3 DEF Confirm, InSection, TypeOK, Calls, Requests
  <2>2. PICK s : UpdateCommand(caller[c].req, s)
    BY <1>3 DEF Confirm, EnqueueLocked
  <2>. QED
    BY <2>1, <2>2, RowWritten DEF MayBeWritten
<1>4. CASE ConfirmTooLate(c) \/ Cancel(c)
  <2>1. caller[c].req \in Req
    BY <1>4 DEF ConfirmTooLate, Cancel, InSection, TypeOK, Calls, Requests
  <2>. QED
    BY <1>1, <1>2, <1>4, <2>1 DEF ConfirmTooLate, Cancel, CancelWrites, row
<1>5. CASE StopCancelsPending(c)
  <2>1. caller[c].todo \subseteq Req
    BY DEF TypeOK, Calls
  <2>. QED
    BY <1>2, <1>5, <2>1 DEF StopCancelsPending, CancelWrites
<1>6. CASE StopDrainsOne(c)
  <2>1. Head(queue) \in Req
    BY <1>6 DEF StopDrainsOne, TypeOK
  <2>. QED
    BY <1>2, <1>6, <2>1 DEF StopDrainsOne
<1>7. CASE StopCancelsCurrent(c)
  BY <1>1, <1>2, <1>7 DEF StopCancelsCurrent, TypeOK, row
<1>8. CASE StopCutsSection(c)
  <2>1. turn.req \in Req /\ Submitting(turn.req) /\ turn.todo \subseteq Req
    BY <1>8 DEF StopCutsSection, Submitting, InSubmit, TypeOK, Turns
  <2>2. ASSUME NEW s, UpdateCommand(turn.req, s)
        PROVE  RowRule
    BY <2>1, <2>2, RowWritten DEF MayBeWritten
  <2>. QED
    BY <1>2, <1>8, <2>1, <2>2 DEF StopCutsSection, CancelWrites
<1>. QED
  BY <1>1, <1>3, <1>4, <1>5, <1>6, <1>7, <1>8
     DEF CallerStep, ConfirmNotRunnable, WaitReads, WaitRegisters, StopSnapshots, StopDrained,
         StopJoins, StopRaises, StopReturns, StopCall, row

(* _finish_execution obeys the rule: it reads before it writes.              *)
LEMMA FinishKeepsResults ==
  ASSUME TypeOK, NEW r \in Req, NEW s, FinishExecution(r, s)
  PROVE  RowRule
<1>1. CASE status[r] = "executing" /\ UpdateCommand(r, s)
  BY <1>1, RowWritten DEF MayBeWritten
<1>2. CASE UNCHANGED row
  BY <1>2, SameRows DEF row
<1>. QED
  BY <1>1, <1>2 DEF FinishExecution

(* Worker and task obey the rule.                                            *)
LEMMA ExecutionKeepsResults ==
  ASSUME TypeOK, WorkerStep \/ ExecStep
  PROVE  RowRule
<1>1. CASE UNCHANGED status
  BY <1>1, SameRows
<1>2. CASE WorkerFinishes
  <2>1. worker.req \in Req
    BY <1>2 DEF WorkerFinishes, TypeOK, Workers
  <2>. QED
    BY <1>2, <2>1, FinishKeepsResults DEF WorkerFinishes
<1>3. CASE ExecFinishes
  <2>1. exec.req \in Req
    BY <1>3 DEF ExecFinishes, TypeOK, Tasks
  <2>. QED
    BY <1>3, <2>1, FinishKeepsResults DEF ExecFinishes
<1>4. CASE WorkerClaims
  <2>1. worker.req \in Req
    BY <1>4 DEF WorkerClaims, TypeOK, Workers
  <2>2. CASE status[worker.req] = "queued"
    <3>1. worker'.pc = "await"
      BY <1>4, <2>2 DEF WorkerClaims, TypeOK, Workers
    <3>. QED
      BY <1>4, <2>1, <2>2, <3>1, RowWritten DEF WorkerClaims, MayBeWritten
  <2>3. CASE status[worker.req] # "queued"
    BY <1>1, <1>4, <2>3 DEF WorkerClaims, row
  <2>. QED
    BY <2>2, <2>3
<1>. QED
  BY <1>1, <1>2, <1>3, <1>4
     DEF WorkerStep, WorkerGets, WorkerAwaits, WorkerCleansUp, ExecStep, ExecBeginsStep,
         ExecStepFails, ExecStepSucceeds, ExecStepsDone, ExecReports, ExecCancelled, row

(* Every step obeys the rule.                                                *)
LEMMA StepKeepsRowRule ==
  ASSUME TypeOK, Next
  PROVE  RowRule
<1>1. ASSUME NEW r \in Req, TurnStarts(r)
      PROVE  RowRule
  BY <1>1, RowWritten DEF TurnStarts, MayBeWritten
<1>2. ASSUME NEW r \in Req, Expires(r)
      PROVE  RowRule
  BY <1>2, SameRows DEF Expires
<1>3. ASSUME NEW c \in Caller, NEW k \in AllCalls, NEW r \in Req, Call(c, k, r)
      PROVE  RowRule
  BY <1>3, SameRows DEF Call, row
<1>4. CASE Restart
  BY <1>4, SameRows DEF Restart, row
<1>. QED
  BY <1>1, <1>2, <1>3, <1>4, TurnKeepsResults, CallersKeepResults, ExecutionKeepsResults
     DEF Next

(* A row with a result changes afterwards only to cancelled, or while the turn *)
(* still submits the request: update_command never reads what it overwrites, *)
(* its callers do.                                                           *)
THEOREM ResultsStand == Spec => ResultOnlyCancelled
<1>. DEFINE ResultKept == \A r \in Req :
              status[r] \in Terminal /\ status'[r] # status[r]
                => status'[r] = "cancelled" \/ Submitting(r)
<1>1. RowRule => ResultKept
  BY DEF RowRule, MayBeWritten, Terminal
<1>2. TypeOK /\ [Next]_vars => [ResultKept]_vars
  BY <1>1, StepKeepsRowRule
<1>. QED
  BY <1>2, TypeCorrect, PTL DEF Spec, ResultOnlyCancelled

(* What has not been claimed has not run; what is submitted is planned, or was *)
(* cancelled meanwhile.                                                      *)
RunsInv ==
  /\ AtMostOnce
  /\ \A r \in Req :
       status[r] \in {"absent", "planning", "awaiting", "queued"} => runs[r] = 0
  /\ \A r \in Req :
       Submitting(r) => runs[r] = 0 /\ status[r] \in {"planning", "cancelled"}

(* Runs stay counted when no row is written.                                 *)
LEMMA RunsSameRows ==
  ASSUME RunsInv, UNCHANGED <<status, runs>>,
         \A r \in Req : Submitting(r)' => Submitting(r)
  PROVE  RunsInv'
  BY DEF RunsInv, AtMostOnce

(* Runs stay counted when a row is written that has a result or has not run. *)
LEMMA RunsRowWritten ==
  ASSUME TypeOK, RunsInv, NEW r \in Req, NEW s, UpdateCommand(r, s), UNCHANGED runs,
         s \in Terminal \/ runs[r] = 0,
         \A q \in Req : Submitting(q)' => \/ Submitting(q)
                                          \/ q = r /\ s = "planning" /\ runs[r] = 0,
         Submitting(r)' => s \in {"planning", "cancelled"}
  PROVE  RunsInv'
<1>1. \A q \in Req : status'[q] = IF q = r THEN s ELSE status[q]
  BY DEF TypeOK, UpdateCommand
<1>2. s \in Terminal => s \notin {"absent", "planning", "awaiting", "queued"}
  BY DEF Terminal
<1>3. \A q \in Req : Submitting(q)' => runs'[q] = 0 /\ status'[q] \in {"planning", "cancelled"}
  BY <1>1 DEF RunsInv
<1>4. \A q \in Req :
        status'[q] \in {"absent", "planning", "awaiting", "queued"} => runs'[q] = 0
  BY <1>1, <1>2 DEF RunsInv
<1>. QED
  BY <1>3, <1>4 DEF RunsInv, AtMostOnce

(* The turn keeps the runs counted.                                          *)
LEMMA TurnStepRuns ==
  ASSUME TypeOK, RunsInv, TurnStep
  PROVE  RunsInv'
<1>1. CASE SubmitRefused \/ TurnEnds \/ MarkAborted
  BY <1>1, RunsSameRows DEF SubmitRefused, TurnEnds, MarkAborted, row, ghosts, Submitting,
     InSubmit, NoTurn
<1>2. CASE Submit
  <2>1. turn'.req = turn.req
    BY <1>2 DEF Submit, TurnMoves, TypeOK, Turns
  <2>. QED
    BY <1>2, <2>1, RunsSameRows DEF Submit, row, ghosts, Submitting
<1>3. CASE TurnAborted \/ MarkReads
  <2>1. turn \in Turns
    BY DEF TypeOK
  <2>2. TurnAborted => turn'.pc = "mark_read"
    BY <2>1 DEF TurnAborted, Turns
  <2>3. MarkReads => turn'.pc \in {"idle", "mark_write"}
    BY <2>1 DEF MarkReads, TurnMoves, NoTurn, Turns
  <2>. QED
    BY <1>3, <2>2, <2>3, RunsSameRows DEF TurnAborted, MarkReads, row, ghosts, Submitting,
       InSubmit
<1>4. CASE SubmitClarification \/ SubmitEmpty \/ SubmitParks \/ SubmitEnqueues
  <2>1. turn.req \in Req /\ Submitting(turn.req)
    BY <1>4 DEF SubmitClarification, SubmitEmpty, SubmitParks, SubmitEnqueues, InTurnSection,
                Submitting, InSubmit, TypeOK, Turns
  <2>2. runs[turn.req] = 0
    BY <2>1 DEF RunsInv
  <2>3. turn'.pc = "reply"
    BY <1>4 DEF SubmitClarification, SubmitEmpty, SubmitParks, SubmitEnqueues, TurnMoves,
                TypeOK, Turns
  <2>4. \A q \in Req : ~Submitting(q)'
    BY <2>3 DEF Submitting, InSubmit
  <2>5. PICK s : UpdateCommand(turn.req, s)
    BY <1>4 DEF SubmitClarification, SubmitEmpty, SubmitParks, SubmitEnqueues, EnqueueLocked
  <2>. QED
    BY <1>4, <2>1, <2>2, <2>4, <2>5, RunsRowWritten
       DEF SubmitClarification, SubmitEmpty, SubmitParks, SubmitEnqueues, ghosts
<1>5. CASE SubmitCancelsStale
  <2>1. PICK r \in turn.todo :
          /\ UpdateCommand(r, "cancelled")
          /\ turn' = [turn EXCEPT !.todo = @ \ {r},
                                  !.pc = IF turn.todo = {r} THEN "park" ELSE "stale"]
    BY <1>5 DEF SubmitCancelsStale, CancelWrites
  <2>2. r \in Req /\ turn'.req = turn.req /\ turn.pc = "stale"
    BY <1>5, <2>1 DEF SubmitCancelsStale, InTurnSection, TypeOK, Turns
  <2>3. \A q \in Req : Submitting(q)' => Submitting(q)
    BY <2>2 DEF Submitting, InSubmit
  <2>. QED
    BY <1>5, <2>1, <2>2, <2>3, RunsRowWritten DEF SubmitCancelsStale, Terminal
<1>6. CASE MarkWrites
  <2>1. turn.req \in Req /\ turn'.pc = "idle"
    BY <1>6 DEF MarkWrites, NoTurn, TypeOK, Turns
  <2>2. \A q \in Req : ~Submitting(q)'
    BY <2>1 DEF Submitting, InSubmit
  <2>. QED
    BY <1>6, <2>1, <2>2, RunsRowWritten DEF MarkWrites, ghosts, Terminal
<1>. QED
  BY <1>1, <1>2, <1>3, <1>4, <1>5, <1>6 DEF TurnStep

(* Callers keep the runs counted: confirm writes only an awaiting row.       *)
LEMMA CallerStepRuns ==
  ASSUME TypeOK, RunsInv, NEW c \in Caller, CallerStep(c)
  PROVE  RunsInv'
<1>1. UNCHANGED <<turn, runs>>
  BY DEF CallerStep, ConfirmTooLate, ConfirmNotRunnable, Confirm, Cancel, WaitReads,
         WaitRegisters, StopSnapshots, StopCancelsPending, StopDrainsOne, StopDrained,
         StopCancelsCurrent, StopJoins, StopRaises, StopReturns, ghosts
<1>2. \A q \in Req : Submitting(q)' <=> Submitting(q)
  BY <1>1 DEF Submitting
<1>3. CASE UNCHANGED status
  BY <1>1, <1>2, <1>3, RunsSameRows
<1>4. ASSUME NEW r \in Req, UpdateCommand(r, "cancelled")
      PROVE  RunsInv'
  BY <1>1, <1>2, <1>4, RunsRowWritten DEF Terminal
<1>5. CASE Confirm(c)
  <2>1. caller[c].req \in Req /\ status[caller[c].req] = "awaiting"
    BY <1>5 DEF Confirm, InSection, TypeOK, Calls, Requests
  <2>2. runs[caller[c].req] = 0 /\ ~Submitting(caller[c].req)
    BY <2>1 DEF RunsInv
  <2>3. PICK s : UpdateCommand(caller[c].req, s)
    BY <1>5 DEF Confirm, EnqueueLocked
  <2>. QED
    BY <1>1, <1>2, <2>1, <2>2, <2>3, RunsRowWritten
<1>6. CASE ConfirmTooLate(c) \/ Cancel(c)
  <2>1. caller[c].req \in Req
    BY <1>6 DEF ConfirmTooLate, Cancel, InSection, TypeOK, Calls, Requests
  <2>. QED
    BY <1>3, <1>4, <1>6, <2>1 DEF ConfirmTooLate, Cancel, CancelWrites, row
<1>7. CASE StopCancelsPending(c)
  <2>1. caller[c].todo \subseteq Req
    BY DEF TypeOK, Calls
  <2>. QED
    BY <1>4, <1>7, <2>1 DEF StopCancelsPending, CancelWrites
<1>8. CASE StopDrainsOne(c)
  <2>1. Head(queue) \in Req
    BY <1>8 DEF StopDrainsOne, TypeOK
  <2>. QED
    BY <1>4, <1>8, <2>1 DEF StopDrainsOne
<1>9. CASE StopCancelsCurrent(c)
  BY <1>3, <1>4, <1>9 DEF StopCancelsCurrent, TypeOK, row
<1>10. CASE \/ ConfirmNotRunnable(c) \/ WaitReads(c) \/ WaitRegisters(c) \/ StopSnapshots(c)
            \/ StopDrained(c) \/ StopJoins(c) \/ StopRaises(c) \/ StopReturns(c)
  BY <1>3, <1>10 DEF ConfirmNotRunnable, WaitReads, WaitRegisters, StopSnapshots, StopDrained,
                     StopJoins, StopRaises, StopReturns, row
<1>. QED
  BY <1>5, <1>6, <1>7, <1>8, <1>9, <1>10 DEF CallerStep

(* _finish_execution keeps the runs counted.                                 *)
LEMMA FinishRuns ==
  ASSUME TypeOK, RunsInv, NEW r \in Req, NEW s \in Terminal, FinishExecution(r, s),
         UNCHANGED <<turn, runs>>
  PROVE  RunsInv'
<1>1. \A q \in Req : Submitting(q)' <=> Submitting(q)
  BY DEF Submitting
<1>2. CASE status[r] = "executing" /\ UpdateCommand(r, s)
  <2>1. ~Submitting(r)
    BY <1>2 DEF RunsInv
  <2>. QED
    BY <1>1, <1>2, <2>1, RunsRowWritten
<1>3. CASE UNCHANGED row
  BY <1>1, <1>3, RunsSameRows DEF row
<1>. QED
  BY <1>2, <1>3 DEF FinishExecution

(* The worker keeps the runs counted: it claims only a queued row.           *)
LEMMA WorkerStepRuns ==
  ASSUME TypeOK, RunsInv, WorkerStep
  PROVE  RunsInv'
<1>1. CASE WorkerGets \/ WorkerAwaits \/ WorkerCleansUp
  BY <1>1, RunsSameRows DEF WorkerGets, WorkerAwaits, WorkerCleansUp, row, ghosts, Submitting
<1>2. CASE WorkerFinishes
  <2>1. worker.req \in Req
    BY <1>2 DEF WorkerFinishes, TypeOK, Workers
  <2>2. (IF worker.pc = "finish_cancelled" THEN "cancelled" ELSE "failed") \in Terminal
    BY DEF Terminal
  <2>. QED
    BY <1>2, <2>1, <2>2, FinishRuns DEF WorkerFinishes, ghosts
<1>3. CASE WorkerClaims
  <2>1. worker.req \in Req /\ UNCHANGED turn
    BY <1>3 DEF WorkerClaims, TypeOK, Workers
  <2>2. \A q \in Req : Submitting(q)' <=> Submitting(q)
    BY <2>1 DEF Submitting
  <2>3. CASE status[worker.req] # "queued"
    BY <1>3, <2>2, <2>3, RunsSameRows DEF WorkerClaims, row
  <2>4. CASE status[worker.req] = "queued"
    <3>1. /\ status' = [status EXCEPT ![worker.req] = "executing"]
          /\ runs' = [runs EXCEPT ![worker.req] = @ + 1]
      BY <1>3, <2>4 DEF WorkerClaims, UpdateCommand
    <3>2. runs[worker.req] = 0 /\ ~Submitting(worker.req)
      BY <2>1, <2>4 DEF RunsInv
    <3>3. /\ status'[worker.req] = "executing" /\ runs'[worker.req] = 1
          /\ \A q \in Req \ {worker.req} : status'[q] = status[q] /\ runs'[q] = runs[q]
      BY <2>1, <3>1, <3>2 DEF TypeOK
    <3>. QED
      BY <2>1, <2>2, <3>2, <3>3 DEF RunsInv, AtMostOnce
  <2>. QED
    BY <2>3, <2>4
<1>. QED
  BY <1>1, <1>2, <1>3 DEF WorkerStep

(* The task keeps the runs counted.                                          *)
LEMMA ExecStepRuns ==
  ASSUME TypeOK, RunsInv, ExecStep
  PROVE  RunsInv'
<1>1. CASE ExecFinishes
  <2>1. exec.req \in Req
    BY <1>1 DEF ExecFinishes, TypeOK, Tasks
  <2>2. (IF exec.pc = "finish_ok" THEN "succeeded" ELSE "failed") \in Terminal
    BY DEF Terminal
  <2>. QED
    BY <1>1, <2>1, <2>2, FinishRuns DEF ExecFinishes, ghosts
<1>2. CASE \/ ExecBeginsStep \/ ExecStepFails \/ ExecStepSucceeds \/ ExecStepsDone
           \/ ExecReports \/ ExecCancelled
  BY <1>2, RunsSameRows DEF ExecBeginsStep, ExecStepFails, ExecStepSucceeds, ExecStepsDone,
                            ExecReports, ExecCancelled, row, ghosts, Submitting
<1>. QED
  BY <1>1, <1>2 DEF ExecStep

(* New requests, calls, time and restarts keep the runs counted.             *)
LEMMA WorldStepRuns ==
  ASSUME TypeOK, RunsInv,
         \/ \E r \in Req : TurnStarts(r) \/ Expires(r)
         \/ \E c \in Caller : \/ \E k \in AllCalls \ {"stop"}, r \in Req : Call(c, k, r)
                              \/ StopCall(c) \/ StopCutsSection(c)
         \/ Restart
  PROVE  RunsInv'
<1>1. ASSUME NEW r \in Req, TurnStarts(r)
      PROVE  RunsInv'
  <2>1. turn'.req = r /\ UpdateCommand(r, "planning") /\ status[r] = "absent" /\ UNCHANGED runs
    BY <1>1 DEF TurnStarts, NoTurn, ghosts
  <2>2. runs[r] = 0
    BY <2>1 DEF RunsInv
  <2>. QED
    BY <2>1, <2>2, RunsRowWritten DEF Submitting
<1>2. ASSUME NEW r \in Req, Expires(r)
      PROVE  RunsInv'
  BY <1>2, RunsSameRows DEF Expires, ghosts, Submitting
<1>3. ASSUME NEW c \in Caller, NEW k \in AllCalls, NEW r \in Req, Call(c, k, r)
      PROVE  RunsInv'
  BY <1>3, RunsSameRows DEF Call, row, ghosts, Submitting
<1>4. ASSUME NEW c \in Caller, StopCall(c)
      PROVE  RunsInv'
  <2>1. turn'.req = turn.req /\ turn'.pc = turn.pc
    BY <1>4 DEF StopCall, TypeOK, Turns
  <2>. QED
    BY <1>4, <2>1, RunsSameRows DEF StopCall, row, ghosts, Submitting
<1>5. ASSUME NEW c \in Caller, StopCutsSection(c)
      PROVE  RunsInv'
  <2>1. turn'.pc = "mark_read" /\ UNCHANGED runs /\ turn \in Turns
    BY <1>5 DEF StopCutsSection, TypeOK, Turns
  <2>2. \A q \in Req : ~Submitting(q)'
    BY <2>1 DEF Submitting, InSubmit
  <2>3. turn.req \in Req /\ Submitting(turn.req)
    BY <1>5, <2>1 DEF StopCutsSection, Submitting, InSubmit, Turns
  <2>4. ASSUME NEW s, UpdateCommand(turn.req, s)
        PROVE  RunsInv'
    BY <2>1, <2>2, <2>3, <2>4, RunsRowWritten DEF RunsInv
  <2>5. ASSUME NEW r \in turn.todo, CancelWrites(r)
        PROVE  RunsInv'
    <3>1. r \in Req
      BY <2>1 DEF Turns
    <3>. QED
      BY <2>1, <2>2, <2>5, <3>1, RunsRowWritten DEF CancelWrites, Terminal
  <2>. QED
    BY <1>5, <2>4, <2>5 DEF StopCutsSection
<1>6. ASSUME Restart
      PROVE  RunsInv'
  BY <1>6, RunsSameRows DEF Restart, row, ghosts, Submitting, InSubmit, NoTurn
<1>. QED
  BY <1>1, <1>2, <1>3, <1>4, <1>5, <1>6

(* RunsInv is an invariant of the executor.                                  *)
LEMMA RunsAreCounted == Spec => []RunsInv
<1>1. Init => RunsInv
  BY DEF Init, RunsInv, AtMostOnce, Submitting, InSubmit, NoTurn
<1>2. TypeOK /\ RunsInv /\ [Next]_vars => RunsInv'
  <2>. SUFFICES ASSUME TypeOK, RunsInv, [Next]_vars
                PROVE  RunsInv'
    OBVIOUS
  <2>1. CASE UNCHANGED vars
    BY <2>1, RunsSameRows DEF vars, Submitting
  <2>2. CASE Next
    BY <2>2, TurnStepRuns, CallerStepRuns, WorkerStepRuns, ExecStepRuns, WorldStepRuns
       DEF Next
  <2>. QED
    BY <2>1, <2>2
<1>. QED
  BY <1>1, <1>2, TypeCorrect, PTL DEF Spec

(* No request is claimed for execution twice, for any number of requests,    *)
(* callers, confirmations and restarts.                                      *)
THEOREM ExecutesAtMostOnce == Spec => []AtMostOnce
<1>1. RunsInv => AtMostOnce
  BY DEF RunsInv
<1>. QED
  BY <1>1, RunsAreCounted, PTL

(* While the turn cancels what is pending, its list covers it.               *)
OnePendingInv ==
  /\ OnePending
  /\ turn.pc = "park" => pending \subseteq {turn.req}
  /\ turn.pc = "stale" => pending \subseteq turn.todo \cup {turn.req}

(* Taking from pending keeps it a singleton.                                 *)
LEMMA PendingShrinks ==
  ASSUME OnePendingInv, pending' \subseteq pending,
         UNCHANGED turn \/ turn'.pc \notin {"park", "stale"}
  PROVE  OnePendingInv'
  BY DEF OnePendingInv, OnePending

(* The turn parks a plan only when nothing else is pending.                  *)
LEMMA TurnStepPending ==
  ASSUME TypeOK, OnePendingInv, TurnStep
  PROVE  OnePendingInv'
<1>. turn \in Turns
  BY DEF TypeOK
<1>1. CASE SubmitRefused \/ TurnEnds \/ MarkAborted \/ MarkWrites
  BY <1>1, PendingShrinks DEF SubmitRefused, TurnEnds, MarkAborted, MarkWrites, NoTurn
<1>2. CASE TurnAborted
  BY <1>2, PendingShrinks DEF TurnAborted, Turns
<1>3. CASE MarkReads
  <2>1. turn'.pc \in {"idle", "mark_write"}
    BY <1>3 DEF MarkReads, TurnMoves, NoTurn, Turns
  <2>. QED
    BY <1>3, <2>1, PendingShrinks DEF MarkReads
<1>4. CASE SubmitClarification \/ SubmitEmpty \/ SubmitEnqueues
  <2>1. turn'.pc = "reply"
    BY <1>4 DEF SubmitClarification, SubmitEmpty, SubmitEnqueues, TurnMoves, Turns
  <2>. QED
    BY <1>4, <2>1, PendingShrinks DEF SubmitClarification, SubmitEmpty, SubmitEnqueues
<1>5. CASE Submit
  <2>1. UNCHANGED pending
    BY <1>5 DEF Submit
  <2>2. ASSUME NEW pc \in {"clarify", "empty", "enqueue"}, TurnMoves(pc)
        PROVE  OnePendingInv'
    BY <2>1, <2>2, PendingShrinks DEF TurnMoves, Turns
  <2>3. CASE TurnMoves("park") /\ pending \ {turn.req} = {}
    <3>1. turn'.pc = "park" /\ turn'.req = turn.req
      BY <2>3 DEF TurnMoves, Turns
    <3>. QED
      BY <2>1, <2>3, <3>1 DEF OnePendingInv, OnePending
  <2>4. CASE turn' = [turn EXCEPT !.pc = "stale", !.todo = pending \ {turn.req}]
    <3>1. turn'.pc = "stale" /\ turn'.req = turn.req /\ turn'.todo = pending \ {turn.req}
      BY <2>4 DEF Turns
    <3>. QED
      BY <2>1, <3>1 DEF OnePendingInv, OnePending
  <2>. QED
    BY <1>5, <2>2, <2>3, <2>4 DEF Submit
<1>6. CASE SubmitCancelsStale
  <2>1. PICK r \in turn.todo :
          /\ pending' = pending \ {r}
          /\ turn' = [turn EXCEPT !.todo = @ \ {r},
                                  !.pc = IF turn.todo = {r} THEN "park" ELSE "stale"]
    BY <1>6 DEF SubmitCancelsStale, CancelWrites
  <2>2. /\ turn'.todo = turn.todo \ {r} /\ turn'.req = turn.req
        /\ turn'.pc = IF turn.todo = {r} THEN "park" ELSE "stale"
    BY <2>1 DEF Turns
  <2>3. pending \subseteq turn.todo \cup {turn.req}
    BY <1>6 DEF SubmitCancelsStale, InTurnSection, OnePendingInv
  <2>4. pending' \subseteq turn'.todo \cup {turn'.req}
    BY <2>1, <2>2, <2>3
  <2>. QED
    BY <2>1, <2>2, <2>4 DEF OnePendingInv, OnePending
<1>7. CASE SubmitParks
  <2>1. pending \subseteq {turn.req} /\ pending' = pending \cup {turn.req}
    BY <1>7 DEF SubmitParks, InTurnSection, OnePendingInv
  <2>2. turn'.pc = "reply"
    BY <1>7 DEF SubmitParks, TurnMoves, Turns
  <2>. QED
    BY <2>1, <2>2 DEF OnePendingInv, OnePending
<1>. QED
  BY <1>1, <1>2, <1>3, <1>4, <1>5, <1>6, <1>7 DEF TurnStep

(* Nobody but the turn adds to pending.                                      *)
LEMMA OtherStepPending ==
  ASSUME TypeOK, OnePendingInv,
         \/ \E c \in Caller : CallerStep(c) \/ StopCall(c) \/ StopCutsSection(c)
         \/ \E c \in Caller, k \in AllCalls \ {"stop"}, r \in Req : Call(c, k, r)
         \/ \E r \in Req : TurnStarts(r) \/ Expires(r)
         \/ WorkerStep \/ ExecStep \/ Restart
  PROVE  OnePendingInv'
<1>1. ASSUME NEW c \in Caller, CallerStep(c)
      PROVE  OnePendingInv'
  <2>1. UNCHANGED turn
    BY <1>1 DEF CallerStep, ConfirmTooLate, ConfirmNotRunnable, Confirm, Cancel, WaitReads,
       WaitRegisters, StopSnapshots, StopCancelsPending, StopDrainsOne, StopDrained,
       StopCancelsCurrent, StopJoins, StopRaises, StopReturns
  <2>2. pending' \subseteq pending
    BY <1>1 DEF CallerStep, ConfirmTooLate, ConfirmNotRunnable, Confirm, Cancel, WaitReads,
       WaitRegisters, StopSnapshots, StopCancelsPending, StopDrainsOne, StopDrained,
       StopCancelsCurrent, StopJoins, StopRaises, StopReturns, CancelWrites
  <2>. QED
    BY <2>1, <2>2, PendingShrinks
<1>2. ASSUME NEW c \in Caller, StopCall(c)
      PROVE  OnePendingInv'
  <2>1. turn'.pc = turn.pc /\ turn'.req = turn.req /\ turn'.todo = turn.todo
    BY <1>2 DEF StopCall, TypeOK, Turns
  <2>. QED
    BY <1>2, <2>1 DEF StopCall, OnePendingInv, OnePending
<1>3. ASSUME NEW c \in Caller, StopCutsSection(c)
      PROVE  OnePendingInv'
  <2>1. turn'.pc = "mark_read"
    BY <1>3 DEF StopCutsSection, TypeOK, Turns
  <2>2. CASE pending' \subseteq pending
    BY <2>1, <2>2, PendingShrinks
  <2>3. CASE turn.pc = "park" /\ pending' = pending \cup {turn.req}
    BY <2>1, <2>3 DEF OnePendingInv, OnePending
  <2>. QED
    BY <1>3, <2>2, <2>3 DEF StopCutsSection, CancelWrites
<1>4. ASSUME NEW c \in Caller, NEW k \in AllCalls, NEW r \in Req, Call(c, k, r)
      PROVE  OnePendingInv'
  BY <1>4, PendingShrinks DEF Call
<1>5. ASSUME NEW r \in Req, TurnStarts(r)
      PROVE  OnePendingInv'
  BY <1>5, PendingShrinks DEF TurnStarts, NoTurn
<1>6. ASSUME NEW r \in Req, Expires(r)
      PROVE  OnePendingInv'
  BY <1>6, PendingShrinks DEF Expires
<1>7. CASE WorkerStep
  BY <1>7, PendingShrinks DEF WorkerStep, WorkerGets, WorkerClaims, WorkerAwaits,
                              WorkerFinishes, WorkerCleansUp
<1>8. CASE ExecStep
  BY <1>8, PendingShrinks DEF ExecStep, ExecBeginsStep, ExecStepFails, ExecStepSucceeds,
                              ExecStepsDone, ExecFinishes, ExecReports, ExecCancelled
<1>9. CASE Restart
  BY <1>9, PendingShrinks DEF Restart, NoTurn
<1>. QED
  BY <1>1, <1>2, <1>3, <1>4, <1>5, <1>6, <1>7, <1>8, <1>9

(* At most one plan is pending at any time: the snapshot that submit takes   *)
(* before it cancels, one await at a time, what was pending is enough.       *)
THEOREM PendingIsUnique == Spec => []OnePending
<1>1. Init => OnePendingInv
  BY DEF Init, OnePendingInv, OnePending, NoTurn
<1>2. TypeOK /\ OnePendingInv /\ [Next]_vars => OnePendingInv'
  <2>. SUFFICES ASSUME TypeOK, OnePendingInv, [Next]_vars
                PROVE  OnePendingInv'
    OBVIOUS
  <2>1. CASE UNCHANGED vars
    BY <2>1, PendingShrinks DEF vars
  <2>2. CASE Next
    BY <2>2, TurnStepPending, OtherStepPending DEF Next
  <2>. QED
    BY <2>1, <2>2
<1>3. OnePendingInv => OnePending
  BY DEF OnePendingInv
<1>. QED
  BY <1>1, <1>2, <1>3, TypeCorrect, PTL DEF Spec

(* Only a new request begins to be submitted.                                *)
LEMMA StepKeepsSubmitting ==
  ASSUME TypeOK, Next, NEW r \in Req, Submitting(r)'
  PROVE  Submitting(r) \/ status[r] = "absent"
<1>. turn \in Turns
  BY DEF TypeOK
<1>1. ASSUME UNCHANGED turn \/ (turn'.req = turn.req /\ turn'.pc = turn.pc)
      PROVE  Submitting(r)
  BY <1>1 DEF Submitting
<1>2. turn'.pc \notin {"idle", "reply", "mark_read", "mark_write"}
  BY DEF Submitting, InSubmit
<1>3. CASE TurnStep
  <2>1. CASE Submit \/ SubmitCancelsStale
    <3>1. turn'.req = turn.req
      BY <2>1 DEF Submit, SubmitCancelsStale, TurnMoves, Turns
    <3>2. turn.pc \in {"planning", "stale"}
      BY <2>1 DEF Submit, SubmitCancelsStale, InTurnSection
    <3>. QED
      BY <3>1, <3>2 DEF Submitting, InSubmit
  <2>2. CASE SubmitClarification \/ SubmitEmpty \/ SubmitParks \/ SubmitEnqueues
    <3>1. turn'.pc = "reply"
      BY <2>2 DEF SubmitClarification, SubmitEmpty, SubmitParks, SubmitEnqueues, TurnMoves,
         Turns
    <3>. QED
      BY <1>2, <3>1
  <2>3. CASE MarkReads
    <3>1. turn'.pc \in {"idle", "mark_write"}
      BY <2>3 DEF MarkReads, TurnMoves, NoTurn, Turns
    <3>. QED
      BY <1>2, <3>1
  <2>4. CASE TurnAborted
    <3>1. turn'.pc = "mark_read"
      BY <2>4 DEF TurnAborted, Turns
    <3>. QED
      BY <1>2, <3>1
  <2>5. CASE SubmitRefused \/ TurnEnds \/ MarkWrites \/ MarkAborted
    BY <1>2, <2>5 DEF SubmitRefused, TurnEnds, MarkWrites, MarkAborted, NoTurn
  <2>. QED
    BY <1>3, <2>1, <2>2, <2>3, <2>4, <2>5 DEF TurnStep
<1>4. ASSUME NEW c \in Caller, StopCall(c) \/ StopCutsSection(c)
      PROVE  Submitting(r)
  <2>1. CASE StopCall(c)
    BY <1>1, <2>1 DEF StopCall, Turns
  <2>2. CASE StopCutsSection(c)
    <3>1. turn'.pc = "mark_read"
      BY <2>2 DEF StopCutsSection, Turns
    <3>. QED
      BY <1>2, <3>1
  <2>. QED
    BY <1>4, <2>1, <2>2
<1>5. ASSUME NEW q \in Req, TurnStarts(q)
      PROVE  Submitting(r) \/ status[r] = "absent"
  BY <1>5 DEF TurnStarts, NoTurn, Submitting
<1>6. ~Restart
  BY <1>2 DEF Restart, NoTurn
<1>7. ASSUME NEW c \in Caller, CallerStep(c)
      PROVE  UNCHANGED turn
  BY <1>7 DEF CallerStep, ConfirmTooLate, ConfirmNotRunnable, Confirm, Cancel, WaitReads,
     WaitRegisters, StopSnapshots, StopCancelsPending, StopDrainsOne, StopDrained,
     StopCancelsCurrent, StopJoins, StopRaises, StopReturns
<1>8. WorkerStep \/ ExecStep => UNCHANGED turn
  BY DEF WorkerStep, WorkerGets, WorkerClaims, WorkerAwaits, WorkerFinishes,
     WorkerCleansUp, ExecStep, ExecBeginsStep, ExecStepFails, ExecStepSucceeds, ExecStepsDone,
     ExecFinishes, ExecReports, ExecCancelled
<1>9. ASSUME NEW q \in Req, Expires(q)
      PROVE  UNCHANGED turn
  BY <1>9 DEF Expires
<1>10. ASSUME NEW c \in Caller, NEW k \in AllCalls, NEW q \in Req, Call(c, k, q)
       PROVE  UNCHANGED turn
  BY <1>10 DEF Call
<1>. QED
  BY <1>1, <1>3, <1>4, <1>5, <1>6, <1>7, <1>8, <1>9, <1>10 DEF Next

(* No element occurs twice.                                                  *)
Unique(s) == \A i, j \in DOMAIN s : s[i] = s[j] => i = j

(* r is in the queue, or the worker has taken it and waits for the lock.     *)
Taken(r) == r \in Range(queue) \/ (worker.pc = "claim" /\ worker.req = r)

(* No request is queued twice; what is taken has not run, is not being       *)
(* submitted, and its row is queued or cancelled.                            *)
QueueInv ==
  /\ Unique(queue)
  /\ worker.pc = "claim" => worker.req \notin Range(queue)
  /\ \A r \in Req : Taken(r) => /\ status[r] \in {"queued", "cancelled"}
                                /\ runs[r] = 0 /\ ~Submitting(r)

(* The tail of a sequence without repetition loses exactly its head.         *)
LEMMA TailOfUnique ==
  ASSUME NEW S, NEW s \in Seq(S), s # <<>>, Unique(s)
  PROVE  /\ Head(s) \in Range(s) /\ Head(s) \notin Range(Tail(s))
         /\ Range(Tail(s)) \subseteq Range(s) /\ Unique(Tail(s))
<1>. DEFINE t == Tail(s)
<1>1. /\ Len(s) \in Nat /\ Len(s) > 0 /\ DOMAIN s = 1..Len(s) /\ Head(s) = s[1]
      /\ t \in Seq(S) /\ DOMAIN t = 1..(Len(s) - 1)
      /\ \A i \in DOMAIN t : t[i] = s[i+1] /\ i+1 \in DOMAIN s /\ i \in Nat
  OBVIOUS
<1>. HIDE DEF t
<1>2. Unique(t)
  BY <1>1 DEF Unique
<1>3. Head(s) \in Range(s) /\ Range(t) \subseteq Range(s)
  BY <1>1 DEF Range
<1>4. Head(s) \notin Range(t)
  <2>. SUFFICES ASSUME NEW i \in DOMAIN t, t[i] = s[1]
                PROVE  FALSE
    BY <1>1 DEF Range
  <2>1. i + 1 = 1
    BY <1>1 DEF Unique
  <2>. QED
    BY <1>1, <2>1
<1>. QED
  BY <1>2, <1>3, <1>4 DEF t

(* Appending what is not there keeps a sequence without repetition.          *)
LEMMA AppendToUnique ==
  ASSUME NEW S, NEW s \in Seq(S), NEW e \in S, Unique(s), e \notin Range(s)
  PROVE  Unique(Append(s, e)) /\ Range(Append(s, e)) = Range(s) \cup {e}
<1>. DEFINE t == Append(s, e)
<1>1. /\ Len(s) \in Nat /\ DOMAIN s = 1..Len(s) /\ DOMAIN t = 1..(Len(s) + 1)
      /\ t[Len(s) + 1] = e
      /\ \A i \in DOMAIN s : t[i] = s[i]
  OBVIOUS
<1>. HIDE DEF t
<1>2. \A i \in DOMAIN t : i = Len(s) + 1 \/ i \in DOMAIN s
  BY <1>1
<1>3. DOMAIN s \subseteq DOMAIN t /\ Len(s) + 1 \in DOMAIN t
  BY <1>1
<1>4. Range(t) = Range(s) \cup {e}
  BY <1>1, <1>2, <1>3 DEF Range
<1>5. Unique(t)
  BY <1>1, <1>2 DEF Unique, Range
<1>. QED
  BY <1>4, <1>5 DEF t

(* What is queued or about to be claimed is written by nobody but a cancel.  *)
LEMMA TakenRows ==
  ASSUME TypeOK, QueueInv, Next, NEW r \in Req, Taken(r),
         ~(worker.pc = "claim" /\ worker.req = r /\ worker'.pc = "await")
  PROVE  status'[r] \in {"queued", "cancelled"} /\ runs[r] = 0 /\ ~Submitting(r)'
<1>1. status[r] \in {"queued", "cancelled"} /\ ~Submitting(r) /\ runs[r] = 0
  BY DEF QueueInv
<1>2. status'[r] = status[r] \/ MayBeWritten(r, status'[r])
  BY StepKeepsRowRule DEF RowRule
<1>3. status'[r] \in {"queued", "cancelled"}
  BY <1>1, <1>2 DEF MayBeWritten
<1>4. ~Submitting(r)'
  BY <1>1, StepKeepsSubmitting
<1>. QED
  BY <1>1, <1>3, <1>4

(* The queue's invariant stands while the queue does.                        *)
LEMMA QueueKept ==
  ASSUME TypeOK, QueueInv, Next, UNCHANGED queue, UNCHANGED worker \/ worker'.pc # "claim",
         \A r \in Req : Taken(r)' => runs'[r] = runs[r]
  PROVE  QueueInv'
<1>1. ASSUME NEW r \in Req, Taken(r)'
      PROVE  status'[r] \in {"queued", "cancelled"} /\ runs'[r] = 0 /\ ~Submitting(r)'
  <2>1. Taken(r) /\ ~(worker.pc = "claim" /\ worker.req = r /\ worker'.pc = "await")
    BY <1>1 DEF Taken, QueueInv
  <2>. QED
    BY <1>1, <2>1, TakenRows
<1>. QED
  BY <1>1 DEF QueueInv

(* The queue's invariant stands when the worker or STOP takes the head.      *)
LEMMA QueueLosesHead ==
  ASSUME TypeOK, QueueInv, Next, queue # <<>>, queue' = Tail(queue), UNCHANGED runs,
         \/ UNCHANGED worker
         \/ worker.pc = "get" /\ worker' = [pc |-> "claim", req |-> Head(queue)]
  PROVE  QueueInv'
<1>1. /\ Head(queue) \in Range(queue) /\ Head(queue) \notin Range(queue')
      /\ Range(queue') \subseteq Range(queue) /\ Unique(queue')
  BY TailOfUnique DEF TypeOK, QueueInv
<1>2. ASSUME NEW r \in Req, Taken(r)'
      PROVE  status'[r] \in {"queued", "cancelled"} /\ runs'[r] = 0 /\ ~Submitting(r)'
  <2>1. Taken(r) /\ ~(worker.pc = "claim" /\ worker.req = r /\ worker'.pc = "await")
    BY <1>1, <1>2 DEF Taken
  <2>. QED
    BY <2>1, TakenRows
<1>3. worker'.pc = "claim" => worker'.req \notin Range(queue')
  BY <1>1 DEF QueueInv
<1>. QED
  BY <1>1, <1>2, <1>3 DEF QueueInv

(* The queue's invariant stands when _enqueue_locked appends.                *)
LEMMA QueueGrows ==
  ASSUME TypeOK, QueueInv, Next, NEW r \in Req, EnqueueLocked(r), UNCHANGED <<worker, runs>>,
         ~Taken(r), runs[r] = 0, ~Submitting(r)'
  PROVE  QueueInv'
<1>1. CASE UNCHANGED queue
  BY <1>1, QueueKept
<1>2. CASE queue' = Append(queue, r) /\ UpdateCommand(r, "queued")
  <2>1. Unique(queue') /\ Range(queue') = Range(queue) \cup {r}
    BY <1>2, AppendToUnique DEF TypeOK, QueueInv, Taken
  <2>2. status'[r] = "queued"
    BY <1>2 DEF UpdateCommand, TypeOK
  <2>3. ASSUME NEW q \in Req, Taken(q)'
        PROVE  status'[q] \in {"queued", "cancelled"} /\ runs'[q] = 0 /\ ~Submitting(q)'
    <3>1. q = r \/ Taken(q)
      BY <2>1, <2>3 DEF Taken
    <3>2. Taken(q) /\ worker'.pc = worker.pc => status'[q] \in {"queued",
       "cancelled"} /\ runs[q] = 0 /\ ~Submitting(q)'
      BY TakenRows
    <3>. QED
      BY <2>2, <3>1, <3>2
  <2>4. worker'.pc = "claim" => worker'.req \notin Range(queue')
    BY <2>1 DEF QueueInv, Taken
  <2>. QED
    BY <2>1, <2>3, <2>4 DEF QueueInv
<1>. QED
  BY <1>1, <1>2 DEF EnqueueLocked

(* Every step keeps the queue's invariant.                                   *)
LEMMA StepKeepsQueueInv ==
  ASSUME TypeOK, RunsInv, QueueInv, Next
  PROVE  QueueInv'
<1>1. CASE UNCHANGED <<queue, worker, runs>>
  BY <1>1, QueueKept
<1>2. CASE SubmitEnqueues
  <2>1. turn.req \in Req /\ Submitting(turn.req) /\ EnqueueLocked(turn.req)
    BY <1>2 DEF SubmitEnqueues, InTurnSection, Submitting, InSubmit, TypeOK, Turns
  <2>2. turn'.pc = "reply" /\ UNCHANGED <<worker, runs>>
    BY <1>2 DEF SubmitEnqueues, TurnMoves, TypeOK, Turns, ghosts
  <2>3. PICK r \in Req : r = turn.req
    BY <2>1
  <2>4. ~Taken(r) /\ runs[r] = 0 /\ EnqueueLocked(r)
    BY <2>1, <2>3 DEF QueueInv, RunsInv
  <2>5. ~Submitting(r)'
    BY <2>2 DEF Submitting, InSubmit
  <2>. QED
    BY <2>2, <2>4, <2>5, QueueGrows
<1>3. ASSUME NEW c \in Caller, Confirm(c)
      PROVE  QueueInv'
  <2>1. PICK r \in Req : r = caller[c].req
    BY <1>3 DEF Confirm, InSection, TypeOK, Calls, Requests
  <2>2. status[r] = "awaiting" /\ EnqueueLocked(r) /\ UNCHANGED <<worker, runs, turn>>
    BY <1>3, <2>1 DEF Confirm
  <2>3. ~Taken(r) /\ runs[r] = 0 /\ ~Submitting(r)
    BY <2>2 DEF QueueInv, RunsInv
  <2>4. ~Submitting(r)'
    BY <2>2, <2>3 DEF Submitting
  <2>. QED
    BY <2>2, <2>3, <2>4, QueueGrows
<1>4. ASSUME NEW c \in Caller, StopDrainsOne(c)
      PROVE  QueueInv'
  BY <1>4, QueueLosesHead DEF StopDrainsOne
<1>5. CASE WorkerGets
  BY <1>5, QueueLosesHead DEF WorkerGets, ghosts
<1>6. CASE WorkerClaims
  <2>1. /\ UNCHANGED queue /\ worker'.pc \in {"get", "await"}
        /\ worker.pc = "claim" /\ worker.req \in Req
    BY <1>6 DEF WorkerClaims, IdleWorker, TypeOK, Workers
  <2>2. ASSUME NEW r \in Req, Taken(r)'
        PROVE  runs'[r] = runs[r]
    <3>1. r \in Range(queue)
      BY <2>1, <2>2 DEF Taken
    <3>2. r # worker.req
      BY <2>1, <3>1 DEF QueueInv
    <3>. QED
      BY <1>6, <3>2 DEF WorkerClaims, TypeOK
  <2>. QED
    BY <2>1, <2>2, QueueKept
<1>7. CASE WorkerAwaits \/ WorkerFinishes \/ WorkerCleansUp
  <2>1. worker'.pc # "claim"
    BY <1>7 DEF WorkerAwaits, WorkerFinishes, WorkerCleansUp, IdleWorker, TypeOK, Workers
  <2>. QED
    BY <1>7, <2>1, QueueKept DEF WorkerAwaits, WorkerFinishes, WorkerCleansUp, ghosts
<1>8. CASE Restart
  <2>1. queue' = <<>> /\ worker'.pc = "get"
    BY <1>8 DEF Restart, IdleWorker
  <2>. QED
    BY <2>1 DEF QueueInv, Taken, Range, Unique
<1>9. CASE TurnStep
  BY <1>1, <1>2, <1>9 DEF TurnStep, SubmitRefused, Submit, SubmitClarification, SubmitEmpty,
     SubmitCancelsStale, SubmitParks, TurnEnds, TurnAborted, MarkReads, MarkWrites,
     MarkAborted, ghosts
<1>10. ASSUME NEW c \in Caller, CallerStep(c)
       PROVE  QueueInv'
  BY <1>1, <1>3, <1>4, <1>10 DEF CallerStep, ConfirmTooLate, ConfirmNotRunnable, Cancel,
     WaitReads, WaitRegisters, StopSnapshots, StopCancelsPending, StopDrained,
     StopCancelsCurrent, StopJoins, StopRaises, StopReturns, ghosts
<1>11. CASE WorkerStep
  BY <1>5, <1>6, <1>7, <1>11 DEF WorkerStep
<1>12. CASE ExecStep
  BY <1>1, <1>12 DEF ExecStep, ExecBeginsStep, ExecStepFails, ExecStepSucceeds,
     ExecStepsDone, ExecFinishes, ExecReports, ExecCancelled, ghosts
<1>13. ASSUME NEW r \in Req, TurnStarts(r) \/ Expires(r)
       PROVE  QueueInv'
  BY <1>1, <1>13 DEF TurnStarts, Expires, ghosts
<1>14. ASSUME NEW c \in Caller, NEW k \in AllCalls, NEW r \in Req, Call(c, k, r)
       PROVE  QueueInv'
  BY <1>1, <1>14 DEF Call, ghosts
<1>15. ASSUME NEW c \in Caller, StopCall(c) \/ StopCutsSection(c)
       PROVE  QueueInv'
  BY <1>1, <1>15 DEF StopCall, StopCutsSection, ghosts
<1>. QED
  BY <1>8, <1>9, <1>10, <1>11, <1>12, <1>13, <1>14, <1>15 DEF Next

(* The task is alive.                                                        *)
Busy == exec.pc \notin {"none", "ended"}

(* The worker awaits the task that is alive, and the task is the current one: *)
(* so a cancel of the current request cancels the task.                      *)
ExecInv == Busy => worker.pc = "await" /\ current = exec.req /\ runs[exec.req] > 0

(* The task's invariant stands while worker and current request do.          *)
LEMMA ExecKept ==
  ASSUME ExecInv, UNCHANGED <<worker, current, runs>>, Busy' => Busy /\ exec'.req = exec.req
  PROVE  ExecInv'
  BY DEF ExecInv

(* cancel marks the task and moves nothing else of it.                       *)
LEMMA CancelKeepsTask ==
  ASSUME TypeOK, NEW r \in Req, CancelWrites(r)
  PROVE  exec'.req = exec.req /\ exec'.pc = exec.pc
  BY DEF CancelWrites, TypeOK, Tasks

(* Every step keeps the task's invariant.                                    *)
LEMMA StepKeepsExecInv ==
  ASSUME TypeOK, RunsInv, ExecInv, Next
  PROVE  ExecInv'
<1>. exec \in Tasks
  BY DEF TypeOK
<1>1. CASE UNCHANGED <<exec, worker, current, runs>>
  BY <1>1, ExecKept DEF Busy
<1>2. ASSUME NEW r \in Req, CancelWrites(r), UNCHANGED <<worker, current, runs>>
      PROVE  ExecInv'
  BY <1>2, CancelKeepsTask, ExecKept DEF Busy
<1>3. CASE TurnStep
  <2>1. CASE SubmitCancelsStale
    <3>1. turn.todo \subseteq Req
      BY DEF TypeOK, Turns
    <3>. QED
      BY <1>2, <2>1, <3>1 DEF SubmitCancelsStale
  <2>. QED
    BY <1>1, <1>3, <2>1 DEF TurnStep, SubmitRefused, Submit, SubmitClarification, SubmitEmpty,
       SubmitParks, SubmitEnqueues, TurnEnds, TurnAborted, MarkReads, MarkWrites, MarkAborted,
       ghosts
<1>4. ASSUME NEW c \in Caller, CallerStep(c)
      PROVE  ExecInv'
  <2>1. CASE Cancel(c)
    <3>1. caller[c].req \in Req
      BY <2>1 DEF Cancel, InSection, TypeOK, Calls, Requests
    <3>. QED
      BY <1>2, <2>1, <3>1 DEF Cancel
  <2>2. CASE StopCancelsPending(c)
    <3>1. caller[c].todo \subseteq Req
      BY DEF TypeOK, Calls
    <3>. QED
      BY <1>2, <2>2, <3>1 DEF StopCancelsPending
  <2>3. CASE StopCancelsCurrent(c)
    <3>1. exec'.pc = exec.pc /\ exec'.req = exec.req
      BY <2>3 DEF StopCancelsCurrent, Tasks
    <3>. QED
      BY <2>3, <3>1, ExecKept DEF StopCancelsCurrent, Busy
  <2>. QED
    BY <1>1, <1>4, <2>1, <2>2, <2>3 DEF CallerStep, ConfirmTooLate, ConfirmNotRunnable,
       Confirm, WaitReads, WaitRegisters, StopSnapshots, StopDrainsOne, StopDrained,
       StopJoins, StopRaises, StopReturns, ghosts
<1>5. CASE WorkerStep
  <2>1. CASE WorkerGets \/ WorkerFinishes \/ WorkerCleansUp
    BY <2>1 DEF WorkerGets, WorkerFinishes, WorkerCleansUp, ExecInv, Busy
  <2>2. CASE WorkerAwaits
    BY <2>2 DEF WorkerAwaits, ExecInv, Busy
  <2>3. CASE WorkerClaims
    <3>1. worker.req \in Req /\ worker.pc = "claim"
      BY <2>3 DEF WorkerClaims, TypeOK, Workers
    <3>2. CASE status[worker.req] # "queued"
      BY <2>3, <3>1, <3>2 DEF WorkerClaims, ExecInv, Busy
    <3>3. CASE status[worker.req] = "queued"
      <4>1. /\ exec'.req = worker.req /\ current' = worker.req
            /\ runs' = [runs EXCEPT ![worker.req] = @ + 1]
        BY <2>3, <3>3 DEF WorkerClaims, NoExec
      <4>2. worker'.pc = "await"
        BY <2>3, <3>3 DEF WorkerClaims, TypeOK, Workers
      <4>3. runs'[worker.req] > 0
        BY <3>1, <4>1 DEF TypeOK
      <4>. QED
        BY <4>1, <4>2, <4>3 DEF ExecInv
    <3>. QED
      BY <3>2, <3>3
  <2>. QED
    BY <1>5, <2>1, <2>2, <2>3 DEF WorkerStep
<1>6. CASE ExecStep
  <2>1. Busy /\ exec'.req = exec.req
    BY <1>6 DEF ExecStep, ExecBeginsStep, ExecStepFails, ExecStepSucceeds, ExecStepsDone,
       ExecFinishes, ExecReports, ExecCancelled, Busy, Tasks
  <2>2. UNCHANGED <<worker, current, runs>>
    BY <1>6 DEF ExecStep, ExecBeginsStep, ExecStepFails, ExecStepSucceeds, ExecStepsDone,
       ExecFinishes, ExecReports, ExecCancelled, ghosts
  <2>. QED
    BY <2>1, <2>2, ExecKept
<1>7. ASSUME NEW c \in Caller, StopCutsSection(c)
      PROVE  ExecInv'
  <2>1. turn.todo \subseteq Req
    BY DEF TypeOK, Turns
  <2>. QED
    BY <1>1, <1>2, <1>7, <2>1 DEF StopCutsSection
<1>8. ASSUME NEW c \in Caller, StopCall(c)
      PROVE  ExecInv'
  BY <1>1, <1>8 DEF StopCall, ghosts
<1>9. ASSUME NEW r \in Req, TurnStarts(r) \/ Expires(r)
      PROVE  ExecInv'
  BY <1>1, <1>9 DEF TurnStarts, Expires, ghosts
<1>10. ASSUME NEW c \in Caller, NEW k \in AllCalls, NEW r \in Req, Call(c, k, r)
       PROVE  ExecInv'
  BY <1>1, <1>10 DEF Call, ghosts
<1>11. CASE Restart
  BY <1>11 DEF Restart, ExecInv, Busy, NoExec
<1>. QED
  BY <1>3, <1>4, <1>5, <1>6, <1>7, <1>8, <1>9, <1>10, <1>11 DEF Next

(* The plan needs the user's yes.                                            *)
NeedsConsent(r) == Plan[r].kind = "confirm"

(* A queued plan that needs consent has it; what submit queues by itself needs *)
(* none.                                                                     *)
ConsentInv ==
  /\ ConsentGoverns
  /\ \A r \in Req : NeedsConsent(r) /\ status[r] = "queued" => r \in consent
  /\ turn.pc = "enqueue" => Plan[turn.req].kind = "direct"

(* submit queues by itself only plans that need no consent.                  *)
LEMMA StepKeepsDirect ==
  ASSUME TypeOK, ConsentInv, Next, turn'.pc = "enqueue"
  PROVE  Plan[turn'.req].kind = "direct"
<1>. turn \in Turns
  BY DEF TypeOK
<1>1. CASE turn'.pc = turn.pc /\ turn'.req = turn.req
  BY <1>1 DEF ConsentInv
<1>2. ASSUME TurnStep
      PROVE  Submit
  <2>1. SubmitCancelsStale => turn'.pc \in {"park", "stale"}
    BY DEF SubmitCancelsStale, Turns
  <2>2. SubmitClarification \/ SubmitEmpty \/ SubmitParks \/ SubmitEnqueues => turn'.pc = "reply"
    BY DEF SubmitClarification, SubmitEmpty, SubmitParks, SubmitEnqueues, TurnMoves, Turns
  <2>3. TurnAborted => turn'.pc = "mark_read"
    BY DEF TurnAborted, Turns
  <2>4. MarkReads => turn'.pc \in {"idle", "mark_write"}
    BY DEF MarkReads, TurnMoves, NoTurn, Turns
  <2>5. SubmitRefused \/ TurnEnds \/ MarkWrites \/ MarkAborted => turn'.pc = "idle"
    BY DEF SubmitRefused, TurnEnds, MarkWrites, MarkAborted, NoTurn
  <2>. QED
    BY <1>2, <2>1, <2>2, <2>3, <2>4, <2>5 DEF TurnStep
<1>3. CASE Submit
  BY <1>3 DEF Submit, TurnMoves, Turns
<1>4. ASSUME NEW c \in Caller, StopCall(c)
      PROVE  turn'.pc = turn.pc /\ turn'.req = turn.req
  BY <1>4 DEF StopCall, Turns
<1>5. ASSUME NEW c \in Caller
      PROVE  ~StopCutsSection(c)
  BY DEF StopCutsSection, Turns
<1>6. ~Restart
  BY DEF Restart, NoTurn
<1>7. ASSUME NEW c \in Caller, CallerStep(c)
      PROVE  UNCHANGED turn
  BY <1>7 DEF CallerStep, ConfirmTooLate, ConfirmNotRunnable, Confirm, Cancel, WaitReads,
     WaitRegisters, StopSnapshots, StopCancelsPending, StopDrainsOne, StopDrained,
     StopCancelsCurrent, StopJoins, StopRaises, StopReturns
<1>8. WorkerStep \/ ExecStep => UNCHANGED turn
  BY DEF WorkerStep, WorkerGets, WorkerClaims, WorkerAwaits, WorkerFinishes,
     WorkerCleansUp, ExecStep, ExecBeginsStep, ExecStepFails, ExecStepSucceeds, ExecStepsDone,
     ExecFinishes, ExecReports, ExecCancelled
<1>9. ASSUME NEW c \in Caller, NEW k \in AllCalls, NEW r \in Req, Call(c, k, r)
      PROVE  UNCHANGED turn
  BY <1>9 DEF Call
<1>10. ASSUME NEW r \in Req, Expires(r)
       PROVE  UNCHANGED turn
  BY <1>10 DEF Expires
<1>11. ASSUME NEW r \in Req
       PROVE  ~TurnStarts(r)
  BY DEF TurnStarts, NoTurn
<1>. QED
  BY <1>1, <1>2, <1>3, <1>4, <1>5, <1>6, <1>7, <1>8, <1>9, <1>10, <1>11 DEF Next

(* Consent governs while no row is written and none is withdrawn.            *)
LEMMA ConsentKept ==
  ASSUME TypeOK, ConsentInv, Next, UNCHANGED status, consent \subseteq consent',
         \A q \in Req : Running(q)' => Running(q)
  PROVE  ConsentInv'
<1>1. turn'.pc = "enqueue" => Plan[turn'.req].kind = "direct"
  BY StepKeepsDirect
<1>. QED
  BY <1>1 DEF ConsentInv, ConsentGoverns, NeedsConsent

(* Consent governs when a row is written and at most its consent withdrawn.  *)
LEMMA ConsentRowWritten ==
  ASSUME TypeOK, ConsentInv, Next, NEW r \in Req, NEW s, UpdateCommand(r, s),
         s = "queued" /\ NeedsConsent(r) => r \in consent',
         \A q \in consent \ consent' : q = r /\ ~Running(r)' /\ s # "queued",
         \A q \in Req : Running(q)' => Running(q)
  PROVE  ConsentInv'
<1>1. turn'.pc = "enqueue" => Plan[turn'.req].kind = "direct"
  BY StepKeepsDirect
<1>2. \A q \in Req : status'[q] = IF q = r THEN s ELSE status[q]
  BY DEF TypeOK, UpdateCommand
<1>3. \A q \in Req : NeedsConsent(q) /\ status'[q] = "queued" => q \in consent'
  BY <1>2 DEF ConsentInv
<1>4. ConsentGoverns'
  BY DEF ConsentInv, ConsentGoverns
<1>. QED
  BY <1>1, <1>3, <1>4 DEF ConsentInv, NeedsConsent

(* cancel withdraws consent and stops the task.                              *)
LEMMA ConsentCancelled ==
  ASSUME TypeOK, ExecInv, ConsentInv, Next, NEW r \in Req, CancelWrites(r)
  PROVE  ConsentInv'
<1>1. /\ exec'.req = exec.req /\ exec'.pc = exec.pc
      /\ exec'.cancelled = (exec.cancelled \/ (current = r /\ exec.pc # "ended"))
  BY DEF CancelWrites, TypeOK, Tasks
<1>2. ~Running(r)'
  BY <1>1 DEF Running, ExecInv, Busy
<1>3. \A q \in Req : Running(q)' => Running(q)
  BY <1>1 DEF Running
<1>. QED
  BY <1>2, <1>3, ConsentRowWritten DEF CancelWrites

(* The turn keeps consent in force.                                          *)
LEMMA TurnKeepsConsent ==
  ASSUME TypeOK, ExecInv, ConsentInv, Next, TurnStep
  PROVE  ConsentInv'
<1>1. CASE SubmitCancelsStale
  <2>1. turn.todo \subseteq Req
    BY DEF TypeOK, Turns
  <2>. QED
    BY <1>1, <2>1, ConsentCancelled DEF SubmitCancelsStale
<1>2. CASE ~SubmitCancelsStale
  <2>1. UNCHANGED <<exec, consent>>
    BY <1>2 DEF TurnStep, SubmitRefused, Submit, SubmitClarification, SubmitEmpty, SubmitParks,
       SubmitEnqueues, TurnEnds, TurnAborted, MarkReads, MarkWrites, MarkAborted, ghosts
  <2>2. \A q \in Req : Running(q)' => Running(q)
    BY <2>1 DEF Running
  <2>3. CASE UNCHANGED status
    BY <2>1, <2>2, <2>3, ConsentKept
  <2>4. CASE SubmitClarification \/ SubmitEmpty \/ SubmitParks \/ MarkWrites
    <3>1. turn.req \in Req
      BY <2>4 DEF SubmitClarification, SubmitEmpty, SubmitParks, MarkWrites, InTurnSection,
         TypeOK, Turns
    <3>2. PICK s : UpdateCommand(turn.req, s) /\ s # "queued"
      BY <2>4 DEF SubmitClarification, SubmitEmpty, SubmitParks, MarkWrites
    <3>3. PICK r \in Req : r = turn.req
      BY <3>1
    <3>. QED
      BY <2>1, <2>2, <3>2, <3>3, ConsentRowWritten
  <2>5. CASE SubmitEnqueues
    <3>1. PICK r \in Req : r = turn.req
      BY <2>5 DEF SubmitEnqueues, InTurnSection, TypeOK, Turns
    <3>2. PICK s : UpdateCommand(r, s)
      BY <2>5, <3>1 DEF SubmitEnqueues, EnqueueLocked
    <3>3. ~NeedsConsent(r)
      BY <2>5, <3>1 DEF SubmitEnqueues, InTurnSection, ConsentInv, NeedsConsent
    <3>. QED
      BY <2>1, <2>2, <3>2, <3>3, ConsentRowWritten
  <2>. QED
    BY <1>2, <2>3, <2>4, <2>5 DEF TurnStep, SubmitRefused, Submit, TurnEnds, TurnAborted,
       MarkReads, MarkAborted, row
<1>. QED
  BY <1>1, <1>2

(* confirm, cancel and STOP keep consent in force.                           *)
LEMMA CallersKeepConsent ==
  ASSUME TypeOK, RunsInv, QueueInv, ExecInv, ConsentInv, Next, NEW c \in Caller, CallerStep(c)
  PROVE  ConsentInv'
<1>. exec \in Tasks
  BY DEF TypeOK
<1>1. CASE \/ ConfirmNotRunnable(c) \/ WaitReads(c) \/ WaitRegisters(c) \/ StopSnapshots(c)
           \/ StopDrained(c) \/ StopJoins(c) \/ StopRaises(c) \/ StopReturns(c)
  <2>1. UNCHANGED <<status, consent, exec>>
    BY <1>1 DEF ConfirmNotRunnable, WaitReads, WaitRegisters, StopSnapshots,
                StopDrained, StopJoins, StopRaises, StopReturns, row, ghosts
  <2>. QED
    BY <2>1, ConsentKept DEF Running
<1>2. CASE ConfirmTooLate(c)
  <2>1. PICK r \in Req : r = caller[c].req
    BY <1>2 DEF ConfirmTooLate, InSection, TypeOK, Calls, Requests
  <2>2. UNCHANGED exec
    BY <1>2 DEF ConfirmTooLate
  <2>3. CASE UNCHANGED <<row, consent>>
    BY <2>2, <2>3, ConsentKept DEF Running, row
  <2>4. CASE /\ status[r] = "awaiting" /\ UpdateCommand(r, "cancelled")
             /\ consent' = consent \ {r}
    <3>1. ~Running(r)
      BY <2>4 DEF RunsInv, ExecInv, Running, Busy
    <3>. QED
      BY <2>2, <2>4, <3>1, ConsentRowWritten DEF Running
  <2>. QED
    BY <1>2, <2>1, <2>3, <2>4 DEF ConfirmTooLate
<1>3. CASE Confirm(c)
  <2>1. PICK r \in Req : r = caller[c].req
    BY <1>3 DEF Confirm, InSection, TypeOK, Calls, Requests
  <2>2. UNCHANGED exec /\ consent' = consent \cup {r}
    BY <1>3, <2>1 DEF Confirm
  <2>3. PICK s : UpdateCommand(r, s)
    BY <1>3, <2>1 DEF Confirm, EnqueueLocked
  <2>. QED
    BY <2>2, <2>3, ConsentRowWritten DEF Running
<1>4. CASE Cancel(c)
  <2>1. caller[c].req \in Req
    BY <1>4 DEF Cancel, InSection, TypeOK, Calls, Requests
  <2>. QED
    BY <1>4, <2>1, ConsentCancelled DEF Cancel
<1>5. CASE StopCancelsPending(c)
  <2>1. caller[c].todo \subseteq Req
    BY DEF TypeOK, Calls
  <2>. QED
    BY <1>5, <2>1, ConsentCancelled DEF StopCancelsPending
<1>6. CASE StopDrainsOne(c)
  <2>1. PICK r \in Req : r = Head(queue)
    BY <1>6 DEF StopDrainsOne, TypeOK
  <2>2. r \in Range(queue)
    BY <1>6, <2>1, TailOfUnique DEF StopDrainsOne, TypeOK, QueueInv
  <2>3. ~Running(r)
    BY <2>2 DEF QueueInv, Taken, ExecInv, Running, Busy
  <2>. QED
    BY <1>6, <2>1, <2>3, ConsentRowWritten DEF StopDrainsOne, Running
<1>7. CASE StopCancelsCurrent(c)
  <2>1. CASE UNCHANGED <<row, exec, consent>>
    BY <2>1, ConsentKept DEF Running, row
  <2>2. CASE current # NoReq
    <3>1. PICK r \in Req : r = current
      BY <2>2 DEF TypeOK
    <3>2. /\ exec'.req = exec.req /\ exec'.pc = exec.pc
          /\ exec'.cancelled = (exec.cancelled \/ exec.pc # "ended")
      BY <1>7, <2>2 DEF StopCancelsCurrent, Tasks
    <3>3. /\ ~Running(r)'
          /\ \A q \in Req : Running(q)' => Running(q)
      BY <3>2 DEF Running
    <3>. QED
      BY <1>7, <2>2, <3>1, <3>3, ConsentRowWritten DEF StopCancelsCurrent
  <2>. QED
    BY <1>7, <2>1, <2>2 DEF StopCancelsCurrent
<1>. QED
  BY <1>1, <1>2, <1>3, <1>4, <1>5, <1>6, <1>7 DEF CallerStep

(* _finish_execution keeps consent in force.                                 *)
LEMMA FinishKeepsConsent ==
  ASSUME TypeOK, ConsentInv, Next, NEW r \in Req, NEW s \in Terminal, FinishExecution(r, s),
         UNCHANGED consent, \A q \in Req : Running(q)' => Running(q)
  PROVE  ConsentInv'
<1>1. s # "queued"
  BY DEF Terminal
<1>. QED
  BY <1>1, ConsentKept, ConsentRowWritten DEF FinishExecution, row

(* Worker and task keep consent in force: a queued plan is one consented to. *)
LEMMA ExecutionKeepsConsent ==
  ASSUME TypeOK, ConsentInv, Next, WorkerStep \/ ExecStep
  PROVE  ConsentInv'
<1>. exec \in Tasks
  BY DEF TypeOK
<1>1. UNCHANGED consent
  BY DEF WorkerStep, WorkerGets, WorkerClaims, WorkerAwaits, WorkerFinishes, WorkerCleansUp,
     ExecStep, ExecBeginsStep, ExecStepFails, ExecStepSucceeds, ExecStepsDone, ExecFinishes,
     ExecReports, ExecCancelled, ghosts
<1>2. CASE WorkerGets \/ WorkerAwaits \/ WorkerCleansUp
  BY <1>1, <1>2, ConsentKept DEF WorkerGets, WorkerAwaits, WorkerCleansUp, row, Running
<1>3. CASE WorkerClaims
  <2>1. PICK r \in Req : r = worker.req
    BY <1>3 DEF WorkerClaims, TypeOK, Workers
  <2>2. CASE status[r] # "queued"
    BY <1>1, <1>3, <2>1, <2>2, ConsentKept DEF WorkerClaims, row, Running
  <2>3. CASE status[r] = "queued"
    <3>1. UpdateCommand(r, "executing") /\ exec'.req = r
      BY <1>3, <2>1, <2>3 DEF WorkerClaims, NoExec
    <3>2. \A q \in Req : status'[q] = IF q = r THEN "executing" ELSE status[q]
      BY <3>1 DEF TypeOK, UpdateCommand
    <3>3. turn'.pc = "enqueue" => Plan[turn'.req].kind = "direct"
      BY StepKeepsDirect
    <3>4. ConsentGoverns'
      BY <1>1, <2>3, <3>1 DEF ConsentInv, ConsentGoverns, NeedsConsent, Running
    <3>. QED
      BY <1>1, <3>2, <3>3, <3>4 DEF ConsentInv
  <2>. QED
    BY <2>2, <2>3
<1>4. CASE WorkerFinishes
  <2>1. worker.req \in Req
    BY <1>4 DEF WorkerFinishes, TypeOK, Workers
  <2>2. (IF worker.pc = "finish_cancelled" THEN "cancelled" ELSE "failed") \in Terminal
    BY DEF Terminal
  <2>3. UNCHANGED exec
    BY <1>4 DEF WorkerFinishes
  <2>4. \A q \in Req : Running(q)' => Running(q)
    BY <2>3 DEF Running
  <2>. QED
    BY <1>1, <1>4, <2>1, <2>2, <2>4, FinishKeepsConsent DEF WorkerFinishes
<1>5. CASE ExecFinishes
  <2>1. exec.req \in Req
    BY <1>5 DEF ExecFinishes, TypeOK, Tasks
  <2>2. (IF exec.pc = "finish_ok" THEN "succeeded" ELSE "failed") \in Terminal
    BY DEF Terminal
  <2>3. exec'.req = exec.req /\ Running(exec.req)
    BY <1>5 DEF ExecFinishes, Tasks, Running
  <2>4. \A q \in Req : Running(q)' => Running(q)
    BY <2>3 DEF Running
  <2>. QED
    BY <1>1, <1>5, <2>1, <2>2, <2>4, FinishKeepsConsent DEF ExecFinishes
<1>6. CASE \/ ExecBeginsStep \/ ExecStepFails \/ ExecStepSucceeds \/ ExecStepsDone
           \/ ExecReports \/ ExecCancelled
  <2>1. UNCHANGED status
    BY <1>6 DEF ExecBeginsStep, ExecStepFails, ExecStepSucceeds, ExecStepsDone, ExecReports,
       ExecCancelled, row
  <2>2. exec'.req = exec.req
    BY <1>6 DEF ExecBeginsStep, ExecStepFails, ExecStepSucceeds, ExecStepsDone, ExecReports,
       ExecCancelled, Tasks
  <2>3. \A q \in Req : Running(q)' => Running(q)
    BY <1>6, <2>2 DEF Running, ExecBeginsStep, ExecStepFails, ExecStepSucceeds, ExecStepsDone,
       ExecReports, ExecCancelled, Tasks
  <2>. QED
    BY <1>1, <2>1, <2>3, ConsentKept
<1>. QED
  BY <1>2, <1>3, <1>4, <1>5, <1>6 DEF WorkerStep, ExecStep

(* Every step keeps consent in force.                                        *)
LEMMA StepKeepsConsentInv ==
  ASSUME TypeOK, RunsInv, QueueInv, ExecInv, ConsentInv, Next
  PROVE  ConsentInv'
<1>1. ASSUME NEW r \in Req, TurnStarts(r)
      PROVE  ConsentInv'
  BY <1>1, ConsentRowWritten DEF TurnStarts, Running, ghosts
<1>2. ASSUME NEW r \in Req, Expires(r)
      PROVE  ConsentInv'
  BY <1>2, ConsentKept DEF Expires, Running, ghosts
<1>3. ASSUME NEW c \in Caller, NEW k \in AllCalls, NEW r \in Req, Call(c, k, r)
      PROVE  ConsentInv'
  BY <1>3, ConsentKept DEF Call, Running, row, ghosts
<1>4. ASSUME NEW c \in Caller, StopCall(c)
      PROVE  ConsentInv'
  BY <1>4, ConsentKept DEF StopCall, Running, row, ghosts
<1>5. ASSUME NEW c \in Caller, StopCutsSection(c)
      PROVE  ConsentInv'
  <2>1. turn \in Turns
    BY DEF TypeOK
  <2>2. CASE turn.pc = "stale"
    <3>1. turn.todo \subseteq Req
      BY <2>1 DEF Turns
    <3>. QED
      BY <1>5, <2>2, <3>1, ConsentCancelled DEF StopCutsSection
  <2>3. CASE turn.pc # "stale"
    <3>1. UNCHANGED <<exec, consent>> /\ turn.pc \in {"clarify", "park", "empty", "enqueue"}
      BY <1>5, <2>3 DEF StopCutsSection
    <3>2. PICK r \in Req : r = turn.req
      BY <2>1, <3>1 DEF Turns
    <3>3. PICK s : UpdateCommand(r, s) /\ (s = "queued" => turn.pc = "enqueue")
      BY <1>5, <3>1, <3>2 DEF StopCutsSection
    <3>4. s = "queued" => ~NeedsConsent(r)
      BY <3>2, <3>3 DEF ConsentInv, NeedsConsent
    <3>. QED
      BY <3>1, <3>3, <3>4, ConsentRowWritten DEF Running
  <2>. QED
    BY <2>2, <2>3
<1>6. CASE Restart
  BY <1>6, ConsentKept DEF Restart, Running, row, ghosts, NoExec
<1>. QED
  BY <1>1, <1>2, <1>3, <1>4, <1>5, <1>6, TurnKeepsConsent, CallersKeepConsent,
     ExecutionKeepsConsent DEF Next

(* Queue, task and consent keep their invariants together.                   *)
LEMMA ConsentInvariant == Spec => [](QueueInv /\ ExecInv /\ ConsentInv)
<1>1. Init => QueueInv /\ ExecInv /\ ConsentInv
  BY DEF Init, QueueInv, Unique, Taken, Range, IdleWorker, ExecInv, Busy, NoExec,
         ConsentInv, ConsentGoverns, Running, NoTurn
<1>2. TypeOK /\ RunsInv /\ QueueInv /\ ExecInv /\ ConsentInv /\ [Next]_vars
        => QueueInv' /\ ExecInv' /\ ConsentInv'
  <2>. SUFFICES ASSUME TypeOK, RunsInv, QueueInv, ExecInv, ConsentInv, [Next]_vars
                PROVE  QueueInv' /\ ExecInv' /\ ConsentInv'
    OBVIOUS
  <2>1. CASE UNCHANGED vars
    <3>1. QueueInv'
      BY <2>1 DEF QueueInv, Unique, Taken, Submitting, vars
    <3>2. ExecInv'
      BY <2>1 DEF ExecInv, Busy, vars
    <3>3. ConsentInv'
      BY <2>1 DEF ConsentInv, ConsentGoverns, Running, vars
    <3>. QED
      BY <3>1, <3>2, <3>3
  <2>2. CASE Next
    BY <2>2, StepKeepsQueueInv, StepKeepsExecInv, StepKeepsConsentInv
  <2>. QED
    BY <2>1, <2>2
<1>. QED
  BY <1>1, <1>2, TypeCorrect, RunsAreCounted, PTL DEF Spec

(* The task of a plan that needs consent goes on only while the user's last  *)
(* decision about it is a yes given in time, for any number of requests,     *)
(* confirmations, cancels and STOPs.                                         *)
THEOREM ConsentIsKept == Spec => []ConsentGoverns
<1>1. ConsentInv => ConsentGoverns
  BY DEF ConsentInv
<1>. QED
  BY <1>1, ConsentInvariant, PTL

-----------------------------------------------------------------------------
(* The queue of the state lock: what joins and leaves it, and who is in it.  *)

(* p comes before q in s.                                                    *)
Ordered(s, p, q) == \E i, j \in DOMAIN s : i < j /\ s[i] = p /\ s[j] = q

(* Who waits for the lock, or holds it.                                      *)
WaitingPcs == {"confirm", "cancel", "stop_pending", "stop_drain", "stop_current"}
Wants(p) ==
  IF p = Turn THEN turn.pc \in InSubmit
  ELSE IF p = Worker THEN worker.pc \notin {"get", "await"}
  ELSE IF p = Exec THEN exec.pc \in {"finish_ok", "finish_fail"}
  ELSE caller[p].pc \in WaitingPcs

(* The lock's queue holds exactly those who want it, each once.              *)
LockInv == Unique(lock) /\ \A p \in Procs : p \in Range(lock) <=> Wants(p)

(* What the queue of the lock becomes when its head leaves it.               *)
LEMMA HeadLeaves ==
  ASSUME NEW S, NEW s \in Seq(S), s # <<>>, Unique(s)
  PROVE  /\ Range(Tail(s)) = Range(s) \ {Head(s)}
         /\ \A p : ~Ordered(s, p, Head(s))
         /\ \A p, q : Ordered(s, p, q) /\ p # Head(s) => Ordered(Tail(s), p, q)
<1>. DEFINE t == Tail(s)
<1>1. /\ Len(s) \in Nat /\ Len(s) > 0 /\ DOMAIN s = 1..Len(s) /\ Head(s) = s[1]
      /\ t \in Seq(S) /\ DOMAIN t = 1..(Len(s) - 1)
      /\ \A i \in DOMAIN t : t[i] = s[i+1] /\ i+1 \in DOMAIN s /\ i \in Nat
  OBVIOUS
<1>. HIDE DEF t
<1>2. \A i \in DOMAIN s : i # 1 => i - 1 \in DOMAIN t /\ t[i - 1] = s[i]
  BY <1>1
<1>3. Range(s) \ {Head(s)} \subseteq Range(t)
  BY <1>1, <1>2 DEF Range
<1>4. Head(s) \notin Range(t) /\ Range(t) \subseteq Range(s)
  BY TailOfUnique DEF t
<1>5. ASSUME NEW p, Ordered(s, p, Head(s))
      PROVE  FALSE
  <2>1. PICK i, j \in DOMAIN s : i < j /\ s[i] = p /\ s[j] = s[1]
    BY <1>1, <1>5 DEF Ordered
  <2>2. j = 1
    BY <1>1, <2>1 DEF Unique
  <2>. QED
    BY <1>1, <2>1, <2>2
<1>6. ASSUME NEW p, NEW q, Ordered(s, p, q), p # Head(s)
      PROVE  Ordered(t, p, q)
  <2>1. PICK i, j \in DOMAIN s : i < j /\ s[i] = p /\ s[j] = q
    BY <1>6 DEF Ordered
  <2>2. i # 1 /\ j # 1
    BY <1>1, <1>6, <2>1
  <2>3. /\ i - 1 \in DOMAIN t /\ t[i - 1] = p
        /\ j - 1 \in DOMAIN t /\ t[j - 1] = q /\ i - 1 < j - 1
    BY <1>1, <1>2, <2>1, <2>2
  <2>. QED
    BY <2>3 DEF Ordered
<1>. QED
  BY <1>3, <1>4, <1>5, <1>6 DEF t

(* What it becomes when somebody joins it.                                   *)
LEMMA TailGrows ==
  ASSUME NEW S, NEW s \in Seq(S), NEW e \in S
  PROVE  /\ \A p, q : Ordered(s, p, q) => Ordered(Append(s, e), p, q)
         /\ \A p \in Range(s) : Ordered(Append(s, e), p, e)
<1>. DEFINE t == Append(s, e)
<1>1. /\ Len(s) \in Nat /\ DOMAIN s = 1..Len(s) /\ DOMAIN t = 1..(Len(s) + 1)
      /\ t[Len(s) + 1] = e
      /\ \A i \in DOMAIN s : t[i] = s[i]
  OBVIOUS
<1>. HIDE DEF t
<1>2. DOMAIN s \subseteq DOMAIN t /\ Len(s) + 1 \in DOMAIN t
  BY <1>1
<1>3. ASSUME NEW p, NEW q, Ordered(s, p, q)
      PROVE  Ordered(t, p, q)
  <2>1. PICK i, j \in DOMAIN s : i < j /\ s[i] = p /\ s[j] = q
    BY <1>3 DEF Ordered
  <2>. QED
    BY <1>1, <1>2, <2>1 DEF Ordered
<1>4. ASSUME NEW p \in Range(s)
      PROVE  Ordered(t, p, e)
  <2>1. PICK i \in DOMAIN s : s[i] = p
    BY DEF Range
  <2>2. i < Len(s) + 1
    BY <1>1
  <2>. QED
    BY <1>1, <1>2, <2>1, <2>2 DEF Ordered
<1>. QED
  BY <1>3, <1>4 DEF t

(* RemoveAt, element by element.                                             *)
LEMMA RemovedAt ==
  ASSUME NEW S, NEW s \in Seq(S), NEW i \in 1..Len(s)
  PROVE  /\ DOMAIN RemoveAt(s, i) = 1..(Len(s) - 1)
         /\ \A k \in 1..(Len(s) - 1) : RemoveAt(s, i)[k] = IF k < i THEN s[k] ELSE s[k + 1]
<1>. DEFINE a == SubSeq(s, 1, i - 1)
            b == SubSeq(s, i + 1, Len(s))
<1>1. i \in Int /\ Len(s) \in Nat /\ 1 <= i /\ i <= Len(s)
  OBVIOUS
<1>2. /\ a \in Seq(S) /\ Len(a) = i - 1
      /\ \A k \in 1..(i - 1) : a[k] = s[k]
  BY <1>1
<1>3. /\ b \in Seq(S) /\ Len(b) = Len(s) - i
      /\ \A k \in 1..(Len(s) - i) : b[k] = s[k + i]
  BY <1>1
<1>. HIDE DEF a, b
<1>4. RemoveAt(s, i) = a \o b
  BY DEF RemoveAt, a, b
<1>5. /\ DOMAIN (a \o b) = 1..(Len(s) - 1)
      /\ \A k \in 1..(Len(s) - 1) : (a \o b)[k] = IF k < i THEN a[k] ELSE b[k - (i - 1)]
  <2>1. /\ DOMAIN (a \o b) = 1..(Len(a) + Len(b))
        /\ \A k \in 1..(Len(a) + Len(b)) :
             (a \o b)[k] = IF k <= Len(a) THEN a[k] ELSE b[k - Len(a)]
    <3>1. a \o b \in Seq(S) /\ Len(a \o b) = Len(a) + Len(b)
      BY <1>2, <1>3, ConcatProperties
    <3>2. DOMAIN (a \o b) = 1..Len(a \o b)
      BY <3>1
    <3>. QED
      BY <1>2, <1>3, <3>1, <3>2, ConcatProperties
  <2>2. Len(a) + Len(b) = Len(s) - 1
    BY <1>1, <1>2, <1>3
  <2>3. \A k \in 1..(Len(s) - 1) : k <= i - 1 <=> k < i
    BY <1>1
  <2>. QED
    BY <1>2, <2>1, <2>2, <2>3
<1>6. ASSUME NEW k \in 1..(Len(s) - 1)
      PROVE  (a \o b)[k] = IF k < i THEN s[k] ELSE s[k + 1]
  <2>1. k < i => a[k] = s[k]
    BY <1>1, <1>2
  <2>2. ~(k < i) => k - (i - 1) \in 1..(Len(s) - i) /\ k - (i - 1) + i = k + 1
    BY <1>1
  <2>. QED
    BY <1>3, <1>5, <2>1, <2>2
<1>. QED
  BY <1>4, <1>5, <1>6

(* What the queue of the lock becomes when somebody gives up waiting.        *)
LEMMA OneLeaves ==
  ASSUME NEW S, NEW s \in Seq(S), NEW i \in DOMAIN s, Unique(s)
  PROVE  /\ Unique(RemoveAt(s, i)) /\ Range(RemoveAt(s, i)) = Range(s) \ {s[i]}
         /\ \A p, q : Ordered(s, p, q) /\ p # s[i] /\ q # s[i] => Ordered(RemoveAt(s, i), p, q)
<1>. DEFINE t == RemoveAt(s, i)
            At(k) == IF k < i THEN k ELSE k + 1
            Of(k) == IF k < i THEN k ELSE k - 1
<1>1. Len(s) \in Nat /\ DOMAIN s = 1..Len(s) /\ i \in 1..Len(s)
  OBVIOUS
<1>2. DOMAIN t = 1..(Len(s) - 1) /\ \A k \in DOMAIN t : t[k] = IF k < i THEN s[k] ELSE s[k + 1]
  BY <1>1, RemovedAt
<1>. HIDE DEF t
<1>3. \A k \in DOMAIN t : At(k) \in DOMAIN s /\ At(k) # i /\ t[k] = s[At(k)]
  BY <1>1, <1>2
<1>4. \A k \in DOMAIN s : k # i => Of(k) \in DOMAIN t /\ t[Of(k)] = s[k]
  <2>. SUFFICES ASSUME NEW k \in DOMAIN s, k # i
                PROVE  Of(k) \in DOMAIN t /\ t[Of(k)] = s[k]
    OBVIOUS
  <2>1. CASE k < i
    <3>1. k \in DOMAIN t
      BY <1>1, <1>2, <2>1
    <3>. QED
      BY <1>2, <2>1, <3>1
  <2>2. CASE ~(k < i)
    <3>1. k - 1 \in DOMAIN t /\ ~(k - 1 < i) /\ k - 1 + 1 = k
      BY <1>1, <1>2, <2>2
    <3>. QED
      BY <1>2, <2>2, <3>1
  <2>. QED
    BY <2>1, <2>2
<1>5. \A k, l \in DOMAIN t : At(k) = At(l) => k = l
  BY <1>1, <1>2
<1>6. \A k, l \in DOMAIN s : k < l /\ k # i /\ l # i => Of(k) < Of(l)
  BY <1>1
<1>. HIDE DEF At, Of
<1>7. Unique(t)
  BY <1>3, <1>5 DEF Unique
<1>8. Range(t) = Range(s) \ {s[i]}
  BY <1>3, <1>4 DEF Range, Unique
<1>9. ASSUME NEW p, NEW q, Ordered(s, p, q), p # s[i], q # s[i]
      PROVE  Ordered(t, p, q)
  <2>1. PICK k, l \in DOMAIN s : k < l /\ s[k] = p /\ s[l] = q
    BY <1>9 DEF Ordered
  <2>2. /\ Of(k) \in DOMAIN t /\ t[Of(k)] = p /\ Of(l) \in DOMAIN t /\ t[Of(l)] = q
        /\ Of(k) < Of(l)
    BY <1>4, <1>6, <1>9, <2>1
  <2>. QED
    BY <2>2 DEF Ordered
<1>. QED
  BY <1>7, <1>8, <1>9 DEF t

(* c goes on with its call, less of which a STOP may have promised to end, or *)
(* the completion it waited for has come.                                    *)
Keeps(c) ==
  \/ /\ caller'[c].pc = caller[c].pc /\ caller'[c].req = caller[c].req
     /\ caller'[c].todo = caller[c].todo /\ caller'[c].doomed \subseteq caller[c].doomed
  \/ caller[c].pc = "waiting" /\ caller'[c] = NoCall

(* The callers that do not act go on.                                        *)
LEMMA OthersKeep ==
  ASSUME TypeOK, NEW d \in Caller, NEW call, NEW r,
         caller' = Becomes(d, call) \/ ResolveCompletion(r, Becomes(d, call))
  PROVE  \A c \in Caller \ {d} : Keeps(c)
  BY DEF TypeOK, Becomes, ResolveCompletion, Answered, Keeps

(* The caller that acts has its new record.                                  *)
LEMMA ActorBecomes ==
  ASSUME TypeOK, NEW d \in Caller, NEW call, call.pc # "waiting", NEW r,
         caller' = Becomes(d, call) \/ ResolveCompletion(r, Becomes(d, call))
  PROVE  caller'[d] = call
  BY DEF TypeOK, Becomes, ResolveCompletion, Answered

(* All callers go on when only a completion is resolved.                     *)
LEMMA AllKeep ==
  ASSUME TypeOK, NEW r, UNCHANGED caller \/ ResolveCompletion(r, caller)
  PROVE  \A c \in Caller : Keeps(c)
  BY DEF TypeOK, ResolveCompletion, Answered, Keeps

(* The turn leaves the callers at their calls.                               *)
LEMMA TurnLetsKeep ==
  ASSUME TypeOK, TurnStep
  PROVE  \A c \in Caller : Keeps(c)
<1>1. CASE SubmitCancelsStale
  BY <1>1, AllKeep DEF SubmitCancelsStale
<1>2. CASE MarkAborted
  <2>1. CASE UNCHANGED caller
    BY <2>1, AllKeep
  <2>2. CASE caller' = [c \in Caller |-> [caller[c] EXCEPT !.doomed = @ \ {turn.req}]]
    BY <2>2 DEF TypeOK, Calls, Keeps
  <2>. QED
    BY <1>2, <2>1, <2>2 DEF MarkAborted
<1>3. CASE ~SubmitCancelsStale /\ ~MarkAborted
  <2>1. UNCHANGED caller
    BY <1>3 DEF TurnStep, SubmitRefused, Submit, SubmitClarification, SubmitEmpty,
       SubmitParks, SubmitEnqueues, TurnEnds, TurnAborted, MarkReads, MarkWrites
  <2>. QED
    BY <2>1, AllKeep
<1>. QED
  BY <1>1, <1>2, <1>3

(* So do the worker and the task.                                            *)
LEMMA ExecutionLetsKeep ==
  ASSUME TypeOK, WorkerStep \/ ExecStep
  PROVE  \A c \in Caller : Keeps(c)
<1>1. ASSUME NEW r, NEW s, FinishExecution(r, s)
      PROVE  \A c \in Caller : Keeps(c)
  BY <1>1, AllKeep DEF FinishExecution
<1>2. CASE WorkerFinishes
  BY <1>1, <1>2 DEF WorkerFinishes
<1>3. CASE ExecFinishes
  BY <1>1, <1>3 DEF ExecFinishes
<1>4. CASE ~WorkerFinishes /\ ~ExecFinishes
  <2>1. UNCHANGED caller
    BY <1>4 DEF WorkerStep, WorkerGets, WorkerClaims, WorkerAwaits, WorkerCleansUp, ExecStep,
       ExecBeginsStep, ExecStepFails, ExecStepSucceeds, ExecStepsDone, ExecReports,
       ExecCancelled
  <2>. QED
    BY <2>1, AllKeep
<1>. QED
  BY <1>2, <1>3, <1>4

(* A caller that acts leaves the others at their calls.                      *)
LEMMA CallerLetsKeep ==
  ASSUME TypeOK, NEW d \in Caller,
         \/ CallerStep(d) \/ StopCall(d) \/ StopCutsSection(d)
         \/ \E k \in AllCalls, r \in Req : Call(d, k, r)
  PROVE  \A c \in Caller \ {d} : Keeps(c)
<1>1. ASSUME NEW call, caller' = Becomes(d, call)
      PROVE  \A c \in Caller \ {d} : Keeps(c)
  BY <1>1, OthersKeep
<1>2. ASSUME NEW call, NEW r, ResolveCompletion(r, Becomes(d, call))
      PROVE  \A c \in Caller \ {d} : Keeps(c)
  BY <1>2, OthersKeep
<1>3. CASE \/ ConfirmTooLate(d) \/ ConfirmNotRunnable(d) \/ Confirm(d) \/ WaitReads(d)
           \/ WaitRegisters(d) \/ StopSnapshots(d) \/ StopDrained(d) \/ StopCancelsCurrent(d)
           \/ StopJoins(d) \/ StopRaises(d) \/ StopReturns(d) \/ StopCall(d)
           \/ StopCutsSection(d)
  <2>1. \E call : caller' = Becomes(d, call)
    BY <1>3 DEF ConfirmTooLate, ConfirmNotRunnable, Confirm, WaitReads, WaitRegisters,
       StopSnapshots, StopDrained, StopCancelsCurrent, StopJoins, StopRaises, StopReturns,
       StopCall, StopCutsSection, Stops, Returns, Moves
  <2>. QED
    BY <1>1, <2>1
<1>4. CASE Cancel(d) \/ StopCancelsPending(d)
  <2>1. \E call, r : ResolveCompletion(r, Becomes(d, call))
    BY <1>4 DEF Cancel, StopCancelsPending
  <2>. QED
    BY <1>2, <2>1
<1>5. CASE StopDrainsOne(d)
  BY <1>5, AllKeep DEF StopDrainsOne
<1>6. ASSUME NEW k \in AllCalls, NEW r \in Req, Call(d, k, r)
      PROVE  \A c \in Caller \ {d} : Keeps(c)
  <2>. SUFFICES ASSUME NEW c \in Caller \ {d}
                PROVE  Keeps(c)
    OBVIOUS
  <2>1. \/ caller'[c] = caller[c]
        \/ caller'[c] = [caller[c] EXCEPT !.doomed = @ \ {r}]
    BY <1>6 DEF Call
  <2>2. caller[c] \in Calls
    BY DEF TypeOK
  <2>. QED
    BY <2>1, <2>2 DEF Keeps, Calls
<1>. QED
  BY <1>3, <1>4, <1>5, <1>6 DEF CallerStep

(* Who does not act goes on wanting the lock, or not wanting it.             *)
LEMMA WantsKept ==
  ASSUME NEW p, p # Turn => turn'.pc = turn.pc, p # Worker => worker'.pc = worker.pc,
         p # Exec => (Wants(Exec)' <=> Wants(Exec)),
         \A c \in Caller \ {p} : \/ Keeps(c)
                                 \/ caller[c].pc \notin WaitingPcs
                                    /\ caller'[c].pc \notin WaitingPcs
  PROVE  \A q \in Procs \ {p} : Wants(q)' <=> Wants(q)
<1>. SUFFICES ASSUME NEW q \in Procs \ {p}
              PROVE  Wants(q)' <=> Wants(q)
  OBVIOUS
<1>1. CASE q \in {Turn, Worker, Exec}
  BY <1>1, ExecutorAssumption DEF Wants
<1>2. CASE q \in Caller
  <2>1. Wants(q) <=> caller[q].pc \in WaitingPcs
    BY <1>2, ExecutorAssumption DEF Wants
  <2>2. Wants(q)' <=> caller'[q].pc \in WaitingPcs
    BY <1>2, ExecutorAssumption DEF Wants
  <2>. QED
    BY <1>2, <2>1, <2>2 DEF Keeps, WaitingPcs, NoCall
<1>. QED
  BY <1>1, <1>2 DEF Procs

(* The queue of the lock holds whoever wants it when p moves in it.          *)
LEMMA LockMoved ==
  ASSUME TypeOK, LockInv, NEW p \in Procs,
         \A q \in Procs \ {p} : Wants(q)' <=> Wants(q),
         \/ UNCHANGED lock /\ (Wants(p)' <=> Wants(p))
         \/ Acquire(p) /\ ~Wants(p) /\ Wants(p)'
         \/ Holds(p) /\ Release /\ ~Wants(p)'
         \/ Holds(p) /\ Reacquire(p) /\ Wants(p)'
         \/ Leave(p) /\ ~Wants(p)'
  PROVE  LockInv'
<1>. lock \in Seq(Procs) /\ Unique(lock)
  BY DEF TypeOK, LockInv
<1>1. CASE UNCHANGED lock /\ (Wants(p)' <=> Wants(p))
  BY <1>1 DEF LockInv
<1>2. CASE Acquire(p) /\ ~Wants(p) /\ Wants(p)'
  <2>1. p \notin Range(lock)
    BY <1>2 DEF LockInv
  <2>2. Unique(lock') /\ Range(lock') = Range(lock) \cup {p}
    BY <1>2, <2>1, AppendToUnique DEF Acquire
  <2>. QED
    BY <1>2, <2>2 DEF LockInv
<1>3. CASE Holds(p) /\ Release /\ ~Wants(p)'
  <2>1. Unique(lock') /\ Range(lock') = Range(lock) \ {p}
    BY <1>3, TailOfUnique, HeadLeaves DEF Release, Holds
  <2>. QED
    BY <1>3, <2>1 DEF LockInv
<1>4. CASE Holds(p) /\ Reacquire(p) /\ Wants(p)'
  <2>. DEFINE t == Tail(lock)
  <2>1. t \in Seq(Procs) /\ Unique(t) /\ Range(t) = Range(lock) \ {p}
    BY <1>4, TailOfUnique, HeadLeaves DEF Holds
  <2>2. lock' = Append(t, p)
    BY <1>4 DEF Reacquire
  <2>. HIDE DEF t
  <2>3. Unique(lock') /\ Range(lock') = Range(t) \cup {p}
    BY <2>1, <2>2, AppendToUnique
  <2>. QED
    BY <1>4, <2>1, <2>3 DEF LockInv
<1>5. CASE Leave(p) /\ ~Wants(p)'
  <2>1. CASE p \notin Range(lock) /\ UNCHANGED lock
    BY <1>5, <2>1 DEF LockInv
  <2>2. CASE \E i \in DOMAIN lock : lock[i] = p /\ lock' = RemoveAt(lock, i)
    <3>1. PICK i \in DOMAIN lock : lock[i] = p /\ lock' = RemoveAt(lock, i)
      BY <2>2
    <3>2. Unique(lock') /\ Range(lock') = Range(lock) \ {p}
      BY <3>1, OneLeaves
    <3>. QED
      BY <1>5, <3>2 DEF LockInv
  <2>. QED
    BY <1>5, <2>1, <2>2 DEF Leave
<1>. QED
  BY <1>1, <1>2, <1>3, <1>4, <1>5

(* The turn moves in the lock's queue as it wants it.                        *)
LEMMA TurnKeepsLock ==
  ASSUME TypeOK, LockInv, TurnStep
  PROVE  LockInv'
<1>. /\ turn \in Turns /\ exec \in Tasks /\ Turn \in Procs
     /\ Wants(Turn) = (turn.pc \in InSubmit) /\ Wants(Turn)' = (turn'.pc \in InSubmit)
  BY DEF TypeOK, Procs, Wants
<1>1. UNCHANGED worker /\ exec'.pc = exec.pc
  <2>1. CASE SubmitCancelsStale
    BY <2>1 DEF SubmitCancelsStale, CancelWrites, Tasks
  <2>2. CASE ~SubmitCancelsStale
    BY <2>2 DEF TurnStep, SubmitRefused, Submit, SubmitClarification, SubmitEmpty,
       SubmitParks, SubmitEnqueues, TurnEnds, TurnAborted, MarkReads, MarkWrites, MarkAborted
  <2>3. UNCHANGED worker
    BY DEF TurnStep, SubmitRefused, Submit, SubmitClarification, SubmitEmpty,
       SubmitCancelsStale, SubmitParks, SubmitEnqueues, TurnEnds, TurnAborted, MarkReads,
       MarkWrites, MarkAborted
  <2>. QED
    BY <2>1, <2>2, <2>3
<1>2. \A q \in Procs \ {Turn} : Wants(q)' <=> Wants(q)
  <2>1. Wants(Exec)' <=> Wants(Exec)
    BY <1>1, ExecutorAssumption DEF Wants
  <2>. QED
    BY <1>1, <2>1, TurnLetsKeep, WantsKept
<1>3. CASE SubmitRefused \/ TurnEnds \/ MarkReads \/ MarkWrites \/ MarkAborted
  <2>1. turn'.pc \notin InSubmit /\ turn.pc \notin InSubmit /\ UNCHANGED lock
    BY <1>3 DEF SubmitRefused, TurnEnds, MarkReads, MarkWrites, MarkAborted, NoTurn, TurnMoves,
       Turns, InSubmit
  <2>. QED
    BY <1>2, <2>1, LockMoved
<1>4. CASE Submit
  <2>1. turn'.pc \in InSubmit /\ turn.pc \notin InSubmit /\ Acquire(Turn)
    BY <1>4 DEF Submit, TurnMoves, Turns, InSubmit
  <2>. QED
    BY <1>2, <2>1, LockMoved
<1>5. CASE SubmitClarification \/ SubmitEmpty \/ SubmitParks \/ SubmitEnqueues
  <2>1. turn'.pc \notin InSubmit /\ Holds(Turn) /\ Release
    BY <1>5 DEF SubmitClarification, SubmitEmpty, SubmitParks, SubmitEnqueues, TurnMoves,
       Turns, InSubmit, InTurnSection
  <2>. QED
    BY <1>2, <2>1, LockMoved
<1>6. CASE SubmitCancelsStale
  <2>1. turn'.pc \in InSubmit /\ Holds(Turn) /\ Reacquire(Turn)
    BY <1>6 DEF SubmitCancelsStale, Turns, InSubmit, InTurnSection
  <2>. QED
    BY <1>2, <2>1, LockMoved
<1>7. CASE TurnAborted
  <2>1. turn'.pc \notin InSubmit /\ Leave(Turn)
    BY <1>7 DEF TurnAborted, Turns, InSubmit
  <2>. QED
    BY <1>2, <2>1, LockMoved
<1>. QED
  BY <1>3, <1>4, <1>5, <1>6, <1>7 DEF TurnStep

(* So does the worker.                                                       *)
LEMMA WorkerKeepsLock ==
  ASSUME TypeOK, ExecInv, LockInv, WorkerStep
  PROVE  LockInv'
<1>. /\ worker \in Workers /\ exec \in Tasks /\ Worker \in Procs
     /\ Wants(Worker) = (worker.pc \notin {"get", "await"})
     /\ Wants(Worker)' = (worker'.pc \notin {"get", "await"})
  BY ExecutorAssumption DEF TypeOK, Procs, Wants
<1>1. UNCHANGED turn
  BY DEF WorkerStep, WorkerGets, WorkerClaims, WorkerAwaits, WorkerFinishes, WorkerCleansUp
<1>2. Wants(Exec)' <=> Wants(Exec)
  <2>1. /\ Wants(Exec) <=> exec.pc \in {"finish_ok", "finish_fail"}
        /\ Wants(Exec)' <=> exec'.pc \in {"finish_ok", "finish_fail"}
    BY ExecutorAssumption DEF Wants
  <2>2. UNCHANGED exec \/ (WorkerClaims /\ exec'.pc = "step")
    BY DEF WorkerStep, WorkerGets, WorkerClaims, WorkerAwaits, WorkerFinishes, WorkerCleansUp,
       NoExec
  <2>3. WorkerClaims => exec.pc \in {"none", "ended"}
    BY DEF WorkerClaims, ExecInv, Busy
  <2>. QED
    BY <2>1, <2>2, <2>3
<1>3. \A q \in Procs \ {Worker} : Wants(q)' <=> Wants(q)
  BY <1>1, <1>2, ExecutionLetsKeep, WantsKept
<1>4. CASE WorkerGets
  <2>1. worker'.pc = "claim" /\ worker.pc = "get" /\ Acquire(Worker)
    BY <1>4 DEF WorkerGets
  <2>. QED
    BY <1>3, <2>1, LockMoved
<1>5. CASE WorkerClaims
  <2>1. worker'.pc \in {"get", "await"} /\ Holds(Worker) /\ Release
    BY <1>5 DEF WorkerClaims, IdleWorker, Workers
  <2>. QED
    BY <1>3, <2>1, LockMoved
<1>6. CASE WorkerAwaits
  <2>1. worker'.pc \notin {"get", "await"} /\ worker.pc = "await" /\ Acquire(Worker)
    BY <1>6 DEF WorkerAwaits, Workers
  <2>. QED
    BY <1>3, <2>1, LockMoved
<1>7. CASE WorkerFinishes
  <2>1. worker'.pc = "cleanup" /\ Holds(Worker) /\ Reacquire(Worker)
    BY <1>7 DEF WorkerFinishes, Workers
  <2>. QED
    BY <1>3, <2>1, LockMoved
<1>8. CASE WorkerCleansUp
  <2>1. worker'.pc = "get" /\ Holds(Worker) /\ Release
    BY <1>8 DEF WorkerCleansUp, IdleWorker
  <2>. QED
    BY <1>3, <2>1, LockMoved
<1>. QED
  BY <1>4, <1>5, <1>6, <1>7, <1>8 DEF WorkerStep

(* So does the task.                                                         *)
LEMMA TaskKeepsLock ==
  ASSUME TypeOK, LockInv, ExecStep
  PROVE  LockInv'
<1>. /\ exec \in Tasks /\ Exec \in Procs
     /\ Wants(Exec) = (exec.pc \in {"finish_ok", "finish_fail"})
     /\ Wants(Exec)' = (exec'.pc \in {"finish_ok", "finish_fail"})
  BY ExecutorAssumption DEF TypeOK, Procs, Wants
<1>1. UNCHANGED <<turn, worker>>
  BY DEF ExecStep, ExecBeginsStep, ExecStepFails, ExecStepSucceeds, ExecStepsDone,
     ExecFinishes, ExecReports, ExecCancelled
<1>2. \A q \in Procs \ {Exec} : Wants(q)' <=> Wants(q)
  BY <1>1, ExecutionLetsKeep, WantsKept
<1>3. CASE ExecBeginsStep \/ ExecStepSucceeds \/ ExecReports
  <2>1. /\ exec.pc \notin {"finish_ok", "finish_fail"}
        /\ exec'.pc \notin {"finish_ok", "finish_fail"} /\ UNCHANGED lock
    BY <1>3 DEF ExecBeginsStep, ExecStepSucceeds, ExecReports, Tasks
  <2>. QED
    BY <1>2, <2>1, LockMoved
<1>4. CASE ExecStepFails \/ ExecStepsDone
  <2>1. /\ exec.pc \notin {"finish_ok", "finish_fail"}
        /\ exec'.pc \in {"finish_ok", "finish_fail"} /\ Acquire(Exec)
    BY <1>4 DEF ExecStepFails, ExecStepsDone, Tasks
  <2>. QED
    BY <1>2, <2>1, LockMoved
<1>5. CASE ExecFinishes
  <2>1. exec'.pc \in {"post", "ended"} /\ Holds(Exec) /\ Release
    BY <1>5 DEF ExecFinishes, Tasks
  <2>. QED
    BY <1>2, <2>1, LockMoved
<1>6. CASE ExecCancelled
  <2>1. exec'.pc = "ended" /\ Leave(Exec)
    BY <1>6 DEF ExecCancelled, Tasks
  <2>. QED
    BY <1>2, <2>1, LockMoved
<1>. QED
  BY <1>3, <1>4, <1>5, <1>6 DEF ExecStep

(* So do confirm, cancel and STOP.                                           *)
LEMMA CallersKeepLock ==
  ASSUME TypeOK, LockInv, NEW c \in Caller, CallerStep(c)
  PROVE  LockInv'
<1>. /\ exec \in Tasks /\ c \in Procs /\ caller[c] \in Calls
     /\ Wants(c) = (caller[c].pc \in WaitingPcs) /\ Wants(c)' = (caller'[c].pc \in WaitingPcs)
  BY ExecutorAssumption DEF TypeOK, Procs, Wants
<1>1. UNCHANGED <<turn, worker>> /\ exec'.pc = exec.pc
  <2>1. UNCHANGED <<turn, worker>>
    BY DEF CallerStep, ConfirmTooLate, ConfirmNotRunnable, Confirm, Cancel, WaitReads,
       WaitRegisters, StopSnapshots, StopCancelsPending, StopDrainsOne, StopDrained,
       StopCancelsCurrent, StopJoins, StopRaises, StopReturns
  <2>2. CASE Cancel(c) \/ StopCancelsPending(c) \/ StopCancelsCurrent(c)
    BY <2>1, <2>2 DEF Cancel, StopCancelsPending, StopCancelsCurrent, CancelWrites, Tasks
  <2>3. CASE ~Cancel(c) /\ ~StopCancelsPending(c) /\ ~StopCancelsCurrent(c)
    BY <2>1, <2>3 DEF CallerStep, ConfirmTooLate, ConfirmNotRunnable, Confirm, WaitReads,
       WaitRegisters, StopSnapshots, StopDrainsOne, StopDrained, StopJoins, StopRaises,
       StopReturns
  <2>. QED
    BY <2>2, <2>3
<1>2. \A q \in Procs \ {c} : Wants(q)' <=> Wants(q)
  <2>1. Wants(Exec)' <=> Wants(Exec)
    BY <1>1, ExecutorAssumption DEF Wants
  <2>. QED
    BY <1>1, <2>1, CallerLetsKeep, WantsKept
<1>3. CASE ConfirmTooLate(c) \/ ConfirmNotRunnable(c) \/ Confirm(c)
  <2>1. caller'[c] = NoCall /\ Holds(c) /\ Release
    BY <1>3 DEF ConfirmTooLate, ConfirmNotRunnable, Confirm, InSection, Returns, Becomes, TypeOK
  <2>2. caller'[c].pc = "idle"
    BY <2>1 DEF NoCall
  <2>. QED
    BY <1>2, <2>1, <2>2, LockMoved DEF WaitingPcs
<1>4. CASE Cancel(c)
  <2>1. caller'[c] = NoCall /\ Holds(c) /\ Release
    BY <1>4, ActorBecomes DEF Cancel, InSection, NoCall
  <2>2. caller'[c].pc = "idle"
    BY <2>1 DEF NoCall
  <2>. QED
    BY <1>2, <2>1, <2>2, LockMoved DEF WaitingPcs
<1>5. CASE WaitReads(c) \/ WaitRegisters(c) \/ StopJoins(c) \/ StopRaises(c) \/ StopReturns(c)
  <2>1. caller[c].pc \notin WaitingPcs /\ UNCHANGED lock
    BY <1>5 DEF WaitReads, WaitRegisters, StopJoins, StopRaises, StopReturns, WaitingPcs
  <2>2. caller'[c].pc \in {"idle", "register", "waiting", "stop_gather"}
    BY <1>5 DEF WaitReads, WaitRegisters, StopJoins, StopRaises, StopReturns, Moves, Returns,
       Becomes, NoCall, TypeOK, Calls
  <2>. QED
    BY <1>2, <2>1, <2>2, LockMoved DEF WaitingPcs
<1>6. CASE StopSnapshots(c)
  <2>1. caller[c].pc \notin WaitingPcs /\ Acquire(c)
    BY <1>6 DEF StopSnapshots, WaitingPcs
  <2>2. caller'[c].pc \in {"stop_drain", "stop_pending"}
    BY <1>6 DEF StopSnapshots, Becomes, TypeOK, Calls
  <2>. QED
    BY <1>2, <2>1, <2>2, LockMoved DEF WaitingPcs
<1>7. CASE StopCancelsPending(c)
  <2>1. Holds(c) /\ Reacquire(c)
    BY <1>7 DEF StopCancelsPending, InSection
  <2>2. PICK r \in caller[c].todo :
          ResolveCompletion(r, Becomes(c, [caller[c] EXCEPT !.todo = @ \ {r},
            !.pc = IF caller[c].todo = {r} THEN "stop_drain" ELSE "stop_pending"]))
    BY <1>7 DEF StopCancelsPending
  <2>. DEFINE pc == IF caller[c].todo = {r} THEN "stop_drain" ELSE "stop_pending"
              new == [caller[c] EXCEPT !.todo = @ \ {r}, !.pc = pc]
  <2>3. pc \in {"stop_drain", "stop_pending"}
    OBVIOUS
  <2>. HIDE DEF pc
  <2>4. new.pc = pc
    BY DEF Calls
  <2>5. ResolveCompletion(r, Becomes(c, new))
    BY <2>2 DEF pc
  <2>. HIDE DEF new
  <2>6. caller'[c] = new
    BY <2>3, <2>4, <2>5, ActorBecomes
  <2>. QED
    BY <1>2, <2>1, <2>3, <2>4, <2>6, LockMoved DEF WaitingPcs
<1>8. CASE StopDrainsOne(c)
  <2>1. Holds(c) /\ Reacquire(c) /\ caller[c].pc = "stop_drain"
    BY <1>8 DEF StopDrainsOne, InSection
  <2>2. caller'[c].pc = "stop_drain"
    BY <1>8, <2>1, AllKeep DEF StopDrainsOne, Keeps
  <2>. QED
    BY <1>2, <2>1, <2>2, LockMoved DEF WaitingPcs
<1>9. CASE StopDrained(c)
  <2>1. Holds(c) /\ Reacquire(c)
    BY <1>9 DEF StopDrained, InSection
  <2>2. caller'[c].pc = "stop_current"
    BY <1>9 DEF StopDrained, Moves, Becomes, TypeOK, Calls
  <2>. QED
    BY <1>2, <2>1, <2>2, LockMoved DEF WaitingPcs
<1>10. CASE StopCancelsCurrent(c)
  <2>1. Holds(c) /\ Release
    BY <1>10 DEF StopCancelsCurrent, InSection
  <2>2. caller'[c].pc = "stop_join"
    BY <1>10 DEF StopCancelsCurrent, Becomes, TypeOK, Calls
  <2>. QED
    BY <1>2, <2>1, <2>2, LockMoved DEF WaitingPcs
<1>. QED
  BY <1>3, <1>4, <1>5, <1>6, <1>7, <1>8, <1>9, <1>10 DEF CallerStep

(* So does whoever calls, and whatever else happens.                         *)
LEMMA WorldKeepsLock ==
  ASSUME TypeOK, LockInv,
         \/ \E r \in Req : TurnStarts(r) \/ Expires(r)
         \/ \E c \in Caller : \/ \E k \in AllCalls \ {"stop"}, r \in Req : Call(c, k, r)
                              \/ StopCall(c) \/ StopCutsSection(c)
         \/ Restart
  PROVE  LockInv'
<1>. /\ exec \in Tasks /\ turn \in Turns /\ caller \in [Caller -> Calls]
     /\ Turn \in Procs /\ Wants(Turn) = (turn.pc \in InSubmit)
     /\ Wants(Turn)' = (turn'.pc \in InSubmit)
     /\ (Wants(Exec) <=> exec.pc \in {"finish_ok", "finish_fail"})
     /\ (Wants(Exec)' <=> exec'.pc \in {"finish_ok", "finish_fail"})
  BY ExecutorAssumption DEF TypeOK, Wants, Procs
<1>1. ASSUME NEW r \in Req, TurnStarts(r)
      PROVE  LockInv'
  <2>1. /\ turn'.pc \notin InSubmit /\ turn.pc \notin InSubmit
        /\ UNCHANGED <<worker, exec, caller, lock>>
    BY <1>1 DEF TurnStarts, NoTurn, InSubmit
  <2>2. \A q \in Procs \ {Turn} : Wants(q)' <=> Wants(q)
    BY <2>1, AllKeep, WantsKept
  <2>. QED
    BY <2>1, <2>2, LockMoved
<1>2. ASSUME NEW r \in Req, Expires(r)
      PROVE  LockInv'
  <2>1. UNCHANGED <<turn, worker, exec, caller, lock>>
    BY <1>2 DEF Expires
  <2>2. \A q \in Procs \ {Turn} : Wants(q)' <=> Wants(q)
    BY <2>1, AllKeep, WantsKept
  <2>. QED
    BY <2>1, <2>2, LockMoved
<1>3. ASSUME NEW c \in Caller, NEW k \in AllCalls \ {"stop"}, NEW r \in Req, Call(c, k, r)
      PROVE  LockInv'
  <2>1. /\ c \in Procs /\ Wants(c) = (caller[c].pc \in WaitingPcs)
        /\ Wants(c)' = (caller'[c].pc \in WaitingPcs)
    BY ExecutorAssumption DEF Procs, Wants
  <2>2. UNCHANGED <<turn, worker, exec>>
    BY <1>3 DEF Call
  <2>3. Wants(Exec)' <=> Wants(Exec)
    BY <2>2
  <2>4. \A q \in Procs \ {c} : Wants(q)' <=> Wants(q)
    BY <1>3, <2>2, <2>3, CallerLetsKeep, WantsKept
  <2>5. /\ caller[c].pc = "idle"
        /\ caller'[c].pc = IF k = "wait" THEN "read" ELSE k
    BY <1>3 DEF Call, Places, NoCall
  <2>6. \/ k \in {"confirm", "cancel"} /\ Acquire(c)
        \/ k = "wait" /\ UNCHANGED lock
    BY <1>3 DEF Call
  <2>. QED
    BY <2>1, <2>4, <2>5, <2>6, LockMoved DEF WaitingPcs
<1>4. ASSUME NEW c \in Caller, StopCall(c)
      PROVE  LockInv'
  <2>1. turn'.pc = turn.pc /\ UNCHANGED <<worker, exec, lock>>
    BY <1>4 DEF StopCall, Turns
  <2>2. caller[c].pc = "idle" /\ caller'[c].pc = "stop_snapshot"
    BY <1>4 DEF StopCall, Stops, Places, Becomes, NoCall
  <2>3. \A q \in Procs \ {Turn} : Wants(q)' <=> Wants(q)
    BY <1>4, <2>1, <2>2, CallerLetsKeep, WantsKept DEF WaitingPcs
  <2>. QED
    BY <2>1, <2>3, LockMoved
<1>5. ASSUME NEW c \in Caller, StopCutsSection(c)
      PROVE  LockInv'
  <2>1. turn'.pc = "mark_read" /\ UNCHANGED worker /\ Holds(Turn) /\ Release
    BY <1>5 DEF StopCutsSection, InTurnSection, Turns
  <2>2. exec'.pc = exec.pc
    BY <1>5 DEF StopCutsSection, CancelWrites, Tasks
  <2>3. caller[c].pc = "idle" /\ caller'[c].pc = "stop_snapshot"
    BY <1>5 DEF StopCutsSection, Stops, Places, Becomes, NoCall
  <2>4. Wants(Exec)' <=> Wants(Exec)
    BY <2>2
  <2>5. \A q \in Procs \ {Turn} : Wants(q)' <=> Wants(q)
    BY <1>5, <2>1, <2>3, <2>4, CallerLetsKeep, WantsKept DEF WaitingPcs
  <2>. QED
    BY <2>1, <2>5, LockMoved DEF InSubmit
<1>6. CASE Restart
  <2>1. /\ lock' = <<>> /\ turn'.pc = "idle" /\ worker'.pc = "get" /\ exec'.pc = "none"
        /\ \A c \in Caller : caller'[c].pc = "idle"
    BY <1>6 DEF Restart, NoTurn, IdleWorker, NoExec, NoCall
  <2>2. \A p \in Procs : ~Wants(p)'
    BY <2>1 DEF Wants, Procs, InSubmit, WaitingPcs
  <2>. QED
    BY <2>1, <2>2 DEF LockInv, Unique, Range
<1>. QED
  BY <1>1, <1>2, <1>3, <1>4, <1>5, <1>6

-----------------------------------------------------------------------------
(* Rules of the steps: who may bring a request in, set it running, or put it *)
(* among the pending.                                                        *)

(* The worker is about to claim r; d is about to confirm it; the turn goes on *)
(* submitting it.                                                            *)
Claims(r) == worker.pc = "claim" /\ worker.req = r
Confirms(d, r) == caller[d].pc = "confirm" /\ caller[d].req = r
MayEnter(r) == Submitting(r) /\ ~turn.cancelled

(* This step may bring r into the queue.                                     *)
Enters(r) ==
  MayEnter(r) \/ \E d \in Caller : Confirms(d, r) /\ Holds(d) /\ status[r] = "awaiting"

(* The row of r comes to await or to be queued only by those that may do so. *)
MayBecome(r, s) ==
  \/ s \notin {"absent", "awaiting", "queued"}
  \/ s # "absent" /\ MayEnter(r)
  \/ s = "queued" /\ Enters(r)
EntryRule == \A r \in Req : status'[r] # status[r] => MayBecome(r, status'[r])

(* A row written as the rule allows obeys it; so do rows nobody writes.      *)
LEMMA RowEntered ==
  ASSUME TypeOK, NEW r \in Req, NEW s, UpdateCommand(r, s), MayBecome(r, s)
  PROVE  EntryRule
<1>1. \A q \in Req : status'[q] = IF q = r THEN s ELSE status[q]
  BY DEF TypeOK, UpdateCommand
<1>. QED
  BY <1>1 DEF EntryRule

(* Results and cancels do not bring a request in.                            *)
LEMMA ResultEnters ==
  ASSUME TypeOK, NEW r \in Req, NEW s \in Terminal \cup {"executing", "planning"},
         UpdateCommand(r, s)
  PROVE  EntryRule
<1>1. s \notin {"absent", "awaiting", "queued"}
  BY DEF Terminal
<1>. QED
  BY <1>1, RowEntered DEF MayBecome

(* The turn obeys the rule.                                                  *)
LEMMA TurnKeepsEntry ==
  ASSUME TypeOK, TurnStep
  PROVE  EntryRule
<1>1. CASE UNCHANGED status
  BY <1>1 DEF EntryRule
<1>2. CASE SubmitClarification \/ SubmitEmpty \/ SubmitParks \/ SubmitEnqueues
  <2>1. PICK r \in Req : r = turn.req
    BY <1>2 DEF SubmitClarification, SubmitEmpty, SubmitParks, SubmitEnqueues, InTurnSection,
                TypeOK, Turns
  <2>2. MayEnter(r)
    BY <1>2, <2>1 DEF SubmitClarification, SubmitEmpty, SubmitParks, SubmitEnqueues,
                InTurnSection, Submitting, InSubmit, MayEnter
  <2>3. PICK s : UpdateCommand(r, s) /\ s # "absent"
    BY <1>2, <2>1 DEF SubmitClarification, SubmitEmpty, SubmitParks, SubmitEnqueues,
                      EnqueueLocked
  <2>. QED
    BY <2>1, <2>2, <2>3, RowEntered DEF MayBecome
<1>3. CASE SubmitCancelsStale
  <2>1. PICK r \in turn.todo : UpdateCommand(r, "cancelled")
    BY <1>3 DEF SubmitCancelsStale, CancelWrites
  <2>2. r \in Req
    BY <2>1 DEF TypeOK, Turns
  <2>. QED
    BY <2>1, <2>2, ResultEnters DEF Terminal
<1>4. CASE MarkWrites
  <2>1. turn.req \in Req
    BY <1>4 DEF MarkWrites, TypeOK, Turns
  <2>. QED
    BY <1>4, <2>1, ResultEnters DEF MarkWrites, Terminal
<1>. QED
  BY <1>1, <1>2, <1>3, <1>4 DEF TurnStep, SubmitRefused, Submit, TurnEnds, TurnAborted,
                                MarkReads, MarkAborted, row

(* Callers obey it.                                                          *)
LEMMA CallersKeepEntry ==
  ASSUME TypeOK, NEW c \in Caller, CallerStep(c) \/ StopCall(c) \/ StopCutsSection(c)
  PROVE  EntryRule
<1>1. CASE UNCHANGED status
  BY <1>1 DEF EntryRule
<1>2. ASSUME NEW r \in Req, UpdateCommand(r, "cancelled")
      PROVE  EntryRule
  BY <1>2, ResultEnters DEF Terminal
<1>3. CASE Confirm(c)
  <2>1. PICK r \in Req : r = caller[c].req
    BY <1>3 DEF Confirm, InSection, TypeOK, Calls, Requests
  <2>2. Enters(r)
    BY <1>3, <2>1 DEF Confirm, InSection, Enters, Confirms
  <2>3. PICK s : UpdateCommand(r, s) /\ s \in {"queued", "rejected"}
    BY <1>3, <2>1 DEF Confirm, EnqueueLocked
  <2>. QED
    BY <2>2, <2>3, RowEntered DEF MayBecome
<1>4. CASE ConfirmTooLate(c) \/ Cancel(c)
  <2>1. caller[c].req \in Req
    BY <1>4 DEF ConfirmTooLate, Cancel, InSection, TypeOK, Calls, Requests
  <2>. QED
    BY <1>1, <1>2, <1>4, <2>1 DEF ConfirmTooLate, Cancel, CancelWrites, row
<1>5. CASE StopCancelsPending(c)
  <2>1. caller[c].todo \subseteq Req
    BY DEF TypeOK, Calls
  <2>. QED
    BY <1>2, <1>5, <2>1 DEF StopCancelsPending, CancelWrites
<1>6. CASE StopDrainsOne(c)
  <2>1. Head(queue) \in Req
    BY <1>6 DEF StopDrainsOne, TypeOK
  <2>. QED
    BY <1>2, <1>6, <2>1 DEF StopDrainsOne
<1>7. CASE StopCancelsCurrent(c)
  BY <1>1, <1>2, <1>7 DEF StopCancelsCurrent, TypeOK, row
<1>8. CASE StopCutsSection(c)
  <2>1. turn.todo \subseteq Req
    BY DEF TypeOK, Turns
  <2>2. PICK r \in Req : r = turn.req
    BY <1>8 DEF StopCutsSection, TypeOK, Turns
  <2>3. turn.pc \in InSubmit => MayEnter(r)
    BY <1>8, <2>2 DEF StopCutsSection, InTurnSection, MayEnter, Submitting
  <2>4. ASSUME NEW s, UpdateCommand(r, s), s # "absent", turn.pc \in InSubmit
        PROVE  EntryRule
    BY <2>3, <2>4, RowEntered DEF MayBecome
  <2>. QED
    BY <1>2, <1>8, <2>1, <2>2, <2>4 DEF StopCutsSection, CancelWrites, InSubmit
<1>. QED
  BY <1>1, <1>3, <1>4, <1>5, <1>6, <1>7, <1>8
     DEF CallerStep, ConfirmNotRunnable, WaitReads, WaitRegisters, StopSnapshots, StopDrained,
         StopJoins, StopRaises, StopReturns, StopCall, row

(* Worker and task obey it.                                                  *)
LEMMA ExecutionKeepsEntry ==
  ASSUME TypeOK, WorkerStep \/ ExecStep
  PROVE  EntryRule
<1>1. CASE UNCHANGED status
  BY <1>1 DEF EntryRule
<1>2. ASSUME NEW r \in Req, NEW s \in Terminal, FinishExecution(r, s)
      PROVE  EntryRule
  BY <1>1, <1>2, ResultEnters DEF FinishExecution, row
<1>3. CASE WorkerFinishes
  <2>1. worker.req \in Req
    BY <1>3 DEF WorkerFinishes, TypeOK, Workers
  <2>2. (IF worker.pc = "finish_cancelled" THEN "cancelled" ELSE "failed") \in Terminal
    BY DEF Terminal
  <2>. QED
    BY <1>2, <1>3, <2>1, <2>2 DEF WorkerFinishes
<1>4. CASE ExecFinishes
  <2>1. exec.req \in Req
    BY <1>4 DEF ExecFinishes, TypeOK, Tasks
  <2>2. (IF exec.pc = "finish_ok" THEN "succeeded" ELSE "failed") \in Terminal
    BY DEF Terminal
  <2>. QED
    BY <1>2, <1>4, <2>1, <2>2 DEF ExecFinishes
<1>5. CASE WorkerClaims
  <2>1. worker.req \in Req
    BY <1>5 DEF WorkerClaims, TypeOK, Workers
  <2>. QED
    BY <1>1, <1>5, <2>1, ResultEnters DEF WorkerClaims, row
<1>. QED
  BY <1>1, <1>3, <1>4, <1>5
     DEF WorkerStep, WorkerGets, WorkerAwaits, WorkerCleansUp, ExecStep, ExecBeginsStep,
         ExecStepFails, ExecStepSucceeds, ExecStepsDone, ExecReports, ExecCancelled, row

(* Every step obeys it.                                                      *)
LEMMA StepKeepsEntryRule ==
  ASSUME TypeOK, Next
  PROVE  EntryRule
<1>1. CASE UNCHANGED status
  BY <1>1 DEF EntryRule
<1>2. ASSUME NEW r \in Req, TurnStarts(r)
      PROVE  EntryRule
  BY <1>2, ResultEnters DEF TurnStarts
<1>. QED
  BY <1>1, <1>2, TurnKeepsEntry, CallersKeepEntry, ExecutionKeepsEntry
     DEF Next, Expires, Call, Restart, row

(* What is pending and what is queued: who adds, and what leaves pending.    *)
PendingRule ==
  /\ \A r \in Req : r \in pending' => r \in pending \/ MayEnter(r)
  /\ ~Restart => \A r \in pending : r \in pending' \/ status'[r] # "awaiting"

QueueRule ==
  \A r \in Req : /\ r \in Range(queue') => r \in Range(queue) \/ Enters(r)
                 /\ Claims(r)' => Claims(r) \/ r \in Range(queue)

(* Only the turn adds to what is pending, and what leaves it awaits no more. *)
LEMMA StepKeepsPendingRule ==
  ASSUME TypeOK, Next
  PROVE  PendingRule
<1>1. CASE UNCHANGED pending
  BY <1>1 DEF PendingRule
<1>2. ASSUME NEW r \in Req, NEW s, s # "awaiting", pending' = pending \ {r}, UpdateCommand(r, s)
      PROVE  PendingRule
  <2>1. status'[r] = s
    BY <1>2 DEF UpdateCommand, TypeOK
  <2>. QED
    BY <1>2, <2>1 DEF PendingRule
<1>3. ASSUME NEW r \in Req, CancelWrites(r)
      PROVE  PendingRule
  BY <1>2, <1>3 DEF CancelWrites
<1>4. CASE TurnStep
  <2>1. CASE SubmitParks
    <3>1. PICK r \in Req : r = turn.req
      BY <2>1 DEF SubmitParks, InTurnSection, TypeOK, Turns
    <3>2. MayEnter(r) /\ pending' = pending \cup {r}
      BY <2>1, <3>1 DEF SubmitParks, InTurnSection, MayEnter, Submitting, InSubmit
    <3>. QED
      BY <3>2 DEF PendingRule
  <2>2. CASE SubmitCancelsStale
    <3>1. turn.todo \subseteq Req
      BY DEF TypeOK, Turns
    <3>. QED
      BY <1>3, <2>2, <3>1 DEF SubmitCancelsStale
  <2>. QED
    BY <1>1, <1>4, <2>1, <2>2 DEF TurnStep, SubmitRefused, Submit, SubmitClarification,
       SubmitEmpty, SubmitEnqueues, TurnEnds, TurnAborted, MarkReads, MarkWrites, MarkAborted
<1>5. ASSUME NEW c \in Caller, CallerStep(c)
      PROVE  PendingRule
  <2>1. CASE Confirm(c)
    <3>1. PICK r \in Req : r = caller[c].req
      BY <2>1 DEF Confirm, InSection, TypeOK, Calls, Requests
    <3>2. PICK s : UpdateCommand(r, s) /\ s # "awaiting"
      BY <2>1, <3>1 DEF Confirm, EnqueueLocked
    <3>. QED
      BY <1>2, <2>1, <3>1, <3>2 DEF Confirm
  <2>2. CASE ConfirmTooLate(c) \/ Cancel(c)
    <3>1. caller[c].req \in Req
      BY <2>2 DEF ConfirmTooLate, Cancel, InSection, TypeOK, Calls, Requests
    <3>. QED
      BY <1>1, <1>2, <1>3, <2>2, <3>1 DEF ConfirmTooLate, Cancel
  <2>3. CASE StopCancelsPending(c)
    <3>1. caller[c].todo \subseteq Req
      BY DEF TypeOK, Calls
    <3>. QED
      BY <1>3, <2>3, <3>1 DEF StopCancelsPending
  <2>. QED
    BY <1>1, <1>5, <2>1, <2>2, <2>3 DEF CallerStep, ConfirmNotRunnable, WaitReads,
       WaitRegisters, StopSnapshots, StopDrainsOne, StopDrained, StopCancelsCurrent,
       StopJoins, StopRaises, StopReturns
<1>6. ASSUME NEW c \in Caller, StopCutsSection(c)
      PROVE  PendingRule
  <2>1. CASE turn.pc = "park" /\ pending' = pending \cup {turn.req}
    <3>1. MayEnter(turn.req)
      BY <1>6, <2>1 DEF StopCutsSection, InTurnSection, MayEnter, Submitting, InSubmit
    <3>. QED
      BY <2>1, <3>1 DEF PendingRule
  <2>2. CASE \E r \in turn.todo : CancelWrites(r)
    <3>1. turn.todo \subseteq Req
      BY DEF TypeOK, Turns
    <3>. QED
      BY <1>3, <2>2, <3>1
  <2>. QED
    BY <1>1, <1>6, <2>1, <2>2 DEF StopCutsSection
<1>7. CASE WorkerStep \/ ExecStep
  BY <1>1, <1>7 DEF WorkerStep, WorkerGets, WorkerClaims, WorkerAwaits, WorkerFinishes,
     WorkerCleansUp, ExecStep, ExecBeginsStep, ExecStepFails, ExecStepSucceeds, ExecStepsDone,
     ExecFinishes, ExecReports, ExecCancelled
<1>8. CASE Restart
  BY <1>8 DEF Restart, PendingRule
<1>. QED
  BY <1>1, <1>4, <1>5, <1>6, <1>7, <1>8 DEF Next, TurnStarts, Expires, Call, StopCall

(* Only submit and confirm add to the queue, and the worker takes from it.   *)
LEMMA StepKeepsQueueRule ==
  ASSUME TypeOK, QueueInv, Next
  PROVE  QueueRule
<1>1. CASE UNCHANGED <<queue, worker>>
  BY <1>1 DEF QueueRule, Claims
<1>2. ASSUME NEW r \in Req, EnqueueLocked(r), Enters(r), UNCHANGED worker
      PROVE  QueueRule
  <2>1. CASE UNCHANGED queue
    BY <1>1, <1>2, <2>1
  <2>2. CASE queue' = Append(queue, r)
    <3>1. \A q : q \in Range(queue') => q \in Range(queue) \/ q = r
      <4>1. queue \in Seq(Req) /\ queue' = Append(queue, r)
        BY <2>2 DEF TypeOK
      <4>2. /\ Len(queue) \in Nat /\ DOMAIN queue' = 1..(Len(queue) + 1)
            /\ DOMAIN queue = 1..Len(queue) /\ queue'[Len(queue) + 1] = r
            /\ \A i \in DOMAIN queue : queue'[i] = queue[i]
        BY <4>1
      <4>3. \A i \in DOMAIN queue' : i = Len(queue) + 1 \/ i \in DOMAIN queue
        BY <4>2
      <4>. QED
        BY <4>2, <4>3 DEF Range
    <3>. QED
      BY <1>2, <3>1 DEF QueueRule, Claims
  <2>. QED
    BY <1>2, <2>1, <2>2 DEF EnqueueLocked
<1>3. ASSUME queue # <<>>, queue' = Tail(queue),
             UNCHANGED worker \/ worker'.req = Head(queue)
      PROVE  QueueRule
  <2>1. Head(queue) \in Range(queue) /\ Range(queue') \subseteq Range(queue)
    BY <1>3, TailOfUnique DEF TypeOK, QueueInv
  <2>. QED
    BY <1>3, <2>1 DEF QueueRule, Claims
<1>4. CASE TurnStep
  <2>1. CASE SubmitEnqueues
    <3>1. PICK r \in Req : r = turn.req
      BY <2>1 DEF SubmitEnqueues, InTurnSection, TypeOK, Turns
    <3>2. Enters(r)
      BY <2>1, <3>1 DEF SubmitEnqueues, InTurnSection, Enters, MayEnter, Submitting, InSubmit
    <3>. QED
      BY <1>2, <2>1, <3>1, <3>2 DEF SubmitEnqueues
  <2>. QED
    BY <1>1, <1>4, <2>1 DEF TurnStep, SubmitRefused, Submit, SubmitClarification,
       SubmitEmpty, SubmitCancelsStale, SubmitParks, TurnEnds, TurnAborted, MarkReads,
       MarkWrites, MarkAborted
<1>5. ASSUME NEW c \in Caller, CallerStep(c)
      PROVE  QueueRule
  <2>1. CASE Confirm(c)
    <3>1. PICK r \in Req : r = caller[c].req
      BY <2>1 DEF Confirm, InSection, TypeOK, Calls, Requests
    <3>2. Enters(r)
      BY <2>1, <3>1 DEF Confirm, InSection, Enters, Confirms
    <3>. QED
      BY <1>2, <2>1, <3>1, <3>2 DEF Confirm
  <2>2. CASE StopDrainsOne(c)
    BY <1>3, <2>2 DEF StopDrainsOne
  <2>. QED
    BY <1>1, <1>5, <2>1, <2>2 DEF CallerStep, ConfirmTooLate, ConfirmNotRunnable, Cancel,
       WaitReads, WaitRegisters, StopSnapshots, StopCancelsPending, StopDrained,
       StopCancelsCurrent, StopJoins, StopRaises, StopReturns
<1>6. CASE WorkerGets
  BY <1>3, <1>6 DEF WorkerGets
<1>7. CASE WorkerStep /\ ~WorkerGets
  <2>1. UNCHANGED queue /\ worker'.pc # "claim"
    BY <1>7 DEF WorkerStep, WorkerClaims, WorkerAwaits, WorkerFinishes, WorkerCleansUp,
       IdleWorker, TypeOK, Workers
  <2>. QED
    BY <2>1 DEF QueueRule, Claims
<1>8. CASE ExecStep
  BY <1>1, <1>8 DEF ExecStep, ExecBeginsStep, ExecStepFails, ExecStepSucceeds, ExecStepsDone,
     ExecFinishes, ExecReports, ExecCancelled
<1>9. CASE Restart
  BY <1>9 DEF Restart, QueueRule, Claims, IdleWorker, Range
<1>. QED
  BY <1>1, <1>4, <1>5, <1>6, <1>7, <1>8, <1>9 DEF Next, TurnStarts, Expires, Call, StopCall,
     StopCutsSection

(* Only the claim of a queued request sets a task to work.                   *)
RunRule == \A r \in Req : Running(r)' => Running(r) \/ (Claims(r) /\ status[r] = "queued")

(* Every step obeys it.                                                      *)
LEMMA StepKeepsRunRule ==
  ASSUME TypeOK, Next
  PROVE  RunRule
<1>. exec \in Tasks
  BY DEF TypeOK
<1>1. CASE /\ exec'.req = exec.req /\ (exec.cancelled => exec'.cancelled)
           /\ exec.pc \in {"none", "ended"} => exec'.pc \in {"none", "ended"}
  BY <1>1 DEF RunRule, Running
<1>2. ASSUME NEW r \in Req, CancelWrites(r)
      PROVE  RunRule
  <2>1. /\ exec'.req = exec.req /\ exec'.pc = exec.pc /\ (exec.cancelled => exec'.cancelled)
    BY <1>2 DEF CancelWrites, Tasks
  <2>. QED
    BY <1>1, <2>1
<1>3. CASE TurnStep
  <2>1. CASE SubmitCancelsStale
    <3>1. turn.todo \subseteq Req
      BY DEF TypeOK, Turns
    <3>. QED
      BY <1>2, <2>1, <3>1 DEF SubmitCancelsStale
  <2>. QED
    BY <1>1, <1>3, <2>1 DEF TurnStep, SubmitRefused, Submit, SubmitClarification, SubmitEmpty,
       SubmitParks, SubmitEnqueues, TurnEnds, TurnAborted, MarkReads, MarkWrites, MarkAborted
<1>4. ASSUME NEW c \in Caller, CallerStep(c)
      PROVE  RunRule
  <2>1. CASE Cancel(c)
    <3>1. caller[c].req \in Req
      BY <2>1 DEF Cancel, InSection, TypeOK, Calls, Requests
    <3>. QED
      BY <1>2, <2>1, <3>1 DEF Cancel
  <2>2. CASE StopCancelsPending(c)
    <3>1. caller[c].todo \subseteq Req
      BY DEF TypeOK, Calls
    <3>. QED
      BY <1>2, <2>2, <3>1 DEF StopCancelsPending
  <2>3. CASE StopCancelsCurrent(c)
    <3>1. exec'.req = exec.req /\ exec'.pc = exec.pc /\ (exec.cancelled => exec'.cancelled)
      BY <2>3 DEF StopCancelsCurrent, Tasks
    <3>. QED
      BY <1>1, <3>1
  <2>. QED
    BY <1>1, <1>4, <2>1, <2>2, <2>3 DEF CallerStep, ConfirmTooLate, ConfirmNotRunnable,
       Confirm, WaitReads, WaitRegisters, StopSnapshots, StopDrainsOne, StopDrained,
       StopJoins, StopRaises, StopReturns
<1>5. CASE WorkerStep
  <2>1. CASE WorkerClaims
    <3>1. CASE UNCHANGED exec
      BY <1>1, <3>1
    <3>2. CASE status[worker.req] = "queued" /\ exec' = [NoExec EXCEPT !.pc = "step", !.req = worker.req]
      <4>1. exec'.req = worker.req /\ worker.pc = "claim"
        BY <2>1, <3>2 DEF NoExec, WorkerClaims
      <4>. QED
        BY <3>2, <4>1 DEF RunRule, Running, Claims
    <3>. QED
      BY <2>1, <3>1, <3>2 DEF WorkerClaims
  <2>. QED
    BY <1>1, <1>5, <2>1 DEF WorkerStep, WorkerGets, WorkerAwaits, WorkerFinishes,
       WorkerCleansUp
<1>6. CASE ExecStep
  <2>1. exec'.req = exec.req /\ exec.pc \notin {"none", "ended"}
    BY <1>6 DEF ExecStep, ExecBeginsStep, ExecStepFails, ExecStepSucceeds, ExecStepsDone,
       ExecFinishes, ExecReports, ExecCancelled, Tasks
  <2>2. exec.cancelled => exec'.pc = "ended"
    BY <1>6 DEF ExecStep, ExecBeginsStep, ExecStepFails, ExecStepSucceeds, ExecStepsDone,
       ExecFinishes, ExecReports, ExecCancelled, Tasks
  <2>. QED
    BY <2>1, <2>2 DEF RunRule, Running
<1>7. ASSUME NEW c \in Caller, StopCutsSection(c)
      PROVE  RunRule
  <2>1. turn.todo \subseteq Req
    BY DEF TypeOK, Turns
  <2>. QED
    BY <1>1, <1>2, <1>7, <2>1 DEF StopCutsSection
<1>8. CASE Restart
  BY <1>8 DEF Restart, RunRule, Running, NoExec
<1>. QED
  BY <1>1, <1>3, <1>4, <1>5, <1>6, <1>7, <1>8 DEF Next, TurnStarts, Expires, Call, StopCall

(* The turn has been cut off by a STOP.                                      *)
Struck == turn.cancelled \/ turn.pc \in {"mark_read", "mark_write"}

(* A turn ends, goes on, or begins with a new request; one that a STOP has cut *)
(* off stays cut off, and leaves nothing awaiting that it promised to end,   *)
(* unless that is pending.                                                   *)
TurnRule ==
  /\ \/ turn' = NoTurn
     \/ /\ turn'.req = turn.req /\ (turn'.pc = "idle" <=> turn.pc = "idle")
        /\ Struck /\ turn.pc # "idle" => Struck'
     \/ /\ turn.pc = "idle" /\ turn'.pc # "idle" /\ turn'.req \in Req
        /\ status[turn'.req] = "absent" /\ status'[turn'.req] # "absent"
  /\ Struck /\ turn.pc # "idle" /\ turn' = NoTurn
       => \/ status'[turn.req] # "awaiting" \/ turn.req \in pending'
          \/ \A c \in Caller : turn.req \notin caller'[c].doomed

(* Every step obeys it.                                                      *)
LEMMA StepKeepsTurnRule ==
  ASSUME TypeOK, Next
  PROVE  TurnRule
<1>. turn \in Turns /\ NoTurn.pc = "idle"
  BY DEF TypeOK, NoTurn
<1>1. CASE UNCHANGED turn
  BY <1>1 DEF TurnRule, Struck, NoTurn
<1>2. ASSUME turn'.req = turn.req, turn.pc # "idle", turn'.pc # "idle", Struck => Struck'
      PROVE  TurnRule
  BY <1>2 DEF TurnRule
<1>3. ASSUME turn' = NoTurn, ~Struck \/ status'[turn.req] # "awaiting"
      PROVE  TurnRule
  BY <1>3 DEF TurnRule
<1>4. CASE SubmitRefused \/ TurnEnds
  BY <1>3, <1>4 DEF SubmitRefused, TurnEnds, Struck
<1>5. CASE Submit
  <2>1. turn'.req = turn.req /\ turn'.pc # "idle" /\ turn.pc = "planning" /\ ~Struck
    BY <1>5 DEF Submit, TurnMoves, Turns, Struck
  <2>. QED
    BY <1>2, <2>1
<1>6. CASE \/ SubmitClarification \/ SubmitEmpty \/ SubmitParks \/ SubmitEnqueues
           \/ SubmitCancelsStale
  <2>1. ~Struck /\ turn.pc # "idle"
    BY <1>6 DEF SubmitClarification, SubmitEmpty, SubmitParks, SubmitEnqueues,
       SubmitCancelsStale, InTurnSection, Struck
  <2>2. turn'.req = turn.req /\ turn'.pc # "idle"
    BY <1>6 DEF SubmitClarification, SubmitEmpty, SubmitParks, SubmitEnqueues,
       SubmitCancelsStale, TurnMoves, Turns
  <2>. QED
    BY <1>2, <2>1, <2>2
<1>7. CASE TurnAborted
  <2>1. turn'.req = turn.req /\ turn'.pc = "mark_read" /\ turn.pc # "idle"
    BY <1>7 DEF TurnAborted, Turns
  <2>. QED
    BY <1>2, <2>1 DEF Struck
<1>8. CASE MarkReads
  <2>1. CASE turn' = NoTurn /\ status[turn.req] \in Terminal
    <3>1. status'[turn.req] # "awaiting"
      BY <1>8, <2>1 DEF MarkReads, row, Terminal
    <3>. QED
      BY <1>3, <2>1, <3>1
  <2>2. CASE TurnMoves("mark_write")
    <3>1. turn'.req = turn.req /\ turn'.pc = "mark_write" /\ turn.pc = "mark_read"
      BY <1>8, <2>2 DEF MarkReads, TurnMoves, Turns
    <3>. QED
      BY <1>2, <3>1 DEF Struck
  <2>. QED
    BY <1>8, <2>1, <2>2 DEF MarkReads
<1>9. CASE MarkWrites
  <2>1. turn' = NoTurn /\ turn.req \in Req /\ UpdateCommand(turn.req, "cancelled")
    BY <1>9 DEF MarkWrites, Turns
  <2>2. status'[turn.req] = "cancelled"
    BY <2>1 DEF UpdateCommand, TypeOK
  <2>. QED
    BY <1>3, <2>1, <2>2
<1>10. CASE MarkAborted
  <2>1. turn' = NoTurn /\ UNCHANGED <<status, pending>>
    BY <1>10 DEF MarkAborted, row
  <2>2. CASE status[turn.req] # "awaiting" \/ turn.req \in pending
    BY <2>1, <2>2 DEF TurnRule
  <2>3. CASE caller' = [c \in Caller |-> [caller[c] EXCEPT !.doomed = @ \ {turn.req}]]
    <3>1. \A c \in Caller : turn.req \notin caller'[c].doomed
      BY <2>3 DEF TypeOK, Calls
    <3>. QED
      BY <2>1, <3>1 DEF TurnRule
  <2>. QED
    BY <1>10, <2>2, <2>3 DEF MarkAborted
<1>11. ASSUME NEW c \in Caller, StopCall(c)
       PROVE  TurnRule
  <2>1. turn'.req = turn.req /\ turn'.pc = turn.pc /\ turn'.cancelled = (turn.pc # "idle")
    BY <1>11 DEF StopCall, Turns
  <2>2. CASE turn.pc = "idle"
    BY <2>1, <2>2 DEF TurnRule
  <2>3. CASE turn.pc # "idle"
    BY <1>2, <2>1, <2>3 DEF Struck
  <2>. QED
    BY <2>2, <2>3
<1>12. ASSUME NEW c \in Caller, StopCutsSection(c)
       PROVE  TurnRule
  <2>1. turn'.req = turn.req /\ turn'.pc = "mark_read" /\ turn.pc # "idle"
    BY <1>12 DEF StopCutsSection, Turns
  <2>. QED
    BY <1>2, <2>1 DEF Struck
<1>13. ASSUME NEW r \in Req, TurnStarts(r)
       PROVE  TurnRule
  <2>1. /\ turn'.pc = "planning" /\ turn'.req = r /\ turn.pc = "idle"
        /\ status[r] = "absent" /\ UpdateCommand(r, "planning")
    BY <1>13 DEF TurnStarts, NoTurn
  <2>2. status'[r] = "planning"
    BY <2>1 DEF UpdateCommand, TypeOK
  <2>. QED
    BY <2>1, <2>2 DEF TurnRule, NoTurn
<1>14. CASE Restart
  <2>1. turn' = NoTurn /\ \A c \in Caller : caller'[c].doomed = {}
    BY <1>14 DEF Restart, NoCall
  <2>. QED
    BY <2>1 DEF TurnRule
<1>15. ASSUME NEW c \in Caller, CallerStep(c)
       PROVE  UNCHANGED turn
  BY <1>15 DEF CallerStep, ConfirmTooLate, ConfirmNotRunnable, Confirm, Cancel, WaitReads,
     WaitRegisters, StopSnapshots, StopCancelsPending, StopDrainsOne, StopDrained,
     StopCancelsCurrent, StopJoins, StopRaises, StopReturns
<1>16. WorkerStep \/ ExecStep => UNCHANGED turn
  BY DEF WorkerStep, WorkerGets, WorkerClaims, WorkerAwaits, WorkerFinishes,
     WorkerCleansUp, ExecStep, ExecBeginsStep, ExecStepFails, ExecStepSucceeds, ExecStepsDone,
     ExecFinishes, ExecReports, ExecCancelled
<1>17. ASSUME NEW r \in Req, Expires(r)
       PROVE  UNCHANGED turn
  BY <1>17 DEF Expires
<1>18. ASSUME NEW c \in Caller, NEW k \in AllCalls, NEW r \in Req, Call(c, k, r)
       PROVE  UNCHANGED turn
  BY <1>18 DEF Call
<1>19. TurnStep => TurnRule
  BY <1>4, <1>5, <1>6, <1>7, <1>8, <1>9, <1>10 DEF TurnStep
<1>. QED
  BY <1>1, <1>11, <1>12, <1>13, <1>14, <1>15, <1>16, <1>17, <1>18, <1>19 DEF Next

-----------------------------------------------------------------------------
(* What a STOP promises, and the invariant that says how far it has got.     *)

(* What is pending, and what the turn is about, has a row.                   *)
RowsInv ==
  /\ turn.pc = "idle" => turn.req = NoReq
  /\ turn.pc # "idle" => status[turn.req] # "absent"
  /\ \A r \in pending : status[r] # "absent"

(* What a finished cancel or STOP was about has a row that has ended, or that *)
(* nobody will claim: nothing brings it to execution any more.               *)
IsDown(r) ==
  /\ status[r] \notin {"absent", "awaiting"} /\ ~MayEnter(r) /\ ~Running(r)
  /\ status[r] = "queued" => r \notin Range(queue) /\ ~Claims(r)

(* How far the STOP of c has come with r, which it has promised to end: r is  *)
(* pending only until it has cancelled what was pending, and whoever is about *)
(* to confirm it is before it in the lock's queue; after the drain r is queued *)
(* nowhere, and whoever is about to claim it is before it too.               *)
Early == {"stop_snapshot", "stop_pending", "stop_drain"}
IsAhead(p, q) == Ordered(lock, p, q)
Covered(c, r) ==
  /\ status[r] # "absent"
  /\ turn.req = r => caller[c].req = r /\ Struck
  /\ r \in pending => \/ caller[c].pc = "stop_snapshot"
                      \/ caller[c].pc = "stop_pending" /\ r \in caller[c].todo
  /\ status[r] = "awaiting" => r \in pending \/ turn.req = r
  /\ \A d \in Caller : Confirms(d, r) =>
        \/ caller[c].pc = "stop_snapshot"
        \/ caller[c].pc \in {"stop_pending", "stop_drain"} /\ IsAhead(d, c)
  /\ caller[c].pc \notin Early /\ status[r] = "queued" =>
        /\ r \notin Range(queue)
        /\ Claims(r) => caller[c].pc = "stop_current" /\ IsAhead(Worker, c)
  /\ caller[c].pc \notin Early /\ Running(r) => caller[c].pc = "stop_current"

PromiseStands(c) ==
  /\ caller[c].pc \notin StopPcs => caller[c].doomed = {}
  /\ \A r \in caller[c].doomed : Covered(c, r)

HaltInv ==
  /\ RowsInv
  /\ \A r \in halted : IsDown(r)
  /\ \A c \in Caller : PromiseStands(c)

(* Rows, once there, stay.                                                   *)
LEMMA RowsStay ==
  ASSUME TypeOK, RowsInv, Next
  PROVE  RowsInv'
<1>1. EntryRule /\ PendingRule /\ TurnRule
  BY StepKeepsEntryRule, StepKeepsPendingRule, StepKeepsTurnRule
<1>2. \A r \in Req : status[r] # "absent" => status'[r] # "absent"
  BY <1>1 DEF EntryRule, MayBecome
<1>3. turn \in Turns /\ pending \subseteq Req
  BY DEF TypeOK
<1>4. turn'.pc = "idle" => turn'.req = NoReq
  BY <1>1 DEF TurnRule, NoTurn, RowsInv
<1>5. turn'.pc # "idle" => status'[turn'.req] # "absent"
  <2>1. turn.pc # "idle" => turn.req \in Req
    BY <1>3 DEF Turns
  <2>. QED
    BY <1>1, <1>2, <2>1 DEF TurnRule, NoTurn, RowsInv
<1>6. ASSUME NEW r \in pending'
      PROVE  status'[r] # "absent"
  <2>1. r \in Req
    BY <1>6, StepKeepsTypes DEF TypeOK
  <2>2. MayEnter(r) => turn.req = r /\ turn.pc # "idle"
    BY DEF MayEnter, Submitting, InSubmit
  <2>. QED
    BY <1>1, <1>2, <2>1, <2>2 DEF PendingRule, RowsInv
<1>. QED
  BY <1>4, <1>5, <1>6 DEF RowsInv

(* The turn does not begin again to submit what it has been stopped from.    *)
LEMMA StaysOut ==
  ASSUME TypeOK, RowsInv, Next, NEW r \in Req, status[r] # "absent", ~MayEnter(r)
  PROVE  ~MayEnter(r)'
<1>. SUFFICES ASSUME MayEnter(r)'
              PROVE  FALSE
  OBVIOUS
<1>1. Submitting(r)' /\ ~turn'.cancelled
  BY DEF MayEnter
<1>2. Submitting(r)
  BY <1>1, StepKeepsSubmitting
<1>3. turn.cancelled
  BY <1>2 DEF MayEnter
<1>4. turn'.req = r /\ turn'.pc \in {"planning"} \cup InSubmit
  BY <1>1 DEF Submitting
<1>5. turn.pc # "idle" /\ turn'.pc \notin {"idle", "mark_read", "mark_write"}
  BY <1>2, <1>4 DEF Submitting, InSubmit
<1>6. TurnRule
  BY StepKeepsTurnRule
<1>7. Struck'
  BY <1>3, <1>4, <1>5, <1>6 DEF TurnRule, Struck, NoTurn
<1>. QED
  BY <1>1, <1>5, <1>7 DEF Struck

(* What is down stays down.                                                  *)
LEMMA DownStays ==
  ASSUME TypeOK, RowsInv, QueueInv, Next, NEW r \in Req, IsDown(r)
  PROVE  IsDown(r)'
<1>1. EntryRule /\ QueueRule /\ RunRule
  BY StepKeepsEntryRule, StepKeepsQueueRule, StepKeepsRunRule
<1>2. ~Enters(r)
  BY DEF IsDown, Enters
<1>3. status'[r] \notin {"absent", "awaiting"} /\ (status'[r] = "queued" => status[r] = "queued")
  BY <1>1, <1>2 DEF EntryRule, MayBecome, IsDown
<1>4. ~MayEnter(r)'
  BY StaysOut DEF IsDown
<1>5. ~Running(r)'
  BY <1>1 DEF RunRule, IsDown
<1>6. status'[r] = "queued" => r \notin Range(queue') /\ ~Claims(r)'
  BY <1>1, <1>2, <1>3 DEF QueueRule, IsDown
<1>. QED
  BY <1>3, <1>4, <1>5, <1>6 DEF IsDown

(* p moves in the lock's queue.                                              *)
LockBy(p) ==
  \/ UNCHANGED lock \/ Acquire(p) \/ (Holds(p) /\ (Release \/ Reacquire(p))) \/ Leave(p)

(* Who is ahead of somebody stays ahead of them until one of them moves.     *)
LEMMA AheadKept ==
  ASSUME TypeOK, LockInv, NEW p \in Procs, LockBy(p), NEW a, NEW b, a # p, b # p, IsAhead(a, b)
  PROVE  IsAhead(a, b)'
<1>. lock \in Seq(Procs) /\ Unique(lock) /\ Ordered(lock, a, b)
  BY DEF TypeOK, LockInv, IsAhead
<1>1. CASE UNCHANGED lock
  BY <1>1 DEF IsAhead
<1>2. CASE Acquire(p)
  BY <1>2, TailGrows DEF Acquire, IsAhead
<1>3. CASE Holds(p) /\ Release
  BY <1>3, HeadLeaves DEF Holds, Release, IsAhead
<1>4. CASE Holds(p) /\ Reacquire(p)
  <2>. DEFINE t == Tail(lock)
  <2>1. t \in Seq(Procs) /\ Ordered(t, a, b)
    BY <1>4, HeadLeaves DEF Holds
  <2>2. lock' = Append(t, p)
    BY <1>4 DEF Reacquire
  <2>. HIDE DEF t
  <2>3. Ordered(lock', a, b)
    BY <2>1, <2>2, TailGrows
  <2>. QED
    BY <2>3 DEF IsAhead
<1>5. CASE Leave(p)
  <2>1. CASE \E i \in DOMAIN lock : lock[i] = p /\ lock' = RemoveAt(lock, i)
    <3>1. PICK i \in DOMAIN lock : lock[i] = p /\ lock' = RemoveAt(lock, i)
      BY <2>1
    <3>2. Ordered(RemoveAt(lock, i), a, b)
      BY <3>1, OneLeaves
    <3>. QED
      BY <3>1, <3>2 DEF IsAhead
  <2>. QED
    BY <1>1, <1>5, <2>1 DEF Leave
<1>. QED
  BY <1>1, <1>2, <1>3, <1>4, <1>5 DEF LockBy

(* Whoever comes to wait is behind those who wait already.                   *)
LEMMA LastIsBehind ==
  ASSUME TypeOK, LockInv, NEW p \in Procs, Acquire(p) \/ (Holds(p) /\ Reacquire(p)),
         NEW a \in Range(lock), a # p
  PROVE  IsAhead(a, p)'
<1>. lock \in Seq(Procs) /\ Unique(lock)
  BY DEF TypeOK, LockInv
<1>1. CASE Acquire(p)
  BY <1>1, TailGrows DEF Acquire, IsAhead
<1>2. CASE Holds(p) /\ Reacquire(p)
  <2>. DEFINE t == Tail(lock)
  <2>1. t \in Seq(Procs) /\ a \in Range(t)
    BY <1>2, HeadLeaves DEF Holds
  <2>2. lock' = Append(t, p)
    BY <1>2 DEF Reacquire
  <2>. HIDE DEF t
  <2>3. Ordered(lock', a, p)
    BY <2>1, <2>2, TailGrows
  <2>. QED
    BY <2>3 DEF IsAhead
<1>. QED
  BY <1>1, <1>2

(* Nobody is ahead of the holder.                                            *)
LEMMA HolderIsFirst ==
  ASSUME TypeOK, LockInv, NEW p, Holds(p), NEW a
  PROVE  ~IsAhead(a, p)
  BY HeadLeaves DEF TypeOK, LockInv, Holds, IsAhead

(* What a STOP has come to with r, somebody else's step leaves it at.        *)
LEMMA CoveredStays ==
  ASSUME TypeOK, RowsInv, QueueInv, LockInv, Next, ~Restart,
         NEW c \in Caller, NEW r \in caller'[c].doomed, Covered(c, r),
         caller'[c].pc = caller[c].pc, caller'[c].req = caller[c].req,
         caller'[c].todo = caller[c].todo,
         \A d \in Caller : Confirms(d, r)' => Confirms(d, r),
         \A d \in Caller : Confirms(d, r)' /\ IsAhead(d, c) => IsAhead(d, c)',
         Claims(r) /\ Claims(r)' /\ IsAhead(Worker, c) => IsAhead(Worker, c)',
         r \in Req
  PROVE  Covered(c, r)'
<1>1. EntryRule /\ PendingRule /\ QueueRule /\ RunRule /\ TurnRule
  BY StepKeepsEntryRule, StepKeepsPendingRule, StepKeepsQueueRule, StepKeepsRunRule,
     StepKeepsTurnRule
<1>2. ~MayEnter(r)
  BY DEF MayEnter, Submitting, Covered, Struck, InSubmit
<1>3. caller[c].pc \notin Early => ~Enters(r)
  BY <1>2 DEF Enters, Covered, Early
<1>4. status[r] # "absent" /\ status'[r] # "absent"
  BY <1>1 DEF Covered, EntryRule, MayBecome
<1>5. r # NoReq /\ (turn.req = r => turn.pc # "idle")
  BY ExecutorAssumption DEF RowsInv
<1>6. turn'.req = r => turn.req = r /\ Struck'
  BY <1>1, <1>4, <1>5 DEF TurnRule, Covered, NoTurn
<1>7. r \in pending' => r \in pending
  BY <1>1, <1>2 DEF PendingRule
<1>8. status'[r] = "awaiting" => status[r] = "awaiting"
  BY <1>1, <1>2 DEF EntryRule, MayBecome
<1>9. status'[r] = "awaiting" => r \in pending' \/ turn'.req = r
  <2>. SUFFICES ASSUME status'[r] = "awaiting", r \notin pending', turn'.req # r
                PROVE  FALSE
    OBVIOUS
  <2>1. r \notin pending
    BY <1>1 DEF PendingRule
  <2>2. turn.req = r /\ Struck /\ turn.pc # "idle"
    BY <1>5, <1>8, <2>1 DEF Covered
  <2>3. turn' = NoTurn
    BY <1>1, <2>2 DEF TurnRule
  <2>. QED
    BY <1>1, <2>2, <2>3 DEF TurnRule
<1>10. caller[c].pc \notin Early /\ status'[r] = "queued"
         => /\ status[r] = "queued" /\ r \notin Range(queue')
            /\ Claims(r)' => Claims(r)
  BY <1>1, <1>2, <1>3 DEF EntryRule, MayBecome, QueueRule, Covered
<1>11. caller[c].pc \notin Early /\ Running(r)' => caller[c].pc = "stop_current"
  BY <1>1 DEF RunRule, Covered
<1>12. turn'.req = r => caller'[c].req = r /\ Struck'
  BY <1>6 DEF Covered
<1>13. r \in pending' => \/ caller'[c].pc = "stop_snapshot"
                         \/ caller'[c].pc = "stop_pending" /\ r \in caller'[c].todo
  BY <1>7 DEF Covered
<1>14. \A d \in Caller : Confirms(d, r)' =>
         \/ caller'[c].pc = "stop_snapshot"
         \/ caller'[c].pc \in {"stop_pending", "stop_drain"} /\ IsAhead(d, c)'
  BY DEF Covered
<1>15. caller'[c].pc \notin Early /\ status'[r] = "queued" =>
         /\ r \notin Range(queue')
         /\ Claims(r)' => caller'[c].pc = "stop_current" /\ IsAhead(Worker, c)'
  BY <1>10 DEF Covered
<1>. QED
  BY <1>4, <1>9, <1>11, <1>12, <1>13, <1>14, <1>15 DEF Covered

(* Each actor moves only itself in the lock's queue.                         *)
LEMMA LockMovers ==
  ASSUME TypeOK
  PROVE  /\ TurnStep => LockBy(Turn)
         /\ WorkerStep => LockBy(Worker)
         /\ ExecStep => LockBy(Exec)
         /\ \A c \in Caller : CallerStep(c) => LockBy(c)
<1>1. TurnStep => LockBy(Turn)
  BY DEF TurnStep, SubmitRefused, Submit, SubmitClarification, SubmitEmpty,
     SubmitCancelsStale, SubmitParks, SubmitEnqueues, TurnEnds, TurnAborted, MarkReads,
     MarkWrites, MarkAborted, InTurnSection, LockBy
<1>2. WorkerStep => LockBy(Worker)
  BY DEF WorkerStep, WorkerGets, WorkerClaims, WorkerAwaits, WorkerFinishes, WorkerCleansUp,
     LockBy
<1>3. ExecStep => LockBy(Exec)
  BY DEF ExecStep, ExecBeginsStep, ExecStepFails, ExecStepSucceeds, ExecStepsDone,
     ExecFinishes, ExecReports, ExecCancelled, LockBy
<1>4. ASSUME NEW c \in Caller, CallerStep(c)
      PROVE  LockBy(c)
  BY <1>4 DEF CallerStep, ConfirmTooLate, ConfirmNotRunnable, Confirm, Cancel, WaitReads,
     WaitRegisters, StopSnapshots, StopCancelsPending, StopDrainsOne, StopDrained,
     StopCancelsCurrent, StopJoins, StopRaises, StopReturns, InSection, LockBy
<1>. QED
  BY <1>1, <1>2, <1>3, <1>4

(* The promises of a STOP stand while somebody else moves.                   *)
LEMMA PromiseKept ==
  ASSUME TypeOK, QueueInv, LockInv, HaltInv, Next, ~Restart, NEW c \in Caller, Keeps(c),
         NEW p \in Procs \ {c}, LockBy(p),
         p = Worker => ~(worker.pc = "claim" /\ worker'.pc = "claim"),
         \A r \in caller'[c].doomed, d \in Caller :
            Confirms(d, r)' => Confirms(d, r) /\ d # p
  PROVE  PromiseStands(c)'
<1>. caller \in [Caller -> Calls] /\ PromiseStands(c) /\ RowsInv
  BY DEF TypeOK, HaltInv
<1>1. CASE caller'[c] = NoCall
  BY <1>1 DEF PromiseStands, NoCall
<1>2. CASE /\ caller'[c].pc = caller[c].pc /\ caller'[c].req = caller[c].req
           /\ caller'[c].todo = caller[c].todo /\ caller'[c].doomed \subseteq caller[c].doomed
  <2>1. caller'[c].pc \notin StopPcs => caller'[c].doomed = {}
    BY <1>2 DEF PromiseStands
  <2>2. ASSUME NEW r \in caller'[c].doomed
        PROVE  Covered(c, r)'
    <3>1. r \in Req /\ r \in caller[c].doomed
      BY <1>2, <2>2 DEF Calls
    <3>2. Covered(c, r)
      BY <3>1 DEF PromiseStands
    <3>3. \A d \in Caller : Confirms(d, r)' => Confirms(d, r) /\ d # p
      BY <2>2
    <3>4. \A d \in Caller : Confirms(d, r)' /\ IsAhead(d, c) => IsAhead(d, c)'
      BY <3>3, AheadKept
    <3>5. Claims(r) /\ Claims(r)' /\ IsAhead(Worker, c) => IsAhead(Worker, c)'
      BY AheadKept DEF Claims
    <3>. QED
      BY <1>2, <3>1, <3>2, <3>3, <3>4, <3>5, CoveredStays
  <2>. QED
    BY <2>1, <2>2 DEF PromiseStands
<1>. QED
  BY <1>1, <1>2 DEF Keeps

(* Who goes on with a confirm was at it before.                              *)
LEMMA ConfirmsKept ==
  ASSUME NEW d, Keeps(d), NEW r, Confirms(d, r)'
  PROVE  Confirms(d, r)
  BY DEF Keeps, Confirms, NoCall

(* The invariant of the STOPs from its parts.                                *)
LEMMA HaltInvKept ==
  ASSUME TypeOK, QueueInv, HaltInv, Next,
         \A r \in halted' \ halted : IsDown(r)',
         \A c \in Caller : PromiseStands(c)'
  PROVE  HaltInv'
<1>1. RowsInv'
  BY RowsStay DEF HaltInv
<1>2. \A r \in halted : IsDown(r)'
  <2>. SUFFICES ASSUME NEW r \in halted
                PROVE  IsDown(r)'
    OBVIOUS
  <2>1. r \in Req /\ IsDown(r) /\ RowsInv
    BY DEF TypeOK, HaltInv
  <2>. QED
    BY <2>1, DownStays
<1>. QED
  BY <1>1, <1>2 DEF HaltInv

(* Turn, worker and task keep it.                                            *)
LEMMA LoopKeepsHaltInv ==
  ASSUME TypeOK, QueueInv, LockInv, HaltInv, Next, ~Restart, TurnStep \/ WorkerStep \/ ExecStep
  PROVE  HaltInv'
<1>1. UNCHANGED halted
  BY DEF TurnStep, SubmitRefused, Submit, SubmitClarification, SubmitEmpty,
     SubmitCancelsStale, SubmitParks, SubmitEnqueues, TurnEnds, TurnAborted, MarkReads,
     MarkWrites, MarkAborted, WorkerStep, WorkerGets, WorkerClaims, WorkerAwaits,
     WorkerFinishes, WorkerCleansUp, ExecStep, ExecBeginsStep, ExecStepFails,
     ExecStepSucceeds, ExecStepsDone, ExecFinishes, ExecReports, ExecCancelled, ghosts
<1>2. \A c \in Caller : Keeps(c)
  BY TurnLetsKeep, ExecutionLetsKeep
<1>3. \A c \in Caller : c \in Procs /\ c \notin {Turn, Worker, Exec}
  BY ExecutorAssumption DEF Procs
<1>4. PICK p \in {Turn, Worker, Exec} :
        LockBy(p) /\ (p = Worker => ~(worker.pc = "claim" /\ worker'.pc = "claim"))
  <2>1. WorkerStep => ~(worker.pc = "claim" /\ worker'.pc = "claim")
    BY DEF WorkerStep, WorkerGets, WorkerClaims, WorkerAwaits, WorkerFinishes, WorkerCleansUp,
       IdleWorker, TypeOK, Workers
  <2>2. Turn # Worker /\ Exec # Worker
    BY ExecutorAssumption
  <2>3. CASE TurnStep
    BY <2>2, <2>3, LockMovers
  <2>4. CASE WorkerStep
    BY <2>1, <2>4, LockMovers
  <2>5. CASE ExecStep
    BY <2>2, <2>5, LockMovers
  <2>. QED
    BY <2>3, <2>4, <2>5
<1>5. ASSUME NEW c \in Caller
      PROVE  PromiseStands(c)'
  <2>1. p \in Procs \ {c} /\ Keeps(c)
    BY <1>2, <1>3 DEF Procs
  <2>2. \A r \in caller'[c].doomed, d \in Caller :
          Confirms(d, r)' => Confirms(d, r) /\ d # p
    BY <1>2, <1>3, ConfirmsKept
  <2>. QED
    BY <1>4, <2>1, <2>2, PromiseKept
<1>. QED
  BY <1>1, <1>5, HaltInvKept

(* While a STOP has yet to drain the queue, little is asked of it.           *)
LEMMA EarlyIsCovered ==
  ASSUME TypeOK, Next, NEW c \in Caller, NEW r \in Req, Covered(c, r),
         UNCHANGED turn, caller'[c].req = caller[c].req,
         caller'[c].pc \in {"stop_pending", "stop_drain"},
         r \in pending' => caller'[c].pc = "stop_pending" /\ r \in caller'[c].todo,
         status'[r] = "awaiting" /\ r \in pending => r \in pending',
         \A d \in Caller : Confirms(d, r)' => IsAhead(d, c)'
  PROVE  Covered(c, r)'
<1>1. EntryRule
  BY StepKeepsEntryRule
<1>2. ~MayEnter(r)
  BY DEF MayEnter, Submitting, Covered, Struck, InSubmit
<1>3. status'[r] # "absent"
  BY <1>1 DEF Covered, EntryRule, MayBecome
<1>4. status'[r] = "awaiting" => r \in pending' \/ turn'.req = r
  BY <1>1, <1>2 DEF EntryRule, MayBecome, Covered
<1>5. turn'.req = r => caller'[c].req = r /\ Struck'
  BY DEF Covered, Struck
<1>6. caller'[c].pc \in Early
  BY DEF Early
<1>. QED
  BY <1>3, <1>4, <1>5, <1>6 DEF Covered

(* STOP looks at what is pending, and queues behind whoever confirms.        *)
LEMMA SnapshotStands ==
  ASSUME TypeOK, LockInv, HaltInv, Next, NEW c \in Caller, StopSnapshots(c)
  PROVE  PromiseStands(c)'
<1>. DEFINE pc == IF pending = {} THEN "stop_drain" ELSE "stop_pending"
            new == [caller[c] EXCEPT !.todo = pending, !.pc = pc]
<1>1. caller[c] \in Calls /\ PromiseStands(c) /\ c \in Procs
  BY DEF TypeOK, HaltInv, Procs
<1>2. pc \in {"stop_drain", "stop_pending"} /\ (pc = "stop_drain" => pending = {})
  OBVIOUS
<1>3. caller' = [caller EXCEPT ![c] = new]
  BY DEF StopSnapshots, Becomes
<1>. HIDE DEF pc
<1>4. /\ new.pc = pc /\ new.todo = pending /\ new.req = caller[c].req
      /\ new.doomed = caller[c].doomed
  BY <1>1 DEF Calls
<1>. HIDE DEF new
<1>5. caller'[c] = new /\ \A d \in Caller \ {c} : caller'[d] = caller[d]
  BY <1>3 DEF TypeOK
<1>6. ASSUME NEW r \in caller[c].doomed
      PROVE  Covered(c, r)'
  <2>1. r \in Req /\ Covered(c, r)
    BY <1>1 DEF Calls, PromiseStands
  <2>2. UNCHANGED <<turn, pending, status>> /\ Acquire(c)
    BY DEF StopSnapshots, row
  <2>3. ASSUME NEW d \in Caller, Confirms(d, r)'
        PROVE  IsAhead(d, c)'
    <3>1. d # c
      BY <1>2, <1>4, <1>5, <2>3 DEF Confirms
    <3>2. Wants(d) /\ d \in Procs
      BY <1>5, <2>3, <3>1, ExecutorAssumption DEF Confirms, Wants, WaitingPcs, Procs
    <3>. QED
      BY <1>1, <2>2, <3>1, <3>2, LastIsBehind DEF LockInv
  <2>. QED
    BY <1>2, <1>4, <1>5, <2>1, <2>2, <2>3, EarlyIsCovered
<1>. QED
  BY <1>2, <1>4, <1>5, <1>6 DEF PromiseStands, StopPcs

(* STOP cancels what was pending.                                            *)
LEMMA PendingStands ==
  ASSUME TypeOK, LockInv, HaltInv, Next, NEW c \in Caller, StopCancelsPending(c)
  PROVE  PromiseStands(c)'
<1>1. caller[c] \in Calls /\ PromiseStands(c) /\ Holds(c) /\ caller[c].pc = "stop_pending"
  BY DEF TypeOK, HaltInv, StopCancelsPending, InSection
<1>2. PICK q \in caller[c].todo :
        /\ CancelWrites(q)
        /\ ResolveCompletion(q, Becomes(c, [caller[c] EXCEPT !.todo = @ \ {q},
            !.pc = IF caller[c].todo = {q} THEN "stop_drain" ELSE "stop_pending"]))
  BY DEF StopCancelsPending
<1>. DEFINE pc == IF caller[c].todo = {q} THEN "stop_drain" ELSE "stop_pending"
            new == [caller[c] EXCEPT !.todo = @ \ {q}, !.pc = pc]
<1>3. pc \in {"stop_drain", "stop_pending"} /\ (pc = "stop_drain" => caller[c].todo = {q})
  OBVIOUS
<1>4. ResolveCompletion(q, Becomes(c, new))
  BY <1>2
<1>. HIDE DEF pc
<1>5. /\ new.pc = pc /\ new.todo = caller[c].todo \ {q} /\ new.req = caller[c].req
      /\ new.doomed = caller[c].doomed
  BY <1>1 DEF Calls
<1>. HIDE DEF new
<1>6. caller'[c] = new
  BY <1>3, <1>4, <1>5, ActorBecomes
<1>7. q \in Req
  BY <1>1, <1>2 DEF Calls
<1>8. pending' = pending \ {q} /\ status'[q] = "cancelled" /\ UNCHANGED turn
  BY <1>2, <1>7 DEF CancelWrites, UpdateCommand, StopCancelsPending, TypeOK
<1>9. ASSUME NEW r \in caller[c].doomed
      PROVE  Covered(c, r)'
  <2>1. r \in Req /\ Covered(c, r)
    BY <1>1 DEF Calls, PromiseStands
  <2>2. ASSUME NEW d \in Caller, Confirms(d, r)'
        PROVE  FALSE
    <3>1. d # c
      BY <1>3, <1>5, <1>6, <2>2 DEF Confirms
    <3>2. Confirms(d, r)
      BY <1>4, <2>2, <3>1, OthersKeep, ConfirmsKept
    <3>3. IsAhead(d, c)
      BY <1>1, <2>1, <3>2 DEF Covered
    <3>. QED
      BY <1>1, <3>3, HolderIsFirst
  <2>3. r \in pending' => pc = "stop_pending" /\ r \in caller[c].todo \ {q}
    BY <1>1, <1>3, <1>8, <2>1 DEF Covered
  <2>4. status'[r] = "awaiting" /\ r \in pending => r \in pending'
    BY <1>8
  <2>. QED
    BY <1>3, <1>5, <1>6, <1>8, <2>1, <2>2, <2>3, <2>4, EarlyIsCovered
<1>. QED
  BY <1>3, <1>5, <1>6, <1>9 DEF PromiseStands, StopPcs

(* STOP drains the queue.                                                    *)
LEMMA DrainStands ==
  ASSUME TypeOK, LockInv, HaltInv, Next, NEW c \in Caller, StopDrainsOne(c)
  PROVE  PromiseStands(c)'
<1>1. caller[c] \in Calls /\ PromiseStands(c) /\ Holds(c) /\ caller[c].pc = "stop_drain"
  BY DEF TypeOK, HaltInv, StopDrainsOne, InSection
<1>2. \A d \in Caller : Keeps(d)
  BY AllKeep DEF StopDrainsOne
<1>3. /\ caller'[c].pc = "stop_drain" /\ caller'[c].req = caller[c].req
      /\ caller'[c].doomed \subseteq caller[c].doomed
  BY <1>1, <1>2 DEF Keeps
<1>4. UNCHANGED <<turn, pending>>
  BY DEF StopDrainsOne
<1>5. ASSUME NEW r \in caller'[c].doomed
      PROVE  Covered(c, r)'
  <2>1. r \in Req /\ Covered(c, r)
    BY <1>1, <1>3 DEF Calls, PromiseStands
  <2>2. ASSUME NEW d \in Caller, Confirms(d, r)'
        PROVE  FALSE
    <3>1. Confirms(d, r)
      BY <1>2, <2>2, ConfirmsKept
    <3>2. IsAhead(d, c)
      BY <1>1, <2>1, <3>1 DEF Covered
    <3>. QED
      BY <1>1, <3>2, HolderIsFirst
  <2>3. r \notin pending
    BY <1>1, <2>1 DEF Covered
  <2>. QED
    BY <1>3, <1>4, <2>1, <2>2, <2>3, EarlyIsCovered
<1>. QED
  BY <1>3, <1>5 DEF PromiseStands, StopPcs

(* The queue is empty; who is about to claim is before STOP.                 *)
LEMMA DrainedStands ==
  ASSUME TypeOK, LockInv, HaltInv, Next, NEW c \in Caller, StopDrained(c)
  PROVE  PromiseStands(c)'
<1>1. /\ caller[c] \in Calls /\ PromiseStands(c) /\ Holds(c) /\ caller[c].pc = "stop_drain"
      /\ queue = <<>> /\ c \in Procs /\ Worker \in Procs /\ Worker # c
  BY ExecutorAssumption DEF TypeOK, HaltInv, StopDrained, InSection, Procs
<1>. DEFINE new == [caller[c] EXCEPT !.pc = "stop_current"]
<1>2. caller' = [caller EXCEPT ![c] = new]
  BY DEF StopDrained, Moves, Becomes
<1>3. new.pc = "stop_current" /\ new.req = caller[c].req /\ new.doomed = caller[c].doomed
  BY <1>1 DEF Calls
<1>. HIDE DEF new
<1>4. caller'[c] = new /\ \A d \in Caller \ {c} : caller'[d] = caller[d]
  BY <1>2 DEF TypeOK
<1>5. UNCHANGED <<status, pending, queue, turn, worker, exec>> /\ Reacquire(c)
  BY DEF StopDrained, row
<1>6. ASSUME NEW r \in caller[c].doomed
      PROVE  Covered(c, r)'
  <2>1. r \in Req /\ Covered(c, r)
    BY <1>1 DEF Calls, PromiseStands
  <2>2. ASSUME NEW d \in Caller, Confirms(d, r)'
        PROVE  FALSE
    <3>1. Confirms(d, r)
      BY <1>3, <1>4, <2>2 DEF Confirms
    <3>2. IsAhead(d, c)
      BY <1>1, <2>1, <3>1 DEF Covered
    <3>. QED
      BY <1>1, <3>2, HolderIsFirst
  <2>3. r \notin Range(queue')
    BY <1>1, <1>5 DEF Range
  <2>4. Claims(r)' => IsAhead(Worker, c)'
    <3>1. Claims(r)' => Wants(Worker)
      BY <1>5, ExecutorAssumption DEF Claims, Wants
    <3>. QED
      BY <1>1, <1>5, <3>1, LastIsBehind DEF LockInv
  <2>5. /\ status'[r] # "absent" /\ r \notin pending'
        /\ turn'.req = r => caller'[c].req = r /\ Struck'
        /\ status'[r] = "awaiting" => r \in pending' \/ turn'.req = r
    BY <1>1, <1>3, <1>4, <1>5, <2>1 DEF Covered, Struck
  <2>. QED
    BY <1>3, <1>4, <2>2, <2>3, <2>4, <2>5 DEF Covered
<1>. QED
  BY <1>3, <1>4, <1>6 DEF PromiseStands, StopPcs

(* A cancel of the current request, or of whatever is current, stops the task. *)
LEMMA CancelStopsTask ==
  ASSUME TypeOK, ExecInv, NEW r \in Req,
         exec'.req = exec.req /\ exec'.pc = exec.pc,
         current = r /\ exec.pc # "ended" => exec'.cancelled
  PROVE  ~Running(r)'
  BY DEF Running, ExecInv, Busy

(* STOP cancels the current request: nobody is left to claim or to run.      *)
LEMMA CurrentStands ==
  ASSUME TypeOK, ExecInv, LockInv, HaltInv, Next, NEW c \in Caller, StopCancelsCurrent(c)
  PROVE  PromiseStands(c)'
<1>1. /\ caller[c] \in Calls /\ PromiseStands(c) /\ Holds(c) /\ caller[c].pc = "stop_current"
      /\ exec \in Tasks
  BY DEF TypeOK, HaltInv, StopCancelsCurrent, InSection
<1>. DEFINE new == [caller[c] EXCEPT !.pc = "stop_join", !.joins = current]
<1>2. caller' = [caller EXCEPT ![c] = new]
  BY DEF StopCancelsCurrent, Becomes
<1>3. new.pc = "stop_join" /\ new.req = caller[c].req /\ new.doomed = caller[c].doomed
  BY <1>1 DEF Calls
<1>. HIDE DEF new
<1>4. caller'[c] = new /\ \A d \in Caller \ {c} : caller'[d] = caller[d]
  BY <1>2 DEF TypeOK
<1>5. UNCHANGED <<pending, queue, turn, worker>>
  BY DEF StopCancelsCurrent
<1>6. ASSUME NEW r \in caller[c].doomed
      PROVE  Covered(c, r)'
  <2>1. r \in Req /\ Covered(c, r) /\ r # NoReq
    BY <1>1, ExecutorAssumption DEF Calls, PromiseStands
  <2>2. \A d \in Caller : ~Confirms(d, r)
    BY <1>1, <2>1 DEF Covered
  <2>3. \A d \in Caller : ~Confirms(d, r)'
    BY <1>3, <1>4, <2>2 DEF Confirms
  <2>4. ~Enters(r)
    BY <2>1, <2>2 DEF Enters, MayEnter, Submitting, Covered, Struck, InSubmit
  <2>5. EntryRule
    BY StepKeepsEntryRule
  <2>6. /\ status'[r] # "absent"
        /\ status'[r] = "awaiting" => status[r] = "awaiting"
        /\ status'[r] = "queued" => status[r] = "queued"
    BY <2>1, <2>4, <2>5 DEF EntryRule, MayBecome, Enters, Covered
  <2>7. /\ r \notin pending'
        /\ turn'.req = r => caller'[c].req = r /\ Struck'
        /\ status'[r] = "awaiting" => r \in pending' \/ turn'.req = r
    BY <1>1, <1>3, <1>4, <1>5, <2>1, <2>6 DEF Covered, Struck
  <2>8. caller[c].pc \notin Early
    BY <1>1 DEF Early
  <2>9. status'[r] = "queued" => r \notin Range(queue')
    BY <1>5, <2>1, <2>6, <2>8 DEF Covered
  <2>10. status'[r] = "queued" => ~Claims(r)'
    <3>1. status[r] = "queued" /\ Claims(r) => IsAhead(Worker, c)
      BY <2>1, <2>8 DEF Covered
    <3>2. ~IsAhead(Worker, c)
      BY <1>1, HolderIsFirst
    <3>. QED
      BY <1>5, <2>6, <3>1, <3>2 DEF Claims
  <2>11. ~Running(r)'
    <3>1. CASE current = NoReq /\ UNCHANGED exec
      BY <2>1, <3>1, CancelStopsTask
    <3>2. CASE exec' = [exec EXCEPT !.cancelled = @ \/ exec.pc # "ended"]
      <4>1. /\ exec'.req = exec.req /\ exec'.pc = exec.pc
            /\ exec.pc # "ended" => exec'.cancelled
        BY <1>1, <3>2 DEF Tasks
      <4>. QED
        BY <2>1, <4>1, CancelStopsTask
    <3>. QED
      BY <3>1, <3>2 DEF StopCancelsCurrent
  <2>. QED
    BY <1>3, <1>4, <2>3, <2>6, <2>7, <2>9, <2>10, <2>11 DEF Covered
<1>. QED
  BY <1>3, <1>4, <1>6 DEF PromiseStands, StopPcs

(* STOP has awaited the task.                                                *)
LEMMA JoinStands ==
  ASSUME TypeOK, HaltInv, NEW c \in Caller, StopJoins(c)
  PROVE  PromiseStands(c)'
<1>1. caller[c] \in Calls /\ PromiseStands(c) /\ caller[c].pc = "stop_join"
  BY DEF TypeOK, HaltInv, StopJoins
<1>. DEFINE new == [caller[c] EXCEPT !.pc = "stop_gather"]
<1>2. caller' = [caller EXCEPT ![c] = new]
  BY DEF StopJoins, Moves, Becomes
<1>3. new.pc = "stop_gather" /\ new.req = caller[c].req /\ new.doomed = caller[c].doomed
  BY <1>1 DEF Calls
<1>. HIDE DEF new
<1>4. caller'[c] = new /\ \A d \in Caller \ {c} : caller'[d] = caller[d]
  BY <1>2 DEF TypeOK
<1>5. UNCHANGED <<status, pending, queue, turn, worker, exec>>
  BY DEF StopJoins, row
<1>6. ASSUME NEW r \in caller[c].doomed
      PROVE  Covered(c, r)'
  <2>1. r \in Req /\ Covered(c, r)
    BY <1>1 DEF Calls, PromiseStands
  <2>2. \A d \in Caller : ~Confirms(d, r)'
    BY <1>1, <1>3, <1>4, <2>1 DEF Confirms, Covered
  <2>3. caller[c].pc \notin Early
    BY <1>1 DEF Early
  <2>4. status'[r] = "queued" => r \notin Range(queue') /\ ~Claims(r)'
    BY <1>1, <1>5, <2>1, <2>3 DEF Covered, Claims
  <2>5. ~Running(r)'
    BY <1>1, <1>5, <2>1, <2>3 DEF Covered, Running
  <2>6. /\ status'[r] # "absent" /\ r \notin pending'
        /\ turn'.req = r => caller'[c].req = r /\ Struck'
        /\ status'[r] = "awaiting" => r \in pending' \/ turn'.req = r
    BY <1>1, <1>3, <1>4, <1>5, <2>1 DEF Covered, Struck
  <2>. QED
    BY <1>3, <1>4, <2>2, <2>4, <2>5, <2>6 DEF Covered
<1>. QED
  BY <1>3, <1>4, <1>6 DEF PromiseStands, StopPcs

(* Who returns, or was not in a STOP, has promised nothing.                  *)
LEMMA NothingPromised ==
  ASSUME NEW c, caller'[c].doomed = {}
  PROVE  PromiseStands(c)'
  BY DEF PromiseStands

(* A caller that acts keeps its promises.                                    *)
LEMMA ActorStands ==
  ASSUME TypeOK, ExecInv, LockInv, HaltInv, Next, NEW c \in Caller, CallerStep(c)
  PROVE  PromiseStands(c)'
<1>. caller \in [Caller -> Calls] /\ PromiseStands(c)
  BY DEF TypeOK, HaltInv
<1>1. CASE \/ ConfirmTooLate(c) \/ ConfirmNotRunnable(c) \/ Confirm(c) \/ StopRaises(c)
           \/ StopReturns(c)
  <2>1. caller'[c] = NoCall
    BY <1>1 DEF ConfirmTooLate, ConfirmNotRunnable, Confirm, StopRaises, StopReturns, Returns,
       Becomes
  <2>. QED
    BY <2>1, NothingPromised DEF NoCall
<1>2. CASE Cancel(c)
  <2>1. caller'[c] = NoCall
    BY <1>2, ActorBecomes DEF Cancel, NoCall
  <2>. QED
    BY <2>1, NothingPromised DEF NoCall
<1>3. CASE WaitReads(c) \/ WaitRegisters(c)
  <2>1. caller[c].doomed = {}
    BY <1>3 DEF WaitReads, WaitRegisters, PromiseStands, StopPcs
  <2>2. caller'[c] \in {NoCall, [caller[c] EXCEPT !.pc = "register"],
                        [caller[c] EXCEPT !.pc = "waiting"]}
    <3>1. \/ caller' = [caller EXCEPT ![c] = NoCall]
          \/ caller' = [caller EXCEPT ![c] = [caller[c] EXCEPT !.pc = "register"]]
          \/ caller' = [caller EXCEPT ![c] = [caller[c] EXCEPT !.pc = "waiting"]]
      BY <1>3 DEF WaitReads, WaitRegisters, Returns, Moves, Becomes
    <3>. QED
      BY <3>1
  <2>3. caller'[c].doomed = {}
    BY <2>1, <2>2 DEF Calls, NoCall
  <2>. QED
    BY <2>3, NothingPromised
<1>. QED
  BY <1>1, <1>2, <1>3, SnapshotStands, PendingStands, DrainStands, DrainedStands,
     CurrentStands, JoinStands DEF CallerStep

(* What a cancel was about, once submitted, is down when it returns.         *)
LEMMA CancelledIsDown ==
  ASSUME TypeOK, ExecInv, NEW c \in Caller, Cancel(c), NEW r \in halted' \ halted
  PROVE  IsDown(r)'
<1>1. r = caller[c].req /\ ~Submitting(r) /\ CancelWrites(r) /\ UNCHANGED turn
  BY DEF Cancel
<1>2. r \in Req /\ exec \in Tasks
  BY <1>1 DEF Cancel, InSection, TypeOK, Calls, Requests
<1>3. status'[r] = "cancelled"
  BY <1>1, <1>2 DEF CancelWrites, UpdateCommand, TypeOK
<1>4. /\ exec'.req = exec.req /\ exec'.pc = exec.pc
      /\ current = r /\ exec.pc # "ended" => exec'.cancelled
  BY <1>1, <1>2 DEF CancelWrites, Tasks
<1>5. ~Running(r)'
  BY <1>2, <1>4, CancelStopsTask
<1>6. ~MayEnter(r)'
  BY <1>1 DEF MayEnter, Submitting
<1>. QED
  BY <1>3, <1>5, <1>6 DEF IsDown

(* What a STOP has promised to end is down when it returns.                  *)
LEMMA StoppedIsDown ==
  ASSUME TypeOK, HaltInv, NEW c \in Caller, StopReturns(c), NEW r \in halted' \ halted
  PROVE  IsDown(r)'
<1>1. r \in caller[c].doomed /\ caller[c].pc = "stop_gather"
  BY DEF StopReturns
<1>2. r \in Req /\ r # NoReq /\ Covered(c, r)
  BY <1>1, ExecutorAssumption DEF HaltInv, PromiseStands, TypeOK, Calls
<1>3. UNCHANGED <<status, turn, queue, worker, exec>>
  BY DEF StopReturns, row
<1>4. turn.req # r
  <2>1. turn.req = r => turn.pc # "idle" /\ caller[c].req = r
    BY <1>2 DEF HaltInv, RowsInv, Covered
  <2>. QED
    BY <2>1 DEF StopReturns
<1>5. status[r] \notin {"absent", "awaiting"}
  BY <1>1, <1>2, <1>4 DEF Covered
<1>6. ~MayEnter(r)
  BY <1>4 DEF MayEnter, Submitting
<1>7. /\ ~Running(r)
      /\ status[r] = "queued" => r \notin Range(queue) /\ ~Claims(r)
  BY <1>1, <1>2 DEF Covered, Early
<1>8. ~Running(r)' /\ ~MayEnter(r)' /\ (Claims(r)' <=> Claims(r))
  BY <1>3, <1>6, <1>7 DEF Running, MayEnter, Submitting, Claims
<1>. QED
  BY <1>3, <1>5, <1>7, <1>8 DEF IsDown

(* Callers keep the invariant of the STOPs.                                  *)
LEMMA CallersKeepHaltInv ==
  ASSUME TypeOK, QueueInv, ExecInv, LockInv, HaltInv, Next, ~Restart,
         NEW e \in Caller, CallerStep(e)
  PROVE  HaltInv'
<1>1. ASSUME NEW c \in Caller \ {e}
      PROVE  PromiseStands(c)'
  <2>1. Keeps(c) /\ e \in Procs \ {c} /\ LockBy(e) /\ e # Worker
    BY CallerLetsKeep, LockMovers, ExecutorAssumption DEF Procs
  <2>2. caller'[e].pc # "confirm"
    <3>. caller \in [Caller -> Calls]
      BY DEF TypeOK
    <3>1. CASE \/ ConfirmTooLate(e) \/ ConfirmNotRunnable(e) \/ Confirm(e) \/ StopRaises(e)
               \/ StopReturns(e)
      BY <3>1 DEF ConfirmTooLate, ConfirmNotRunnable, Confirm, StopRaises, StopReturns,
         Returns, Becomes, NoCall
    <3>2. CASE Cancel(e)
      <4>1. caller'[e] = NoCall
        BY <3>2, ActorBecomes DEF Cancel, NoCall
      <4>. QED
        BY <4>1 DEF NoCall
    <3>3. CASE \/ WaitReads(e) \/ WaitRegisters(e) \/ StopDrained(e) \/ StopJoins(e)
      <4>1. caller' = [caller EXCEPT ![e] = NoCall]
            \/ \E p \in {"register", "waiting", "stop_current", "stop_gather"} :
                 caller' = [caller EXCEPT ![e] = [caller[e] EXCEPT !.pc = p]]
        BY <3>3 DEF WaitReads, WaitRegisters, StopDrained, StopJoins, Returns, Moves, Becomes
      <4>. QED
        BY <4>1 DEF NoCall, Calls
    <3>4. CASE StopSnapshots(e)
      <4>. DEFINE p == IF pending = {} THEN "stop_drain" ELSE "stop_pending"
      <4>1. p # "confirm" /\ caller' = [caller EXCEPT ![e] = [caller[e] EXCEPT
                                         !.todo = pending, !.pc = p]]
        BY <3>4 DEF StopSnapshots, Becomes
      <4>. HIDE DEF p
      <4>. QED
        BY <4>1 DEF Calls
    <3>5. CASE StopCancelsCurrent(e)
      BY <3>5 DEF StopCancelsCurrent, Becomes, Calls
    <3>6. CASE StopDrainsOne(e)
      <4>1. Keeps(e) /\ caller[e].pc = "stop_drain"
        BY <3>6, AllKeep DEF StopDrainsOne, InSection
      <4>. QED
        BY <4>1 DEF Keeps
    <3>7. CASE StopCancelsPending(e)
      <4>1. PICK q \in caller[e].todo :
              ResolveCompletion(q, Becomes(e, [caller[e] EXCEPT !.todo = @ \ {q},
                !.pc = IF caller[e].todo = {q} THEN "stop_drain" ELSE "stop_pending"]))
        BY <3>7 DEF StopCancelsPending
      <4>. DEFINE pc == IF caller[e].todo = {q} THEN "stop_drain" ELSE "stop_pending"
                  new == [caller[e] EXCEPT !.todo = @ \ {q}, !.pc = pc]
      <4>2. pc \in {"stop_drain", "stop_pending"} /\ ResolveCompletion(q, Becomes(e, new))
        BY <4>1
      <4>. HIDE DEF pc
      <4>3. new.pc = pc
        BY DEF Calls
      <4>. HIDE DEF new
      <4>4. caller'[e] = new
        BY <4>2, <4>3, ActorBecomes
      <4>. QED
        BY <4>2, <4>3, <4>4
    <3>. QED
      BY <3>1, <3>2, <3>3, <3>4, <3>5, <3>6, <3>7 DEF CallerStep
  <2>3. ASSUME NEW r \in caller'[c].doomed, NEW d \in Caller, Confirms(d, r)'
        PROVE  Confirms(d, r) /\ d # e
    <3>1. d # e
      BY <2>2, <2>3 DEF Confirms
    <3>2. Keeps(d)
      BY <3>1, CallerLetsKeep
    <3>. QED
      BY <2>3, <3>1, <3>2, ConfirmsKept
  <2>. QED
    BY <2>1, <2>3, PromiseKept
<1>2. PromiseStands(e)'
  BY ActorStands
<1>3. ASSUME NEW r \in halted' \ halted
      PROVE  IsDown(r)'
  <2>1. Cancel(e) \/ StopReturns(e)
    BY <1>3 DEF CallerStep, ConfirmTooLate, ConfirmNotRunnable, Confirm, WaitReads,
       WaitRegisters, StopSnapshots, StopCancelsPending, StopDrainsOne, StopDrained,
       StopCancelsCurrent, StopJoins, StopRaises, ghosts
  <2>. QED
    BY <1>3, <2>1, CancelledIsDown, StoppedIsDown
<1>. QED
  BY <1>1, <1>2, <1>3, HaltInvKept

(* So does whoever makes a call, other than STOP.                            *)
LEMMA CallKeepsHaltInv ==
  ASSUME TypeOK, QueueInv, LockInv, HaltInv, Next, ~Restart,
         NEW e \in Caller, NEW k \in AllCalls \ {"stop"}, NEW q \in Req, Call(e, k, q)
  PROVE  HaltInv'
<1>. caller \in [Caller -> Calls]
  BY DEF TypeOK
<1>1. UNCHANGED <<halted, worker>> /\ LockBy(e)
  BY DEF Call, LockBy, ghosts
<1>2. \A c \in Caller \ {e} : Keeps(c)
  BY CallerLetsKeep
<1>3. /\ caller'[e].doomed = {}
      /\ caller'[e].req = q /\ (caller'[e].pc = "confirm" => k = "confirm")
  BY DEF Call, NoCall
<1>4. k = "confirm" => \A c \in Caller \ {e} : q \notin caller'[c].doomed
  <2>. SUFFICES ASSUME k = "confirm", NEW c \in Caller \ {e}
                PROVE  q \notin caller'[c].doomed
    OBVIOUS
  <2>1. caller'[c] = [caller[c] EXCEPT !.doomed = @ \ {q}] /\ caller[c] \in Calls
    BY DEF Call
  <2>. QED
    BY <2>1 DEF Calls
<1>5. ASSUME NEW c \in Caller \ {e}
      PROVE  PromiseStands(c)'
  <2>1. Keeps(c) /\ e \in Procs \ {c} /\ e # Worker
    BY <1>2, ExecutorAssumption DEF Procs
  <2>2. ASSUME NEW r \in caller'[c].doomed, NEW d \in Caller, Confirms(d, r)'
        PROVE  Confirms(d, r) /\ d # e
    <3>1. d # e
      BY <1>3, <1>4, <2>2 DEF Confirms
    <3>. QED
      BY <1>2, <2>2, <3>1, ConfirmsKept
  <2>. QED
    BY <1>1, <2>1, <2>2, PromiseKept
<1>6. PromiseStands(e)'
  BY <1>3, NothingPromised
<1>. QED
  BY <1>1, <1>5, <1>6, HaltInvKept

(* A STOP that begins promises what it has not yet done.                     *)
LEMMA StopBegins ==
  ASSUME TypeOK, RowsInv, Next, ~Restart, NEW c \in Caller, Stops(c),
         turn.pc # "idle" => turn'.req = turn.req /\ Struck',
         turn.pc = "idle" => turn'.req = turn.req
  PROVE  PromiseStands(c)'
<1>1. EntryRule /\ PendingRule
  BY StepKeepsEntryRule, StepKeepsPendingRule
<1>2. /\ caller'[c].pc = "stop_snapshot" /\ caller'[c].req = turn.req
      /\ caller'[c].doomed = Doomed
  BY DEF Stops, Becomes, NoCall, TypeOK
<1>3. ASSUME NEW r \in Doomed
      PROVE  Covered(c, r)'
  <2>1. r \in Req /\ r # NoReq
    BY ExecutorAssumption DEF Doomed, TypeOK, Turns
  <2>2. status[r] # "absent"
    BY DEF Doomed, RowsInv, Live
  <2>3. status'[r] # "absent"
    BY <1>1, <2>1, <2>2 DEF EntryRule, MayBecome
  <2>4. turn.req = r => turn.pc # "idle"
    BY <2>1 DEF RowsInv
  <2>5. turn'.req = r => caller'[c].req = r /\ Struck'
    BY <1>2, <2>4
  <2>6. status'[r] = "awaiting" => r \in pending' \/ turn'.req = r
    <3>. SUFFICES ASSUME status'[r] = "awaiting", turn'.req # r
                  PROVE  r \in pending'
      OBVIOUS
    <3>1. turn.req # r /\ ~MayEnter(r)
      BY DEF MayEnter, Submitting
    <3>2. status[r] = "awaiting"
      BY <1>1, <2>1, <3>1 DEF EntryRule, MayBecome
    <3>3. r \in pending
      BY <3>1, <3>2 DEF Doomed, Live
    <3>. QED
      BY <1>1, <3>3 DEF PendingRule
  <2>7. caller'[c].pc \in Early
    BY <1>2 DEF Early
  <2>. QED
    BY <1>2, <2>3, <2>5, <2>6, <2>7 DEF Covered
<1>. QED
  BY <1>2, <1>3 DEF PromiseStands, StopPcs

(* So does whoever calls STOP.                                               *)
LEMMA StopKeepsHaltInv ==
  ASSUME TypeOK, QueueInv, LockInv, HaltInv, Next, ~Restart,
         NEW e \in Caller, StopCall(e) \/ StopCutsSection(e)
  PROVE  HaltInv'
<1>1. Stops(e) /\ UNCHANGED <<halted, worker>> /\ LockBy(Turn)
  BY DEF StopCall, StopCutsSection, InTurnSection, LockBy, ghosts
<1>2. /\ turn'.req = turn.req /\ (turn.pc # "idle" => Struck')
  BY DEF StopCall, StopCutsSection, Struck, TypeOK, Turns
<1>3. PromiseStands(e)'
  BY <1>1, <1>2, StopBegins DEF HaltInv
<1>4. caller'[e].pc = "stop_snapshot"
  BY <1>1 DEF Stops, Becomes, NoCall, TypeOK
<1>5. ASSUME NEW c \in Caller \ {e}
      PROVE  PromiseStands(c)'
  <2>1. Keeps(c) /\ Turn \in Procs \ {c} /\ Turn # Worker
    BY CallerLetsKeep, ExecutorAssumption DEF Procs
  <2>2. ASSUME NEW r \in caller'[c].doomed, NEW d \in Caller, Confirms(d, r)'
        PROVE  Confirms(d, r) /\ d # Turn
    <3>1. d # e /\ d # Turn
      BY <1>4, <2>2, ExecutorAssumption DEF Confirms
    <3>2. Keeps(d)
      BY <3>1, CallerLetsKeep
    <3>. QED
      BY <2>2, <3>1, <3>2, ConfirmsKept
  <2>. QED
    BY <1>1, <2>1, <2>2, PromiseKept
<1>. QED
  BY <1>1, <1>3, <1>5, HaltInvKept

(* So do new requests, time and restarts.                                    *)
LEMMA WorldKeepsHaltInv ==
  ASSUME TypeOK, QueueInv, LockInv, HaltInv, Next,
         Restart \/ \E r \in Req : TurnStarts(r) \/ Expires(r)
  PROVE  HaltInv'
<1>1. CASE Restart
  <2>1. UNCHANGED halted /\ \A c \in Caller : caller'[c].doomed = {}
    BY <1>1 DEF Restart, NoCall, ghosts
  <2>2. \A c \in Caller : PromiseStands(c)'
    BY <2>1, NothingPromised
  <2>. QED
    BY <2>1, <2>2, HaltInvKept
<1>2. CASE ~Restart
  <2>1. UNCHANGED <<halted, caller, lock, worker>>
    BY <1>2 DEF TurnStarts, Expires, ghosts
  <2>2. \A c \in Caller : Keeps(c)
    BY <2>1, AllKeep
  <2>3. ASSUME NEW c \in Caller
        PROVE  PromiseStands(c)'
    <3>1. Turn \in Procs \ {c} /\ Turn # Worker /\ LockBy(Turn)
      BY <2>1, ExecutorAssumption DEF Procs, LockBy
    <3>2. \A r \in caller'[c].doomed, d \in Caller :
            Confirms(d, r)' => Confirms(d, r) /\ d # Turn
      BY <2>2, ExecutorAssumption, ConfirmsKept
    <3>. QED
      BY <1>2, <2>2, <3>1, <3>2, PromiseKept
  <2>. QED
    BY <2>1, <2>3, HaltInvKept
<1>. QED
  BY <1>1, <1>2

(* The lock and the STOPs keep their invariants.                             *)
LEMMA HaltInvariant == Spec => [](LockInv /\ HaltInv)
<1>1. Init => LockInv /\ HaltInv
  <2>. SUFFICES ASSUME Init
                PROVE  LockInv /\ HaltInv
    OBVIOUS
  <2>1. \A p \in Procs : ~Wants(p)
    BY DEF Init, Wants, Procs, NoTurn, IdleWorker, NoExec, NoCall, InSubmit, WaitingPcs
  <2>2. LockInv
    BY <2>1 DEF Init, LockInv, Unique, Range
  <2>3. \A c \in Caller : PromiseStands(c)
    BY DEF Init, PromiseStands, NoCall
  <2>. QED
    BY <2>2, <2>3 DEF Init, HaltInv, RowsInv, NoTurn
<1>2. TypeOK /\ QueueInv /\ ExecInv /\ LockInv /\ HaltInv /\ [Next]_vars
        => LockInv' /\ HaltInv'
  <2>. SUFFICES ASSUME TypeOK, QueueInv, ExecInv, LockInv, HaltInv, [Next]_vars
                PROVE  LockInv' /\ HaltInv'
    OBVIOUS
  <2>1. CASE UNCHANGED vars
    <3>1. LockInv'
      BY <2>1 DEF LockInv, Unique, Wants, vars
    <3>2. \A r : IsDown(r)' <=> IsDown(r)
      BY <2>1 DEF IsDown, MayEnter, Submitting, Running, Claims, vars
    <3>3. \A c, r : Covered(c, r)' <=> Covered(c, r)
      BY <2>1 DEF Covered, Struck, Confirms, IsAhead, Claims, Running, vars
    <3>4. HaltInv'
      BY <2>1, <3>2, <3>3 DEF HaltInv, RowsInv, PromiseStands, vars
    <3>. QED
      BY <3>1, <3>4
  <2>2. CASE Next
    <3>1. LockInv'
      BY <2>2, TurnKeepsLock, CallersKeepLock, WorkerKeepsLock, TaskKeepsLock, WorldKeepsLock
         DEF Next
    <3>2. HaltInv'
      <4>1. CASE Restart \/ \E r \in Req : TurnStarts(r) \/ Expires(r)
        BY <2>2, <4>1, WorldKeepsHaltInv
      <4>2. CASE ~Restart /\ (TurnStep \/ WorkerStep \/ ExecStep)
        BY <2>2, <4>2, LoopKeepsHaltInv
      <4>3. ASSUME ~Restart, NEW c \in Caller, CallerStep(c)
            PROVE  HaltInv'
        BY <2>2, <4>3, CallersKeepHaltInv
      <4>4. ASSUME ~Restart, NEW c \in Caller, StopCall(c) \/ StopCutsSection(c)
            PROVE  HaltInv'
        BY <2>2, <4>4, StopKeepsHaltInv
      <4>5. ASSUME ~Restart, NEW c \in Caller, NEW k \in AllCalls \ {"stop"}, NEW q \in Req,
                   Call(c, k, q)
            PROVE  HaltInv'
        BY <2>2, <4>5, CallKeepsHaltInv
      <4>. QED
        BY <2>2, <4>1, <4>2, <4>3, <4>4, <4>5 DEF Next
    <3>. QED
      BY <3>1, <3>2
  <2>. QED
    BY <2>1, <2>2
<1>. QED
  BY <1>1, <1>2, TypeCorrect, ConsentInvariant, PTL DEF Spec

(* What a finished cancel or STOP was about never runs again, for any number *)
(* of requests, callers, STOPs, confirmations and restarts: whoever confirmed *)
(* or claimed it meanwhile was before STOP in the queue of the lock, and so  *)
(* before the section that puts an end to it.                                *)
THEOREM HaltedIsKept == Spec => []HaltedStaysDown
<1>1. HaltInv => HaltedStaysDown
  BY DEF HaltInv, IsDown, HaltedStaysDown
<1>. QED
  BY <1>1, HaltInvariant, PTL

=============================================================================
