---------------------- MODULE ExecutorRefinementProofs ----------------------
(* The executor implements the lifecycle of a request: every step of it is a *)
(* step of CommandLifecycle or changes none of its variables.                *)
EXTENDS CommandExecutorProofs, ExecutorRefinement

(* What the executor's earlier invariants say together.                      *)
Invariants == TypeOK /\ RunsInv /\ QueueInv /\ ExecInv /\ ConsentInv

LStep == [Lifecycle!Next]_(Lifecycle!vars)
Shown == <<status, Undecided, consent, Claimed, Performing>>

(* A step that changes nothing the lifecycle shows is a stutter of it.       *)
LEMMA Hidden ==
  ASSUME UNCHANGED Shown PROVE LStep
  BY DEF LStep, Shown, Lifecycle!vars

(* The task is what it was for the lifecycle when only its place changes.    *)
LEMMA SameTask ==
  ASSUME UNCHANGED exec PROVE UNCHANGED Performing
  BY DEF Performing

(* What a turn has open is its own request or nothing.                       *)
LEMMA OpenTurn ==
  ASSUME TypeOK
  PROVE  /\ turn.pc \in {"planning"} \cup InSubmit => turn.req \in Req /\ Undecided = {turn.req}
         /\ turn.pc \notin {"planning"} \cup InSubmit => Undecided = {}
<1>. turn \in Turns
  BY DEF TypeOK
<1>. QED
  BY DEF Turns, Undecided, Submitting, InSubmit

LEMMA SameTurn ==
  ASSUME UNCHANGED turn PROVE UNCHANGED Undecided
  BY DEF Undecided, Submitting

LEMMA SameRuns ==
  ASSUME UNCHANGED runs PROVE UNCHANGED Claimed
  BY DEF Claimed

(* A cancel of a request reaches the task exactly when the task is of it.    *)
LEMMA CancelStep ==
  ASSUME Invariants, NEW r \in Req, CancelWrites(r), UNCHANGED runs, Undecided' \subseteq Undecided
  PROVE  LStep
<1>1. exec \in Tasks /\ status \in [Req -> Statuses] /\ consent \subseteq Req
  BY DEF Invariants, TypeOK
<1>2. /\ status' = [status EXCEPT ![r] = "cancelled"] /\ consent' = consent \ {r}
      /\ UNCHANGED Claimed
  BY SameRuns DEF CancelWrites, UpdateCommand
<1>3. exec'.pc = exec.pc /\ exec'.req = exec.req
      /\ exec'.cancelled = (exec.cancelled \/ (current = r /\ exec.pc # "ended"))
  BY <1>1 DEF CancelWrites, Tasks
<1>4. Performing' = IF Performing = r THEN NoReq ELSE Performing
  BY <1>3, ExecutorAssumption DEF Performing, Invariants, ExecInv, Busy
<1>5. Lifecycle!Cancel(r)
  BY <1>2, <1>4 DEF Lifecycle!Cancel, Lifecycle!Becomes
<1>. QED
  BY <1>5 DEF LStep, Lifecycle!Next

(* The turn decides about its request.                                       *)
LEMMA DecideStep ==
  ASSUME Invariants, turn.pc \in {"planning"} \cup InSubmit,
         NEW s \in {"awaiting", "queued", "rejected", "succeeded"}, UpdateCommand(turn.req, s),
         s = "queued" => turn.pc = "enqueue",
         Undecided' = {}, UNCHANGED <<consent, runs, exec>>
  PROVE  LStep
<1>1. turn.req \in Req /\ Undecided = {turn.req}
  BY OpenTurn DEF Invariants
<1>2. s = "queued" => turn.req \notin Asking
  BY DEF Asking, Invariants, ConsentInv
<1>3. UNCHANGED <<consent, Claimed, Performing>> /\ status' = [status EXCEPT ![turn.req] = s]
  BY SameRuns, SameTask DEF UpdateCommand
<1>4. Lifecycle!Decide(turn.req)
  BY <1>1, <1>2, <1>3 DEF Lifecycle!Decide, Lifecycle!Becomes
<1>. QED
  BY <1>1, <1>4 DEF LStep, Lifecycle!Next

(* The steps of the turn.                                                    *)
LEMMA TurnRefines ==
  ASSUME Invariants, TurnStep
  PROVE  LStep
<1>. turn \in Turns /\ TypeOK
  BY DEF Invariants, TypeOK
<1>1. CASE UNCHANGED <<status, consent, runs, exec>>
           /\ (Undecided' = Undecided \/ Undecided' = {})
  <2>1. UNCHANGED <<status, consent, Claimed, Performing>>
    BY <1>1, SameRuns, SameTask
  <2>2. CASE Undecided' = Undecided
    BY <2>1, <2>2, Hidden DEF Shown
  <2>3. CASE Undecided' = {} /\ Undecided # {}
    <3>1. turn.req \in Req /\ Undecided = {turn.req}
      BY <2>3, OpenTurn
    <3>2. Lifecycle!GiveUp(turn.req)
      BY <2>1, <2>3, <3>1 DEF Lifecycle!GiveUp
    <3>. QED
      BY <3>1, <3>2 DEF LStep, Lifecycle!Next
  <2>. QED
    BY <1>1, <2>2, <2>3
<1>2. ASSUME turn'.pc \notin {"planning"} \cup InSubmit
      PROVE  Undecided' = {}
  BY <1>2 DEF Undecided, Submitting
<1>3. CASE SubmitRefused \/ TurnAborted \/ TurnEnds \/ MarkReads \/ MarkAborted
  <2>1. turn'.pc \in {"idle", "mark_read", "mark_write"}
    <3>1. CASE TurnAborted
      BY <3>1 DEF TurnAborted, Turns
    <3>2. CASE MarkReads
      BY <3>2 DEF MarkReads, TurnMoves, NoTurn, Turns
    <3>. QED
      BY <1>3, <3>1, <3>2 DEF SubmitRefused, TurnEnds, MarkAborted, NoTurn
  <2>. QED
    BY <1>1, <1>2, <1>3, <2>1 DEF InSubmit, SubmitRefused, TurnAborted, TurnEnds, MarkReads, MarkAborted,
                                  row, ghosts
<1>4. CASE Submit
  <2>1. turn'.req = turn.req /\ turn.pc = "planning" /\ turn'.pc \in InSubmit
    BY <1>4 DEF Submit, TurnMoves, Turns, InSubmit
  <2>2. Undecided' = Undecided
    BY <2>1 DEF Undecided, Submitting
  <2>. QED
    BY <1>1, <1>4, <2>2 DEF Submit, row, ghosts
<1>5. CASE SubmitClarification \/ SubmitEmpty \/ SubmitParks \/ SubmitEnqueues
  <2>1. turn.pc \in InSubmit /\ turn'.pc = "reply"
    BY <1>5 DEF SubmitClarification, SubmitEmpty, SubmitParks, SubmitEnqueues, InTurnSection,
                InSubmit, TurnMoves, Turns
  <2>2. Undecided' = {}
    BY <1>2, <2>1 DEF InSubmit
  <2>3. PICK s \in {"awaiting", "queued", "rejected", "succeeded"} :
          UpdateCommand(turn.req, s) /\ (s = "queued" => turn.pc = "enqueue")
    BY <1>5 DEF SubmitClarification, SubmitEmpty, SubmitParks, SubmitEnqueues, EnqueueLocked,
                InTurnSection
  <2>. QED
    BY <1>5, <2>1, <2>2, <2>3, DecideStep
       DEF SubmitClarification, SubmitEmpty, SubmitParks, SubmitEnqueues, ghosts
<1>6. CASE SubmitCancelsStale
  <2>1. turn.todo \subseteq Req /\ turn.pc = "stale" /\ turn'.req = turn.req
    BY <1>6 DEF SubmitCancelsStale, InTurnSection, Turns
  <2>2. turn'.pc \in {"park", "stale"}
    BY <1>6, <2>1 DEF SubmitCancelsStale, Turns
  <2>3. Undecided' = Undecided
    BY <2>1, <2>2 DEF Undecided, Submitting, InSubmit
  <2>4. PICK r \in turn.todo : CancelWrites(r)
    BY <1>6 DEF SubmitCancelsStale
  <2>. QED
    BY <1>6, <2>1, <2>3, <2>4, CancelStep DEF SubmitCancelsStale
<1>7. CASE MarkWrites
  <2>1. PICK r \in Req : r = turn.req
    BY <1>7 DEF MarkWrites, Turns
  <2>2. Undecided = {} /\ Undecided' = {}
    BY <1>2, <1>7, OpenTurn DEF MarkWrites, NoTurn, InSubmit
  <2>3. UNCHANGED <<consent, Claimed, Performing>>
    BY <1>7, SameRuns, SameTask DEF MarkWrites, ghosts
  <2>4. Lifecycle!Close(r)
    BY <1>7, <2>1, <2>2, <2>3 DEF MarkWrites, UpdateCommand, Lifecycle!Close, Lifecycle!Becomes
  <2>. QED
    BY <2>4 DEF LStep, Lifecycle!Next
<1>. QED
  BY <1>3, <1>4, <1>5, <1>6, <1>7 DEF TurnStep

(* A request awaiting consent gets it, and a place in the queue or none.     *)
LEMMA ConfirmRefines ==
  ASSUME Invariants, NEW c \in Caller, Confirm(c)
  PROVE  LStep
<1>1. PICK r \in Req : r = caller[c].req
  <2>1. caller[c] \in Calls
    BY DEF Invariants, TypeOK
  <2>. QED
    BY <2>1 DEF Confirm, InSection, Calls, Requests
<1>2. UNCHANGED <<Undecided, Claimed, Performing>>
  BY SameTurn, SameRuns, SameTask DEF Confirm
<1>3. /\ status[r] = "awaiting" /\ consent' = consent \cup {r}
      /\ \E s \in {"queued", "rejected"} : status' = [status EXCEPT ![r] = s]
  BY <1>1 DEF Confirm, EnqueueLocked, UpdateCommand
<1>4. Lifecycle!Agree(r)
  BY <1>2, <1>3 DEF Lifecycle!Agree, Lifecycle!Becomes
<1>. QED
  BY <1>4 DEF LStep, Lifecycle!Next

(* The steps of the callers.                                                 *)
LEMMA CallerRefines ==
  ASSUME Invariants, NEW c \in Caller, CallerStep(c)
  PROVE  LStep
<1>. caller[c] \in Calls /\ TypeOK
  BY DEF Invariants, TypeOK
<1>0. UNCHANGED <<turn, runs>> /\ UNCHANGED <<Undecided, Claimed>>
  <2>1. UNCHANGED <<turn, runs>>
    BY DEF CallerStep, ConfirmTooLate, ConfirmNotRunnable, Confirm, Cancel, WaitReads, WaitRegisters,
         StopSnapshots, StopCancelsPending, StopDrainsOne, StopDrained, StopCancelsCurrent,
         StopJoins, StopRaises, StopReturns, ghosts
  <2>. QED
    BY <2>1, SameTurn, SameRuns
<1>1. CASE UNCHANGED <<status, consent, exec>>
  BY <1>0, <1>1, SameTask, Hidden DEF Shown
<1>2. CASE ConfirmNotRunnable(c) \/ WaitReads(c) \/ WaitRegisters(c) \/ StopSnapshots(c)
           \/ StopDrained(c) \/ StopJoins(c) \/ StopRaises(c) \/ StopReturns(c)
  BY <1>1, <1>2 DEF ConfirmNotRunnable, WaitReads, WaitRegisters, StopSnapshots, StopDrained,
                    StopJoins, StopRaises, StopReturns, row, ghosts
<1>3. CASE ConfirmTooLate(c)
  <2>1. PICK r \in Req : r = caller[c].req
    BY <1>3 DEF ConfirmTooLate, InSection, Calls, Requests
  <2>2. CASE status[r] # "awaiting"
    BY <1>1, <1>3, <2>1, <2>2 DEF ConfirmTooLate, row
  <2>3. CASE status[r] = "awaiting"
    <3>1. Lifecycle!Expire(r)
      BY <1>0, <1>3, <2>1, <2>3, SameTask
         DEF ConfirmTooLate, UpdateCommand, Lifecycle!Expire, Lifecycle!Becomes
    <3>. QED
      BY <3>1 DEF LStep, Lifecycle!Next
  <2>. QED
    BY <2>2, <2>3
<1>4. CASE Cancel(c)
  <2>1. PICK r \in Req : r = caller[c].req
    BY <1>4 DEF Cancel, InSection, Calls, Requests
  <2>. QED
    BY <1>0, <1>4, <2>1, CancelStep DEF Cancel
<1>5. CASE StopCancelsPending(c)
  <2>1. caller[c].todo \subseteq Req
    BY DEF Calls
  <2>2. PICK r \in caller[c].todo : CancelWrites(r)
    BY <1>5 DEF StopCancelsPending
  <2>. QED
    BY <1>0, <2>1, <2>2, CancelStep
<1>6. CASE StopDrainsOne(c)
  <2>1. PICK r \in Req : r = Head(queue) /\ r \in Range(queue)
    <3>1. queue # <<>> /\ queue \in Seq(Req)
      BY <1>6 DEF StopDrainsOne, TypeOK
    <3>. QED
      BY <3>1, TailOfUnique DEF Invariants, QueueInv
  <2>2. Performing # r
    BY <2>1, ExecutorAssumption DEF Invariants, QueueInv, Taken, ExecInv, Busy, Performing
  <2>3. UNCHANGED Performing
    BY <1>6, SameTask DEF StopDrainsOne
  <2>4. Lifecycle!Cancel(r)
    BY <1>0, <1>6, <2>1, <2>2, <2>3
       DEF StopDrainsOne, UpdateCommand, Lifecycle!Cancel, Lifecycle!Becomes
  <2>. QED
    BY <2>4 DEF LStep, Lifecycle!Next
<1>7. CASE StopCancelsCurrent(c)
  <2>1. CASE current = NoReq
    BY <1>1, <1>7, <2>1 DEF StopCancelsCurrent, row
  <2>2. CASE current # NoReq
    <3>1. PICK r \in Req : r = current
      BY <2>2 DEF TypeOK
    <3>3. exec \in Tasks /\ exec' = [exec EXCEPT !.cancelled = @ \/ exec.pc # "ended"]
      BY <1>7, <2>2 DEF StopCancelsCurrent, TypeOK
    <3>4. exec'.pc = exec.pc /\ exec'.req = exec.req
          /\ exec'.cancelled = (exec.cancelled \/ exec.pc # "ended")
      BY <3>3 DEF Tasks
    <3>5. Performing' = IF Performing = r THEN NoReq ELSE Performing
      BY <3>1, <3>4, ExecutorAssumption DEF Performing, Invariants, ExecInv, Busy
    <3>6. Lifecycle!Cancel(r)
      BY <1>0, <1>7, <2>2, <3>1, <3>5
         DEF StopCancelsCurrent, UpdateCommand, Lifecycle!Cancel, Lifecycle!Becomes
    <3>. QED
      BY <3>6 DEF LStep, Lifecycle!Next
  <2>. QED
    BY <2>1, <2>2
<1>. QED
  BY <1>2, <1>3, <1>4, <1>5, <1>6, <1>7, ConfirmRefines DEF CallerStep

(* The worker starts a plan when none runs.                                  *)
LEMMA ClaimRefines ==
  ASSUME Invariants, WorkerClaims
  PROVE  LStep
<1>1. worker \in Workers /\ TypeOK /\ worker.pc = "claim"
  BY DEF Invariants, TypeOK, WorkerClaims
<1>2. PICK r \in Req : r = worker.req
  BY <1>1 DEF Workers
<1>3. UNCHANGED Undecided /\ UNCHANGED consent
  BY SameTurn DEF WorkerClaims
<1>4. CASE status[r] # "queued"
  BY <1>2, <1>3, <1>4, SameRuns, SameTask, Hidden DEF WorkerClaims, row, Shown
<1>5. CASE status[r] = "queued"
  <2>1. /\ status' = [status EXCEPT ![r] = "executing"]
        /\ exec' = [NoExec EXCEPT !.pc = "step", !.req = r]
        /\ runs' = [runs EXCEPT ![r] = @ + 1]
    BY <1>2, <1>5 DEF WorkerClaims, UpdateCommand
  <2>2. Performing = NoReq /\ Performing' = r
    BY <1>1, <2>1, ExecutorAssumption DEF Invariants, ExecInv, Busy, Performing, NoExec
  <2>3. Claimed' = Claimed \cup {r}
    BY <1>1, <2>1 DEF Claimed, TypeOK
  <2>4. r \in Asking => r \in consent
    BY <1>5 DEF Asking, Invariants, ConsentInv, NeedsConsent
  <2>5. Lifecycle!Start(r)
    BY <1>3, <1>5, <2>1, <2>2, <2>3, <2>4 DEF Lifecycle!Start, Lifecycle!Becomes
  <2>. QED
    BY <2>5 DEF LStep, Lifecycle!Next
<1>. QED
  BY <1>4, <1>5

(* The result of r is written by its task or, after it, by the worker.       *)
LEMMA ConcludeRefines ==
  ASSUME Invariants, NEW r \in Req, NEW s \in {"succeeded", "failed", "cancelled"},
         status[r] = "executing", UpdateCommand(r, s), Performing \in {r, NoReq},
         UNCHANGED <<turn, consent, runs, Performing>>
  PROVE  LStep
<1>1. UNCHANGED <<Undecided, Claimed>>
  BY SameTurn, SameRuns
<1>2. Lifecycle!Conclude(r)
  BY <1>1 DEF UpdateCommand, Lifecycle!Conclude, Lifecycle!Becomes, Lifecycle!Results
<1>. QED
  BY <1>2 DEF LStep, Lifecycle!Next

(* The plan runs no longer.                                                  *)
LEMMA ReturnRefines ==
  ASSUME UNCHANGED <<status, turn, consent, runs>>, Performing' = NoReq
  PROVE  LStep
<1>1. UNCHANGED <<Undecided, Claimed>>
  BY SameTurn, SameRuns
<1>2. CASE Performing = NoReq
  BY <1>1, <1>2, Hidden DEF Shown
<1>3. CASE Performing # NoReq
  <2>1. Lifecycle!Return
    BY <1>1, <1>3 DEF Lifecycle!Return
  <2>. QED
    BY <2>1 DEF LStep, Lifecycle!Next
<1>. QED
  BY <1>2, <1>3

(* The steps of worker and task.                                             *)
LEMMA ExecutionRefines ==
  ASSUME Invariants, WorkerStep \/ ExecStep
  PROVE  LStep
<1>0. exec \in Tasks /\ worker \in Workers
  BY DEF Invariants, TypeOK
<1>1. CASE UNCHANGED <<status, consent, runs, turn, Performing>>
  BY <1>1, SameTurn, SameRuns, Hidden DEF Shown
<1>2. CASE WorkerGets \/ WorkerAwaits \/ WorkerCleansUp
  BY <1>1, <1>2, SameTask DEF WorkerGets, WorkerAwaits, WorkerCleansUp, row, ghosts
<1>3. CASE WorkerFinishes
  <2>1. PICK r \in Req : r = worker.req
    BY <1>0, <1>3 DEF WorkerFinishes, Workers
  <2>2. Performing = NoReq /\ UNCHANGED <<Performing, turn, consent, runs>>
    BY <1>3, SameTask DEF WorkerFinishes, Invariants, ExecInv, Busy, Performing, ghosts
  <2>3. CASE status[r] # "executing"
    BY <1>1, <1>3, <2>1, <2>2, <2>3 DEF WorkerFinishes, FinishExecution, row
  <2>4. CASE status[r] = "executing"
    <3>1. PICK s \in {"succeeded", "failed", "cancelled"} : UpdateCommand(r, s)
      BY <1>3, <2>1, <2>4 DEF WorkerFinishes, FinishExecution
    <3>. QED
      BY <2>2, <2>4, <3>1, ConcludeRefines
  <2>. QED
    BY <2>3, <2>4
<1>4. CASE ExecBeginsStep \/ ExecStepFails \/ ExecStepSucceeds \/ ExecStepsDone
  <2>1. /\ exec.pc \in {"step", "acting"} /\ exec'.pc \in {"step", "acting", "finish_ok", "finish_fail"}
        /\ exec'.req = exec.req /\ exec'.cancelled = exec.cancelled
    BY <1>0, <1>4 DEF ExecBeginsStep, ExecStepFails, ExecStepSucceeds, ExecStepsDone, Tasks
  <2>2. UNCHANGED Performing
    BY <2>1 DEF Performing
  <2>. QED
    BY <1>1, <1>4, <2>2 DEF ExecBeginsStep, ExecStepFails, ExecStepSucceeds, ExecStepsDone,
                            row, ghosts
<1>5. CASE ExecFinishes
  <2>1. PICK r \in Req : r = exec.req
    BY <1>0, <1>5 DEF ExecFinishes, Tasks
  <2>2. Performing = r /\ UNCHANGED <<turn, consent, runs>>
    BY <1>5, <2>1 DEF ExecFinishes, Performing, ghosts
  <2>3. CASE status[r] # "executing"
    <3>1. exec'.pc = "ended" /\ UNCHANGED status
      BY <1>0, <1>5, <2>1, <2>3 DEF ExecFinishes, FinishExecution, Tasks, row
    <3>2. Performing' = NoReq
      BY <3>1 DEF Performing
    <3>. QED
      BY <2>2, <3>1, <3>2, ReturnRefines
  <2>4. CASE status[r] = "executing"
    <3>1. exec'.pc = "post" /\ exec'.req = r /\ ~exec'.cancelled
      BY <1>0, <1>5, <2>1, <2>4 DEF ExecFinishes, Tasks
    <3>2. Performing' = r
      BY <3>1 DEF Performing
    <3>3. PICK s \in {"succeeded", "failed", "cancelled"} : UpdateCommand(r, s)
      BY <1>5, <2>1, <2>4 DEF ExecFinishes, FinishExecution
    <3>. QED
      BY <2>2, <2>4, <3>2, <3>3, ConcludeRefines
  <2>. QED
    BY <2>3, <2>4
<1>6. CASE ExecReports \/ ExecCancelled
  <2>1. exec'.pc = "ended"
    BY <1>0, <1>6 DEF ExecReports, ExecCancelled, Tasks
  <2>2. Performing' = NoReq
    BY <2>1 DEF Performing
  <2>. QED
    BY <1>6, <2>2, ReturnRefines DEF ExecReports, ExecCancelled, row, ghosts
<1>. QED
  BY <1>2, <1>3, <1>4, <1>5, <1>6, ClaimRefines DEF WorkerStep, ExecStep

(* New requests, calls, time, STOPs that cut the turn, and restarts.         *)
LEMMA WorldRefines ==
  ASSUME Invariants,
         \/ \E r \in Req : TurnStarts(r) \/ Expires(r)
         \/ \E c \in Caller : \/ \E k \in AllCalls \ {"stop"}, r \in Req : Call(c, k, r)
                              \/ StopCall(c) \/ StopCutsSection(c)
         \/ Restart
  PROVE  LStep
<1>. turn \in Turns /\ TypeOK
  BY DEF Invariants, TypeOK
<1>1. ASSUME NEW r \in Req, TurnStarts(r)
      PROVE  LStep
  <2>1. turn'.req = r /\ turn'.pc = "planning" /\ turn.pc = "idle"
    BY <1>1 DEF TurnStarts, NoTurn
  <2>2. Undecided = {} /\ Undecided' = {r}
    BY <2>1, OpenTurn DEF Undecided, Submitting, InSubmit
  <2>3. Lifecycle!Ask(r)
    BY <1>1, <2>2, SameRuns, SameTask
       DEF TurnStarts, UpdateCommand, ghosts, Lifecycle!Ask, Lifecycle!Becomes
  <2>. QED
    BY <2>3 DEF LStep, Lifecycle!Next
<1>2. ASSUME UNCHANGED <<status, consent, runs, exec>>, turn'.pc = turn.pc, turn'.req = turn.req
      PROVE  LStep
  <2>1. UNCHANGED Undecided
    BY <1>2 DEF Undecided, Submitting
  <2>. QED
    BY <1>2, <2>1, SameRuns, SameTask, Hidden DEF Shown
<1>3. ASSUME NEW r \in Req, Expires(r)
      PROVE  LStep
  BY <1>2, <1>3 DEF Expires, ghosts
<1>4. ASSUME NEW c \in Caller, NEW k \in AllCalls \ {"stop"}, NEW r \in Req, Call(c, k, r)
      PROVE  LStep
  BY <1>2, <1>4 DEF Call, row, ghosts
<1>5. ASSUME NEW c \in Caller, StopCall(c)
      PROVE  LStep
  <2>1. turn'.pc = turn.pc /\ turn'.req = turn.req
    BY <1>5 DEF StopCall, Turns
  <2>. QED
    BY <1>2, <1>5, <2>1 DEF StopCall, row, ghosts
<1>6. ASSUME NEW c \in Caller, StopCutsSection(c)
      PROVE  LStep
  <2>1. turn'.pc = "mark_read" /\ turn.pc \in InSubmit
    BY <1>6 DEF StopCutsSection, Turns, InSubmit
  <2>2. Undecided' = {}
    BY <2>1 DEF Undecided, Submitting, InSubmit
  <2>3. CASE turn.pc = "stale"
    <3>1. turn.todo \subseteq Req
      BY DEF Turns
    <3>2. PICK r \in turn.todo : CancelWrites(r)
      BY <1>6, <2>3 DEF StopCutsSection
    <3>. QED
      BY <1>6, <2>2, <3>1, <3>2, CancelStep DEF StopCutsSection
  <2>4. CASE turn.pc # "stale"
    <3>1. UNCHANGED <<exec, consent, runs>>
      BY <1>6, <2>4 DEF StopCutsSection
    <3>2. PICK s \in {"awaiting", "queued", "rejected", "succeeded"} :
            UpdateCommand(turn.req, s) /\ (s = "queued" => turn.pc = "enqueue")
      BY <1>6, <2>4 DEF StopCutsSection
    <3>. QED
      BY <2>1, <2>2, <3>1, <3>2, DecideStep
  <2>. QED
    BY <2>3, <2>4
<1>7. CASE Restart
  <2>1. Undecided' = {} /\ Performing' = NoReq
    BY <1>7 DEF Restart, Undecided, Submitting, InSubmit, NoTurn, Performing, NoExec
  <2>2. Lifecycle!Crash
    BY <1>7, <2>1, SameRuns DEF Restart, row, ghosts, Lifecycle!Crash
  <2>. QED
    BY <2>2 DEF LStep, Lifecycle!Next
<1>. QED
  BY <1>1, <1>3, <1>4, <1>5, <1>6, <1>7

(* For any requests, callers and plans the executor is a lifecycle of its    *)
(* requests.                                                                 *)
THEOREM ExecutorImplementsLifecycle == Spec => Implements
<1>1. Init => Lifecycle!Init
  BY DEF Init, Lifecycle!Init, Undecided, Submitting, InSubmit, NoTurn, Claimed, Performing, NoExec
<1>2. Invariants /\ [Next]_vars => LStep
  <2>. SUFFICES ASSUME Invariants, [Next]_vars
                PROVE  LStep
    OBVIOUS
  <2>1. CASE UNCHANGED vars
    BY <2>1, SameTurn, SameRuns, SameTask, Hidden DEF vars, Shown
  <2>2. CASE Next
    BY <2>2, TurnRefines, CallerRefines, ExecutionRefines, WorldRefines DEF Next
  <2>. QED
    BY <2>1, <2>2
<1>3. Spec => []Invariants
  BY TypeCorrect, RunsAreCounted, ConsentInvariant, PTL DEF Invariants
<1>. QED
  BY <1>1, <1>2, <1>3, PTL DEF Spec, Implements, Lifecycle!Spec, LStep
=============================================================================
