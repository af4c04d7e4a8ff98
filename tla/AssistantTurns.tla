----------------------------- MODULE AssistantTurns -----------------------------
(***************************************************************************)
(* How a request becomes a plan that is handed to the executor             *)
(* (assistant.py): the duplicates that are dropped, the one turn at a      *)
(* time, the lanes a plan may come from and the gates between a voice and  *)
(* an action, the spoken yes or no, and the STOP that cuts all of it. The  *)
(* executor is one step per call here; CommandExecutor has its inside.     *)
(***************************************************************************)
EXTENDS Naturals, FiniteSets

CONSTANTS
    Requests,
    Texts,          \* what is said, up to normalize_text
    Plans,          \* action plans, up to their signature
    Stops,          \* calls of interrupt(): a said STOP, the HTTP routes
    MaxBreaks,      \* bound on exceptions no handler expects
    NoRequest

(* A plan is told apart from a question and from what is only said.        *)
ASSUME TurnAssumption ==
    /\ NoRequest \notin Requests /\ Plans \cap {"gate", "talk"} = {}
    /\ MaxBreaks \in Nat

VARIABLES
    call,           \* the coroutine of handle(), per request
    row,            \* commands.status, per request
    turn,           \* the holder of _turn_lock
    heard,          \* _recent_inputs: the texts in the window
    signed,         \* _recent_plan_signatures: the plans in the window
    handed,         \* history: who handed a plan to the executor in its window, and how he spoke
    pending,        \* executor.pending_confirmation: at most one waits
    hit,            \* calls that cancel() was called on
    stop,           \* where each interrupt() is
    before,         \* history: the requests that had come before it
    breaks

turnVars == <<call, row, turn, heard, signed, handed, pending, hit, stop, before, breaks>>

Voices == {"typed", "clear", "unclear", "crowd"}
NoCall == [at |-> "none"]
At(r) == call[r].at
Active == {"waiting", "planning", "submitting", "committed", "marking"}
Ended == {"answered", "done", "raised", "cut"}

TurnTypeOK ==
    /\ \A r \in Requests : At(r) \in Active \cup Ended \cup {"none", "said", "bound"}
    /\ row \in [Requests -> {"none", "planning", "asked", "awaiting", "queued", "succeeded",
                             "failed", "cancelled", "rejected"}]
    /\ turn \in Requests \cup {NoRequest}
    /\ heard \subseteq Texts /\ signed \subseteq Plans
    /\ handed \subseteq Plans \X Requests \X Voices
    /\ pending \subseteq Requests /\ hit \subseteq Requests
    /\ stop \in [Stops -> {"none", "cutting", "drained", "done"}]
    /\ before \in [Stops -> SUBSET Requests] /\ breaks \in 0..MaxBreaks

Init ==
    /\ call = [r \in Requests |-> NoCall] /\ row = [r \in Requests |-> "none"]
    /\ turn = NoRequest /\ heard = {} /\ signed = {} /\ handed = {}
    /\ pending = {} /\ hit = {} /\ breaks = 0
    /\ stop = [x \in Stops |-> "none"] /\ before = [x \in Stops |-> {}]

Goes(r, at) == call' = [call EXCEPT ![r].at = at]
Returns(r, at) == call' = [call EXCEPT ![r] = [at |-> at]]
Runs(r, at) == At(r) = at /\ r \notin hit
Writes(r, status) == row' = [row EXCEPT ![r] = status]

-----------------------------------------------------------------------------
(* From what was said to a plan. Lanes: the deterministic router (its      *)
(* plan may be a protected intent), Routing V2, and a model or n8n; "gate" *)
(* is the question of a gate, without steps.                               *)
HasSteps(lane) == lane \in {"task", "protected", "routed", "model_task"}

GateDeterministicForVoice(voice, found, talking, explicit) ==
    IF voice = "crowd" THEN "gate"
    ELSE IF ~HasSteps(found) \/ voice = "typed" THEN found
    ELSE IF voice = "unclear" THEN "gate"
    ELSE IF talking /\ ~explicit THEN "none" ELSE found

Routed(gated, routing) ==
    IF gated \in {"gate", "protected"} \/ routing \in {"off", "shadow"} THEN gated ELSE routing

CreatePlan(found, talking, explicit, reply) ==
    IF \/ found \in {"gate", "protected"}
       \/ found # "none" /\ (~talking \/ (explicit /\ HasSteps(found)))
    THEN found ELSE reply

GatePlannedVoiceAction(voice, lane) ==
    IF voice = "unclear" /\ HasSteps(lane) THEN "gate" ELSE lane

(* Who spoke, and the lane his plan comes from.                            *)
Lanes ==
    {<<voice, GatePlannedVoiceAction(voice,
                CreatePlan(Routed(GateDeterministicForVoice(voice, found, talking, explicit),
                                  routing), talking, explicit, reply))>> :
       voice \in Voices, found \in {"none", "talk", "task", "protected"},
       routing \in {"off", "shadow", "routed", "gate"},
       reply \in {"model_talk", "model_task"}, talking \in BOOLEAN, explicit \in BOOLEAN}

(* What the executor tells apart; _restrict_to_allowlist may ask instead.  *)
Outcomes(voice) ==
    {"gate"} \cup {"talk" : l \in {l \in Lanes : l[1] = voice /\ ~HasSteps(l[2])}}
             \cup (IF \E l \in Lanes : l[1] = voice /\ HasSteps(l[2]) THEN Plans ELSE {})

-----------------------------------------------------------------------------
Said(r, kind, voice, t) ==
    /\ call[r] = NoCall /\ (kind # "task" => voice = "typed")
    /\ call' = [call EXCEPT ![r] = [at |-> IF kind = "task" THEN "waiting" ELSE "said",
                                    kind |-> kind, voice |-> voice, text |-> t,
                                    plan |-> "talk", target |-> NoRequest]]
    /\ UNCHANGED <<row, turn, heard, signed, handed, pending, hit, stop, before, breaks>>

(* Under the lock: a text said again in the window is answered with the    *)
(* row of the first.                                                       *)
TurnDuplicate(r) ==
    /\ Runs(r, "waiting") /\ turn = NoRequest /\ call[r].text \in heard
    /\ Returns(r, "answered")
    /\ UNCHANGED <<row, turn, heard, signed, handed, pending, hit, stop, before, breaks>>

(* Mutant: the lock is not waited for.                                     *)
TurnBeginsUnlocked(r) ==
    /\ Runs(r, "waiting") /\ call[r].text \notin heard
    /\ turn' = r /\ heard' = heard \cup {call[r].text}
    /\ Goes(r, "planning") /\ Writes(r, "planning")
    /\ UNCHANGED <<signed, handed, pending, hit, stop, before, breaks>>

TurnBegins(r) ==
    /\ Runs(r, "waiting") /\ turn = NoRequest /\ call[r].text \notin heard
    /\ turn' = r /\ heard' = heard \cup {call[r].text}
    /\ Goes(r, "planning") /\ Writes(r, "planning")
    /\ UNCHANGED <<signed, handed, pending, hit, stop, before, breaks>>

(* Routing, context, the model.                                            *)
Planned(r, plan) ==
    /\ Runs(r, "planning") /\ plan \in Outcomes(call[r].voice)
    /\ call' = [call EXCEPT ![r].at = "submitting", ![r].plan = plan]
    /\ UNCHANGED <<row, turn, heard, signed, handed, pending, hit, stop, before, breaks>>

(* No provider answers: the row says so, and the exception goes up.        *)
ModelUnavailable(r) ==
    /\ Runs(r, "planning") /\ Returns(r, "raised") /\ Writes(r, "failed")
    /\ turn' = NoRequest
    /\ UNCHANGED <<heard, signed, handed, pending, hit, stop, before, breaks>>

(* Mutant: the lock is given back on the way that returns only.            *)
BreaksLocked(r) ==
    /\ Runs(r, "planning") /\ breaks < MaxBreaks /\ breaks' = breaks + 1
    /\ Returns(r, "raised")
    /\ UNCHANGED <<row, turn, heard, signed, handed, pending, hit, stop, before>>

(* Any other exception (the screen, a store): the row stays as it is.      *)
Breaks(r) ==
    /\ Runs(r, "planning") /\ breaks < MaxBreaks /\ breaks' = breaks + 1
    /\ Returns(r, "raised") /\ turn' = NoRequest
    /\ UNCHANGED <<row, heard, signed, handed, pending, hit, stop, before>>

Acts(r) == call[r].plan \in Plans

PlanDuplicate(r) ==
    /\ Runs(r, "submitting") /\ Acts(r) /\ call[r].plan \in signed
    /\ Returns(r, "done") /\ Writes(r, "rejected") /\ turn' = NoRequest
    /\ UNCHANGED <<heard, signed, handed, pending, hit, stop, before, breaks>>

(* executor.submit of a plan without steps, of one to be confirmed (it     *)
(* replaces those that wait), and of one that is queued.                   *)
SubmittedTalk(r) ==
    /\ Runs(r, "submitting") /\ ~Acts(r) /\ Goes(r, "committed")
    /\ Writes(r, IF call[r].plan = "gate" THEN "asked" ELSE "succeeded")
    /\ UNCHANGED <<turn, heard, signed, handed, pending, hit, stop, before, breaks>>

SubmittedPlan(r, risky) ==
    /\ Runs(r, "submitting") /\ Acts(r) /\ call[r].plan \notin signed /\ Goes(r, "committed")
    /\ handed' = handed \cup {<<call[r].plan, r, call[r].voice>>}
    /\ pending' = IF risky THEN {r} ELSE pending
    /\ row' = [s \in Requests |->
                 IF s = r THEN IF risky THEN "awaiting" ELSE "queued"
                 ELSE IF risky /\ s \in pending THEN "cancelled" ELSE row[s]]
    /\ UNCHANGED <<turn, heard, signed, hit, stop, before, breaks>>

TurnEnds(r) ==
    /\ Runs(r, "committed") /\ Returns(r, "done") /\ turn' = NoRequest
    /\ signed' = IF Acts(r) THEN signed \cup {call[r].plan} ELSE signed
    /\ UNCHANGED <<row, heard, handed, pending, hit, stop, before, breaks>>

(* dedupe_seconds, and three times as long for plans.                      *)
TextForgotten(t) ==
    /\ t \in heard /\ heard' = heard \ {t}
    /\ UNCHANGED <<call, row, turn, signed, handed, pending, hit, stop, before, breaks>>

PlanForgotten(p) ==
    /\ p \in signed /\ signed' = signed \ {p}
    /\ handed' = {h \in handed : h[1] # p}
    /\ UNCHANGED <<call, row, turn, heard, pending, hit, stop, before, breaks>>

-----------------------------------------------------------------------------
(* _handle_voice_confirmation: outside the lock and outside what a STOP    *)
(* cuts. The pending request, else a row that awaits.                      *)
Candidates ==
    IF pending # {} THEN pending
    ELSE {s \in Requests : row[s] \in {"awaiting", "asked"}}

ConfirmationBinds(r) ==
    /\ At(r) = "said" /\ Candidates # {}
    /\ \E target \in Candidates :
         call' = [call EXCEPT ![r].at = "bound", ![r].target = target]
    /\ UNCHANGED <<row, turn, heard, signed, handed, pending, hit, stop, before, breaks>>

(* A yes is told that nothing waits; a no is then a text like any other.   *)
ConfirmationMisses(r) ==
    /\ At(r) = "said" /\ Candidates = {}
    /\ IF call[r].kind = "yes" THEN Returns(r, "done") /\ Writes(r, "succeeded")
       ELSE Goes(r, "waiting") /\ UNCHANGED row
    /\ UNCHANGED <<turn, heard, signed, handed, pending, hit, stop, before, breaks>>

(* The target is still the one that was seen: executor.confirm.            *)
ConfirmationQueues(r) ==
    /\ At(r) = "bound" /\ call[r].kind = "yes"
    /\ LET target == call[r].target
       IN /\ row' = [row EXCEPT ![r] = "succeeded",
                                ![target] = IF @ = "awaiting" THEN "queued" ELSE @]
          /\ pending' = pending \ {target}
    /\ Returns(r, "done")
    /\ UNCHANGED <<turn, heard, signed, handed, hit, stop, before, breaks>>

(* A no, or a target that changed on the screen: executor.cancel.          *)
ConfirmationCancels(r) ==
    /\ At(r) = "bound"
    /\ row' = [row EXCEPT ![r] = "succeeded", ![call[r].target] = "cancelled"]
    /\ pending' = pending \ {call[r].target}
    /\ Returns(r, "done")
    /\ UNCHANGED <<turn, heard, signed, handed, hit, stop, before, breaks>>

(* The worker of the executor.                                             *)
Executes(r) ==
    /\ row[r] = "queued" /\ Writes(r, "succeeded")
    /\ UNCHANGED <<call, turn, heard, signed, handed, pending, hit, stop, before, breaks>>

-----------------------------------------------------------------------------
(* Mutant: a call is registered once it has the lock.                      *)
StopBeginsWithHolder(x) ==
    /\ stop[x] = "none"
    /\ stop' = [stop EXCEPT ![x] = "cutting"]
    /\ hit' = hit \cup {r \in Requests : At(r) \in Active \ {"waiting"}}
    /\ before' = [before EXCEPT ![x] = {r \in Requests : At(r) \notin {"none", "said"}}]
    /\ UNCHANGED <<call, row, turn, heard, signed, handed, pending, breaks>>

StopBegins(x) ==
    /\ stop[x] = "none"
    /\ stop' = [stop EXCEPT ![x] = "cutting"]
    /\ hit' = hit \cup {r \in Requests : At(r) \in Active}
    /\ before' = [before EXCEPT ![x] = {r \in Requests : At(r) \notin {"none", "said"}}]
    /\ UNCHANGED <<call, row, turn, heard, signed, handed, pending, breaks>>

StopDrains(x) ==
    /\ stop[x] = "cutting"
    /\ stop' = [stop EXCEPT ![x] = "drained"]
    /\ row' = [r \in Requests |->
                 IF row[r] = "queued" \/ r \in pending THEN "cancelled" ELSE row[r]]
    /\ pending' = {}
    /\ UNCHANGED <<call, turn, heard, signed, handed, hit, before, breaks>>

StopJoins(x) ==
    /\ stop[x] = "drained" /\ hit \cap before[x] = {}
    /\ stop' = [stop EXCEPT ![x] = "done"]
    /\ UNCHANGED <<call, row, turn, heard, signed, handed, pending, hit, before, breaks>>

(* CancelledError at the await: the lock goes, the handler of handle()     *)
(* begins. One that is cut itself leaves the row.                          *)
TurnCut(r) ==
    /\ r \in hit /\ hit' = hit \ {r}
    /\ turn' = IF turn = r THEN NoRequest ELSE turn
    /\ Returns(r, IF At(r) = "marking" THEN "cut" ELSE "marking")
    /\ handed' = {h \in handed : h[2] # r}
    /\ UNCHANGED <<row, heard, signed, pending, stop, before, breaks>>

MarkedCancelled(r) ==
    /\ Runs(r, "marking") /\ Returns(r, "cut")
    /\ row' = [row EXCEPT ![r] = IF @ \in {"none", "succeeded", "failed", "cancelled", "rejected"}
                                 THEN @ ELSE "cancelled"]
    /\ UNCHANGED <<turn, heard, signed, handed, pending, hit, stop, before, breaks>>

-----------------------------------------------------------------------------
TurnGoesOn(r) ==
    \/ TurnDuplicate(r) \/ TurnBegins(r) \/ ModelUnavailable(r) \/ Breaks(r)
    \/ \E plan \in Plans \cup {"gate", "talk"} : Planned(r, plan)
    \/ PlanDuplicate(r) \/ SubmittedTalk(r) \/ TurnEnds(r)
    \/ \E risky \in BOOLEAN : SubmittedPlan(r, risky)
    \/ TurnCut(r) \/ MarkedCancelled(r)

ConfirmationGoesOn(r) ==
    \/ ConfirmationBinds(r) \/ ConfirmationMisses(r)
    \/ ConfirmationQueues(r) \/ ConfirmationCancels(r)

Next ==
    \/ \E r \in Requests :
         \/ \E kind \in {"task", "yes", "no"}, voice \in Voices, t \in Texts :
              Said(r, kind, voice, t)
         \/ At(r) # "none" /\ (TurnGoesOn(r) \/ ConfirmationGoesOn(r))
         \/ Executes(r)
    \/ \E t \in Texts : TextForgotten(t)
    \/ \E p \in Plans : PlanForgotten(p)
    \/ \E x \in Stops : StopBegins(x) \/ StopDrains(x) \/ StopJoins(x)

(* The event loop runs every turn that can run; a model, a search and a    *)
(* capture of the screen have time limits.                                 *)
Fairness == \A r \in Requests : WF_turnVars(At(r) # "none" /\ TurnGoesOn(r))

Spec == Init /\ [][Next]_turnVars /\ Fairness

-----------------------------------------------------------------------------
(* A voice that was not understood well enough, or that is one of several, *)
(* gives the executor no action, whichever lane made the plan.             *)
UnclearNeverActs ==
    \A h \in handed : h[3] \in {"typed", "clear"}

(* The same plan is not handed over by two requests within the window of   *)
(* its signature, unless a STOP cut the first.                             *)
PlanRunsOnce == \A g, h \in handed : g[1] = h[1] => g = h

(* After a STOP nothing is left to run of a request that was under way     *)
(* before it: no turn goes on to submit, no spoken yes still finds a plan. *)
NothingRunsAfterStop ==
    \A x \in Stops : stop[x] \in {"drained", "done"} =>
        \A r \in before[x] : row[r] \notin {"awaiting", "queued"}

(* Every turn comes to an end, and again and again none is under way: the  *)
(* lock comes free, also after a turn that raised and after one that was   *)
(* cut.                                                                    *)
EveryTurnEnds == []<>(\A r \in Requests : At(r) \notin Active)
=============================================================================
