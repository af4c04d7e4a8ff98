------------------------------ MODULE ModelRouter ------------------------------
(***************************************************************************)
(* The lane of the language models (model_router.py): the primary planner, *)
(* then perhaps the fallback; each chooses between talking and acting, asks*)
(* its endpoint for a plan as JSON, judges the graph it gets, and asks     *)
(* again for spoken words. A behaviour is one request, for planners keep   *)
(* nothing but the name of their model; an endpoint answers anything the   *)
(* code distinguishes.                                                     *)
(***************************************************************************)
EXTENDS Naturals, Integers, Sequences, FiniteSets

CONSTANTS
    AllowedActions,     \* ids of the catalogue sent with the request
    Proposals           \* graphs of steps a model may answer with

VARIABLES
    slot,           \* the planners of "primary" and "fallback"
    asksLeave,      \* fallback_requires_allow_cloud
    query,          \* the request and what handle() gathered for it
    stage,          \* where plan() is
    who,            \* the slot that is asked
    given,          \* the context its planner keeps
    picture,        \* whether the image is still in the last message
    attempt,        \* of _conversation_plan
    proposal,       \* the graph the plan is made from
    outcome,        \* the CommandPlan
    sent            \* history: the last post

modelVars == <<slot, asksLeave, query, stage, who, given, picture, attempt,
               proposal, outcome, sent>>

Private == {"history", "memories", "screen", "image", "style"}
Kinds == {"hint", "nothing", "venice", "action", "question", "marked", "plain"}
Queries == [kind : Kinds, unsure : BOOLEAN, active : BOOLEAN, allowCloud : BOOLEAN,
            context : {Private \cup {"web"}, Private \ {"image"}}]
Planners == [provider : {"lm_studio", "other"}, loopback : BOOLEAN,
             policy : {"auto", "off", "session", "full"}]
PlanOutcomes == [intent : {"conversation", "task", "other"}, steps : Proposals \cup {<<>>},
             asks : BOOLEAN, sure : BOOLEAN]
NoOutcome == [intent |-> "none"]
AtEndpoint == {"planning", "planning again", "planning freely", "talking", "talking again"}

RouterTypeOK ==
    /\ slot \in [{"primary"} -> Planners] \cup [{"primary", "fallback"} -> Planners]
    /\ asksLeave \in BOOLEAN
    /\ query \in Queries /\ stage \in {"idle", "calling", "done", "failed"} \cup AtEndpoint
    /\ who \in DOMAIN slot /\ given \subseteq Private \cup {"web"}
    /\ picture \in BOOLEAN /\ attempt \in 1..2
    /\ proposal \in Proposals \cup {<<>>} /\ outcome \in PlanOutcomes \cup {NoOutcome}
    /\ sent.to \in DOMAIN slot /\ sent.for \in {"nothing", "plan", "talk"}
    /\ sent.data \subseteq Private \cup {"web"}

-----------------------------------------------------------------------------
AcceptsPrivateContext(p) ==
    \/ p.policy \in {"session", "full"}
    \/ p.policy = "auto" /\ p.provider = "lm_studio" /\ p.loopback

(* Mutant: what ModelRouter.plan hands over is not looked at again; it is  *)
(* the same for both.                                                      *)
KeptForPrimary(p, context) ==
    IF AcceptsPrivateContext(slot["primary"]) THEN context ELSE context \ Private

(* ModelRouter.plan and OpenAICompatiblePlanner.plan both leave it out.    *)
Kept(p, context) ==
    IF ~AcceptsPrivateContext(p) THEN context \ Private
    ELSE IF p.policy = "session" THEN context \ {"memories", "screen", "image"}
    ELSE context

InteractionMode(q) ==
    CASE q.kind \in {"hint", "action"} -> "task"
      [] q.kind = "nothing" -> "auto"
      [] q.kind = "venice" \/ q.active \/ q.kind = "question" \/ q.unsure -> "conversation"
      [] OTHER -> "auto"

(* The same validation: every action is known, every edge leads back.      *)
StepsAreValid(steps) ==
    \A i \in 1..Len(steps) :
        /\ steps[i].action \in AllowedActions
        /\ \A j, k \in 1..Len(steps[i].after) :
             /\ steps[i].after[j] \in 0..(i - 2)
             /\ j # k => steps[i].after[j] # steps[i].after[k]

(* plan() refuses a proposal as a whole, and asks instead.                 *)
ProposedSteps(steps) == IF StepsAreValid(steps) THEN steps ELSE <<>>

ShouldForceConversation(q, steps, intent, asks) ==
    /\ q.kind \notin {"hint", "nothing", "action"} /\ steps # <<>> /\ ~asks
    /\ q.unsure \/ q.kind \in {"question", "venice", "marked"} \/ intent = "plan"

NormalizeIntent(intent) == IF intent = "plan" THEN "task" ELSE intent

(* What plan() makes of an answer to the structured request.               *)
Settled(q, p) ==
    LET steps == ProposedSteps(p.steps)
        refused == ~StepsAreValid(p.steps)
        asks == refused \/ p.asks
        sure == ~refused /\ p.sure
        intent == IF refused THEN "task" ELSE p.intent
        talk == [intent |-> "conversation", steps |-> <<>>, asks |-> asks, sure |-> sure]
    IN IF InteractionMode(q) = "conversation" \/ ShouldForceConversation(q, steps, intent, asks)
       THEN talk
       ELSE IF InteractionMode(q) = "task"
       THEN [intent |-> "task", steps |-> steps, asks |-> asks \/ steps = <<>>, sure |-> sure]
       ELSE IF NormalizeIntent(intent) = "conversation" THEN talk
       ELSE [intent |-> IF steps # <<>> THEN "task" ELSE NormalizeIntent(intent),
             steps |-> steps, asks |-> asks, sure |-> sure]

-----------------------------------------------------------------------------
(* What build_services makes of the settings: LM Studio first, or Gemini   *)
(* or another cloud with LM Studio behind it.                              *)
RouterInit ==
    /\ \E policy \in {"auto", "off", "session", "full"}, near \in BOOLEAN :
         LET lm == [provider |-> "lm_studio", loopback |-> near, policy |-> policy]
             cloud == [provider |-> "other", loopback |-> FALSE, policy |-> policy]
         IN \/ /\ slot \in {[k \in {"primary"} |-> lm],
                            [k \in {"primary", "fallback"} |-> IF k = "primary" THEN lm ELSE cloud]}
               /\ asksLeave = TRUE
            \/ /\ slot = [k \in {"primary", "fallback"} |-> IF k = "primary" THEN cloud ELSE lm]
               /\ asksLeave = FALSE
    /\ query \in Queries
    /\ stage = "idle" /\ who = "primary" /\ given = {} /\ picture = FALSE /\ attempt = 1
    /\ proposal = <<>> /\ outcome = NoOutcome
    /\ sent = [to |-> "primary", for |-> "nothing", data |-> {}]

Calls(name) == who' = name /\ stage' = "calling" /\ given' = {}

(* The cloud argument of ModelRouter may be absent.                        *)
FallbackAllowed == "fallback" \in DOMAIN slot /\ (query.allowCloud \/ ~asksLeave)

Asked ==
    /\ stage = "idle" /\ Calls("primary")
    /\ UNCHANGED <<slot, asksLeave, query, picture, attempt, proposal, outcome, sent>>

(* resolve_model answers.                                                  *)
PlannerBegins ==
    /\ stage = "calling"
    /\ given' = Kept(slot[who], query.context)
    /\ picture' = ("image" \in given') /\ attempt' = 1
    /\ stage' = IF InteractionMode(query) = "conversation" THEN "talking" ELSE "planning"
    /\ UNCHANGED <<slot, asksLeave, query, who, proposal, outcome, sent>>

(* ModelUnavailableError, ModelProtocolError: a failure of the primary     *)
(* goes on to the fallback, one of the fallback is raised.                 *)
Unavailable ==
    IF who = "primary" /\ FallbackAllowed THEN Calls("fallback")
    ELSE stage' = "failed" /\ UNCHANGED <<who, given>>

NoModelLoaded ==
    /\ stage = "calling" /\ Unavailable
    /\ UNCHANGED <<slot, asksLeave, query, picture, attempt, proposal, outcome, sent>>

(* Web results go to the call that only talks.                             *)
Posts(purpose) ==
    sent' = [to |-> who, for |-> purpose,
        data |-> given \ ((IF picture THEN {} ELSE {"image"})
                          \cup (IF purpose = "plan" THEN {"web"} ELSE {}))]

(* The plan of the primary is returned unless it is unsure of a task and   *)
(* the fallback may be asked.                                              *)
Delivers(plan) ==
    IF /\ who = "primary" /\ FallbackAllowed
       /\ ~plan.sure /\ ~query.active /\ plan.intent # "conversation"
    THEN Calls("fallback") /\ UNCHANGED outcome
    ELSE stage' = "done" /\ outcome' = plan /\ UNCHANGED <<who, given>>

PlanPosted(now, then) ==
    /\ stage = now /\ stage' = then /\ Posts("plan")
    /\ UNCHANGED <<slot, asksLeave, query, who, given, attempt, proposal, outcome>>

(* 400 with an image: once more without it, for the rest of the request.   *)
ImageRefused == "image" \in given /\ PlanPosted("planning", "planning again") /\ picture' = FALSE

(* 400 of a grammar LM Studio cannot start: the schema goes into the text. *)
GrammarRefused ==
    /\ UNCHANGED picture
    /\ \/ "image" \notin given /\ PlanPosted("planning", "planning freely")
       \/ PlanPosted("planning again", "planning freely")

PlanningFails ==
    /\ stage \in {"planning", "planning again", "planning freely"}
    /\ Posts("plan") /\ Unavailable
    /\ UNCHANGED <<slot, asksLeave, query, picture, attempt, proposal, outcome>>

(* finish_reason stop and JSON that parses, perhaps loosely. A talk goes   *)
(* to a call of its own, which puts the image back.                        *)
Proposed(p) ==
    /\ stage \in {"planning", "planning again", "planning freely"} /\ Posts("plan")
    /\ LET plan == Settled(query, p)
       IN IF plan.intent = "conversation"
          THEN /\ stage' = "talking" /\ picture' = ("image" \in given) /\ attempt' = 1
               /\ proposal' = <<>> /\ UNCHANGED <<who, given, outcome>>
          ELSE /\ proposal' = p.steps /\ Delivers(plan) /\ UNCHANGED <<picture, attempt>>
    /\ UNCHANGED <<slot, asksLeave, query>>

-----------------------------------------------------------------------------
TalkImageRefused ==
    /\ stage = "talking" /\ "image" \in given
    /\ stage' = "talking again" /\ picture' = FALSE /\ Posts("talk")
    /\ UNCHANGED <<slot, asksLeave, query, who, given, attempt, proposal, outcome>>

TalkFails ==
    /\ stage \in {"talking", "talking again"} /\ Posts("talk") /\ Unavailable
    /\ UNCHANGED <<slot, asksLeave, query, picture, attempt, proposal, outcome>>

(* Cut, an artifact of the protocol, too long, or no complete sentence: a  *)
(* second budget, then ModelProtocolError.                                 *)
ReplyUnusable ==
    /\ stage \in {"talking", "talking again"} /\ Posts("talk")
    /\ IF attempt = 1 THEN attempt' = 2 /\ stage' = "talking" /\ UNCHANGED <<who, given>>
       ELSE Unavailable /\ UNCHANGED attempt
    /\ UNCHANGED <<slot, asksLeave, query, picture, proposal, outcome>>

Spoken ==
    /\ stage \in {"talking", "talking again"} /\ Posts("talk") /\ proposal' = <<>>
    /\ Delivers([intent |-> "conversation", steps |-> <<>>, asks |-> FALSE, sure |-> TRUE])
    /\ UNCHANGED <<slot, asksLeave, query, picture, attempt>>

ProposedPlans == [intent : {"conversation", "task", "plan", "other"}, steps : Proposals,
                  asks : BOOLEAN, sure : BOOLEAN]

RouterNext ==
    \/ Asked \/ PlannerBegins \/ NoModelLoaded \/ ImageRefused \/ GrammarRefused
    \/ PlanningFails \/ \E p \in ProposedPlans : Proposed(p)
    \/ TalkImageRefused \/ TalkFails \/ ReplyUnusable \/ Spoken

RouterSpec == RouterInit /\ [][RouterNext]_modelVars

-----------------------------------------------------------------------------
(* Private context reaches only an endpoint whose policy accepts it, on    *)
(* every way a request can take: the fallback, the repair without an image,*)
(* the free form and the spoken reply. Results of the web reach no call    *)
(* that chooses actions, and the fallback is asked only with leave.        *)
ContextStaysWhereAllowed ==
    /\ sent.data \cap Private # {} => AcceptsPrivateContext(slot[sent.to])
    /\ sent.data \cap {"memories", "screen", "image"} # {} => slot[sent.to].policy # "session"
    /\ sent.for = "plan" => "web" \notin sent.data
    /\ sent.to = "fallback" => query.allowCloud \/ ~asksLeave

(* A plan holds every step the model proposed, each a known action that    *)
(* waits for earlier steps only, or it holds none: no part of a command is *)
(* dropped to run the rest.                                                *)
PlanIsWhole ==
    stage = "done" /\ outcome.steps # <<>> =>
        outcome.steps = proposal /\ StepsAreValid(proposal)
=============================================================================
