---------------------------- MODULE ServicesProofs ----------------------------
(***************************************************************************)
(* What the components of MCServices promise, for every value of their     *)
(* constants, one section per component; and that their composition keeps  *)
(* it, whichever component is in focus.                                    *)
(***************************************************************************)
EXTENDS MCServices, DesktopProofs, TLAPS, FiniteSetTheorems, SequenceTheorems, WellFoundedInduction

(***************************************************************************)
(* AssistantTurns: a plan is handed over once and only on words that were  *)
(* understood, and a STOP leaves nothing to run.                           *)
(***************************************************************************)
Holding == {"planning", "submitting", "committed"}
(* The coroutine of a request that is told something, and one of a request *)
(* that is over, or that was not made.                                     *)
UnderWay == [at : {"waiting", "said", "bound"} \cup Holding, kind : {"task", "yes", "no"},
           voice : Voices, text : Texts, plan : Plans \cup {"gate", "talk"},
           target : Requests \cup {NoRequest}]
Over == [at : {"none", "marking"} \cup Ended]

CallShape ==
    /\ call \in [Requests -> UnderWay \cup Over]
    /\ \A r \in Requests : At(r) = "bound" => call[r].target \in Requests

(* The lock has one holder, and whoever is between taking and giving it    *)
(* back is that one.                                                       *)
LockIsHeld == \A r \in Requests : turn = r <=> At(r) \in Holding
HitAreActive == \A r \in hit : At(r) \in Active
PlansAreUnderstood ==
    \A r \in Requests : call[r] \in UnderWay /\ Acts(r) => call[r].voice \in {"typed", "clear"}
HandedIsSigned ==
    \A h \in handed : h[1] \in signed \/ (At(h[2]) = "committed" /\ call[h[2]].plan = h[1])
AwaitingIsPending == \A r \in Requests : row[r] = "awaiting" => r \in pending
(* A request that had come before a STOP is still to be cut, or past       *)
(* submitting.                                                             *)
StoppedIsCut ==
    \A x \in Stops : stop[x] # "none" =>
        \A r \in before[x] : r \in hit \/ At(r) \in {"bound", "marking"} \cup Ended

TurnInv ==
    /\ TurnTypeOK /\ CallShape /\ LockIsHeld /\ HitAreActive /\ PlansAreUnderstood
    /\ HandedIsSigned /\ AwaitingIsPending /\ StoppedIsCut
    /\ PlanRunsOnce /\ UnclearNeverActs /\ NothingRunsAfterStop

(* No lane gives steps to a voice that is not understood.                  *)
LEMMA NoLaneForUnclear ==
    ASSUME NEW voice \in Voices, NEW lane, <<voice, lane>> \in Lanes, HasSteps(lane)
    PROVE  voice \in {"typed", "clear"}
<1>. SUFFICES ASSUME voice \in {"unclear", "crowd"} PROVE FALSE
  BY DEF Voices
<1>1. PICK found \in {"none", "talk", "task", "protected"},
           routing \in {"off", "shadow", "routed", "gate"},
           reply \in {"model_talk", "model_task"},
           talking \in BOOLEAN, explicit \in BOOLEAN :
        lane = GatePlannedVoiceAction(voice,
                 CreatePlan(Routed(GateDeterministicForVoice(voice, found, talking, explicit),
                                   routing), talking, explicit, reply))
  BY DEF Lanes
<1>2. CASE voice = "unclear"
  BY <1>1, <1>2 DEF GatePlannedVoiceAction, HasSteps
<1>3. CASE voice = "crowd"
  <2>1. Routed(GateDeterministicForVoice(voice, found, talking, explicit), routing) = "gate"
    BY <1>3 DEF GateDeterministicForVoice, Routed
  <2>2. lane = "gate"
    BY <1>1, <1>3, <2>1 DEF CreatePlan, GatePlannedVoiceAction
  <2>. QED BY <2>2 DEF HasSteps
<1>. QED BY <1>2, <1>3

LEMMA PlanOfOutcome ==
    ASSUME NEW voice \in Voices, NEW made \in Outcomes(voice), made \in Plans
    PROVE  voice \in {"typed", "clear"}
<1>1. PICK l \in Lanes : l[1] = voice /\ HasSteps(l[2])
  BY TurnAssumption DEF Outcomes
<1>2. l = <<voice, l[2]>>
  BY <1>1 DEF Lanes
<1>. QED BY <1>1, <1>2, NoLaneForUnclear

LEMMA TurnInit == Init => TurnInv
BY TurnAssumption DEF Init, TurnInv, TurnTypeOK, CallShape, LockIsHeld, HitAreActive, PlansAreUnderstood,
       HandedIsSigned, AwaitingIsPending, StoppedIsCut, PlanRunsOnce, UnclearNeverActs,
       NothingRunsAfterStop, NoCall, At, Over, UnderWay, Holding, Active, Ended

LEMMA TurnNext == TurnInv /\ [Next]_turnVars => TurnInv'
<1>. SUFFICES ASSUME TurnInv, [Next]_turnVars PROVE TurnInv'
  OBVIOUS
<1>. USE DEF TurnInv, TurnTypeOK, CallShape, LockIsHeld, HitAreActive, PlansAreUnderstood,
        HandedIsSigned, AwaitingIsPending, StoppedIsCut, PlanRunsOnce, UnclearNeverActs,
        NothingRunsAfterStop, NoCall, At, Over, UnderWay, Holding, Active, Ended
<1>. USE TurnAssumption
<1>1. ASSUME NEW r \in Requests, NEW kind \in {"task", "yes", "no"}, NEW voice \in Voices, NEW t \in Texts, Said(r, kind, voice, t) PROVE TurnInv'
  BY <1>1 DEF Said, Acts
<1>2. ASSUME NEW r \in Requests, TurnDuplicate(r) PROVE TurnInv'
  BY <1>2 DEF TurnDuplicate, Runs, Returns, Acts
<1>3. ASSUME NEW r \in Requests, TurnBegins(r) PROVE TurnInv'
  BY <1>3 DEF TurnBegins, Runs, Goes, Writes, Acts
<1>4. ASSUME NEW r \in Requests, ModelUnavailable(r) PROVE TurnInv'
  BY <1>4 DEF ModelUnavailable, Runs, Returns, Writes, Acts
<1>5. ASSUME NEW r \in Requests, Breaks(r) PROVE TurnInv'
  BY <1>5 DEF Breaks, Runs, Returns, Acts
<1>6. ASSUME NEW r \in Requests, NEW made \in Plans \cup {"gate", "talk"}, Planned(r, made) PROVE TurnInv'
  <2>1. call[r] \in UnderWay /\ At(r) = "planning" /\ r \notin hit /\ made \in Outcomes(call[r].voice)
    BY <1>6 DEF Planned, Runs
  <2>2. made \in Plans => call[r].voice \in {"typed", "clear"}
    BY <2>1, PlanOfOutcome
  <2>3. /\ call' = [call EXCEPT ![r].at = "submitting", ![r].plan = made]
        /\ UNCHANGED <<row, turn, heard, signed, handed, pending, hit, stop, before, breaks>>
    BY <1>6 DEF Planned
  <2>. DEFINE new == [call[r] EXCEPT !.at = "submitting", !.plan = made]
  <2>4. call' = [call EXCEPT ![r] = new]
    BY <2>3
  <2>5. /\ new \in UnderWay /\ new.at = "submitting" /\ new.plan = made
        /\ new.voice = call[r].voice
    BY <2>1
  <2>. HIDE DEF new
  <2>6. \A s \in Requests : call'[s] = IF s = r THEN new ELSE call[s]
    BY <2>4
  <2>7. CallShape'
    <3>1. call' \in [Requests -> UnderWay \cup Over]
      BY <2>4, <2>5, Zenon DEF TurnInv
    <3>. QED BY <2>5, <2>6, <3>1
  <2>10. LockIsHeld' /\ HitAreActive' /\ AwaitingIsPending' /\ StoppedIsCut'
    BY <2>1, <2>3, <2>5, <2>6
  <2>8. PlansAreUnderstood'
    BY <2>2, <2>5, <2>6 DEF Acts
  <2>9. HandedIsSigned'
    BY <2>1, <2>3, <2>5, <2>6
  <2>. QED BY <2>3, <2>5, <2>6, <2>7, <2>8, <2>9, <2>10
<1>7. ASSUME NEW r \in Requests, PlanDuplicate(r) PROVE TurnInv'
  BY <1>7 DEF PlanDuplicate, Runs, Returns, Writes, Acts
<1>8. ASSUME NEW r \in Requests, SubmittedTalk(r) PROVE TurnInv'
  BY <1>8 DEF SubmittedTalk, Runs, Goes, Writes, Acts
<1>9. ASSUME NEW r \in Requests, NEW risky \in BOOLEAN, SubmittedPlan(r, risky) PROVE TurnInv'
  BY <1>9 DEF SubmittedPlan, Runs, Goes, Acts
<1>10. ASSUME NEW r \in Requests, TurnEnds(r) PROVE TurnInv'
  BY <1>10 DEF TurnEnds, Runs, Returns, Acts
<1>11. ASSUME NEW r \in Requests, TurnCut(r) PROVE TurnInv'
  BY <1>11 DEF TurnCut, Returns, Acts
<1>12. ASSUME NEW r \in Requests, MarkedCancelled(r) PROVE TurnInv'
  BY <1>12 DEF MarkedCancelled, Runs, Returns, Acts
<1>13. ASSUME NEW r \in Requests, ConfirmationBinds(r) PROVE TurnInv'
  <2>1. call[r] \in UnderWay /\ At(r) = "said"
    BY <1>13 DEF ConfirmationBinds
  <2>2. Candidates \subseteq Requests
    BY DEF Candidates
  <2>3. PICK target \in Candidates : 
          call' = [call EXCEPT ![r].at = "bound", ![r].target = target]
    BY <1>13 DEF ConfirmationBinds
  <2>4. UNCHANGED <<row, turn, heard, signed, handed, pending, hit, stop, before, breaks>>
    BY <1>13 DEF ConfirmationBinds
  <2>. DEFINE new == [call[r] EXCEPT !.at = "bound", !.target = target]
  <2>5. call' = [call EXCEPT ![r] = new]
    BY <2>3
  <2>6. /\ new \in UnderWay /\ new.at = "bound" /\ new.target = target /\ target \in Requests
        /\ new.plan = call[r].plan /\ new.voice = call[r].voice
    BY <2>1, <2>2
  <2>. HIDE DEF new
  <2>. QED BY <2>1, <2>4, <2>5, <2>6 DEF Acts
<1>14. ASSUME NEW r \in Requests, ConfirmationMisses(r) PROVE TurnInv'
  BY <1>14 DEF ConfirmationMisses, Returns, Writes, Goes, Acts
<1>15. ASSUME NEW r \in Requests, ConfirmationQueues(r) PROVE TurnInv'
  BY <1>15 DEF ConfirmationQueues, Returns, Acts
<1>16. ASSUME NEW r \in Requests, ConfirmationCancels(r) PROVE TurnInv'
  BY <1>16 DEF ConfirmationCancels, Returns, Acts
<1>17. ASSUME NEW r \in Requests, Executes(r) PROVE TurnInv'
  BY <1>17 DEF Executes, Writes, Acts
<1>18. ASSUME NEW t \in Texts, TextForgotten(t) PROVE TurnInv'
  BY <1>18 DEF TextForgotten, Acts
<1>19. ASSUME NEW p \in Plans, PlanForgotten(p) PROVE TurnInv'
  BY <1>19 DEF PlanForgotten, Acts
<1>20. ASSUME NEW x \in Stops, StopBegins(x) PROVE TurnInv'
  BY <1>20 DEF StopBegins, Acts
<1>21. ASSUME NEW x \in Stops, StopDrains(x) PROVE TurnInv'
  BY <1>21 DEF StopDrains, Acts
<1>22. ASSUME NEW x \in Stops, StopJoins(x) PROVE TurnInv'
  BY <1>22 DEF StopJoins, Acts
<1>23. CASE UNCHANGED turnVars
  BY <1>23 DEF turnVars, Acts
<1>. HIDE DEF TurnInv
<1>24. ASSUME NEW r \in Requests, TurnGoesOn(r) PROVE TurnInv'
  BY <1>2, <1>3, <1>4, <1>5, <1>6, <1>7, <1>8, <1>9, <1>10, <1>11, <1>12, <1>24, Zenon DEF TurnGoesOn
<1>25. ASSUME NEW r \in Requests, ConfirmationGoesOn(r) PROVE TurnInv'
  BY <1>13, <1>14, <1>15, <1>16, <1>25, Zenon DEF ConfirmationGoesOn
<1>. QED
  BY <1>1, <1>17, <1>18, <1>19, <1>20, <1>21, <1>22, <1>23, <1>24, <1>25, Zenon DEF Next

(* After a STOP nothing is left to run of a request that had come before:  *)
(* whoever was under way is cut before it can submit, and what waited for a*)
(* confirmation was drained.                                               *)
THEOREM StopLeavesNothing == Spec => []NothingRunsAfterStop
<1>1. TurnInv => NothingRunsAfterStop
  BY DEF TurnInv
<1> QED BY <1>1, TurnInit, TurnNext, PTL DEF Spec

(***************************************************************************)
(* ModelRouter: where private context goes, and that a plan is run whole,  *)
(* for every catalogue of actions and every graph a model may answer with. *)
(* Nothing is assumed of the constants.                                    *)
(***************************************************************************)
(* The fallback is asked with leave only, and a planner at its endpoint    *)
(* holds what its policy lets it keep.                                     *)
KeepsOnlyAllowed ==
    /\ who = "fallback" => query.allowCloud \/ ~asksLeave
    /\ stage \in AtEndpoint => given = Kept(slot[who], query.context)

ContextInv == KeepsOnlyAllowed /\ ContextStaysWhereAllowed

-----------------------------------------------------------------------------
LEMMA ContextInit == RouterInit => ContextInv
BY DEF RouterInit, ContextInv, KeepsOnlyAllowed, ContextStaysWhereAllowed, AtEndpoint

(* What is kept for a planner is what its policy allows it.                *)
LEMMA KeptIsAllowed ==
    ASSUME NEW p, NEW context
    PROVE  /\ Kept(p, context) \cap Private # {} => AcceptsPrivateContext(p)
           /\ Kept(p, context) \cap {"memories", "screen", "image"} # {} => p.policy # "session"
BY DEF Kept, Private, AcceptsPrivateContext

(* Every post is made of what was kept.                                    *)
LEMMA PostIsAllowed ==
    ASSUME ContextInv, stage \in AtEndpoint, NEW purpose \in {"plan", "talk"}, Posts(purpose),
           UNCHANGED <<slot, asksLeave, query>>
    PROVE  ContextStaysWhereAllowed'
<1>1. sent'.to = who /\ sent'.for = purpose /\ sent'.data \subseteq Kept(slot[who], query.context)
      /\ (purpose = "plan" => "web" \notin sent'.data)
  BY DEF Posts, ContextInv, KeepsOnlyAllowed
<1> QED BY <1>1, KeptIsAllowed DEF ContextStaysWhereAllowed, ContextInv, KeepsOnlyAllowed

(* A step that ends the call of a planner, or begins that of the next one. *)
LEMMA NextPlanner ==
    ASSUME ContextInv, UNCHANGED <<slot, asksLeave, query>>,
           \/ FallbackAllowed /\ Calls("fallback")
           \/ stage' \in {"failed", "done"} /\ UNCHANGED <<who, given>>
    PROVE  KeepsOnlyAllowed'
BY DEF ContextInv, KeepsOnlyAllowed, FallbackAllowed, Calls, AtEndpoint

LEMMA UnavailableIsNext ==
    ASSUME Unavailable
    PROVE  \/ FallbackAllowed /\ Calls("fallback")
           \/ stage' \in {"failed", "done"} /\ UNCHANGED <<who, given>>
BY DEF Unavailable

LEMMA DeliversIsNext ==
    ASSUME NEW made, Delivers(made)
    PROVE  \/ FallbackAllowed /\ Calls("fallback")
           \/ stage' \in {"failed", "done"} /\ UNCHANGED <<who, given>>
BY DEF Delivers

LEMMA ContextNext == ContextInv /\ [RouterNext]_modelVars => ContextInv'
<1> SUFFICES ASSUME ContextInv, [RouterNext]_modelVars PROVE ContextInv'
  OBVIOUS
<1>1. CASE Asked
  BY <1>1 DEF Asked, Calls, ContextInv, KeepsOnlyAllowed, ContextStaysWhereAllowed, AtEndpoint
<1>2. CASE PlannerBegins
  BY <1>2 DEF PlannerBegins, ContextInv, KeepsOnlyAllowed, ContextStaysWhereAllowed
<1>3. CASE NoModelLoaded
  <2>1. UNCHANGED <<slot, asksLeave, query, sent>> /\ Unavailable
    BY <1>3 DEF NoModelLoaded
  <2>2. KeepsOnlyAllowed'
    BY <2>1, UnavailableIsNext, NextPlanner
  <2> QED BY <2>1, <2>2 DEF ContextInv, ContextStaysWhereAllowed
<1>4. ASSUME NEW now \in AtEndpoint, NEW then \in AtEndpoint, PlanPosted(now, then)
      PROVE  ContextInv'
  <2>1. stage \in AtEndpoint /\ Posts("plan") /\ UNCHANGED <<slot, asksLeave, query, who, given>>
    BY <1>4 DEF PlanPosted
  <2>2. ContextStaysWhereAllowed'
    BY <2>1, PostIsAllowed
  <2> QED BY <2>1, <2>2 DEF ContextInv, KeepsOnlyAllowed
<1>5. CASE ImageRefused
  BY <1>4, <1>5 DEF ImageRefused, AtEndpoint
<1>6. CASE GrammarRefused
  BY <1>4, <1>6 DEF GrammarRefused, AtEndpoint
<1>7. CASE PlanningFails
  <2>1. stage \in AtEndpoint /\ Posts("plan") /\ Unavailable /\ UNCHANGED <<slot, asksLeave, query>>
    BY <1>7 DEF PlanningFails, AtEndpoint
  <2> QED BY <2>1, PostIsAllowed, UnavailableIsNext, NextPlanner DEF ContextInv
<1>8. ASSUME NEW p \in ProposedPlans, Proposed(p) PROVE ContextInv'
  <2>1. stage \in AtEndpoint /\ Posts("plan") /\ UNCHANGED <<slot, asksLeave, query>>
    BY <1>8 DEF Proposed, AtEndpoint
  <2>2. ContextStaysWhereAllowed'
    BY <2>1, PostIsAllowed
  <2>3. CASE Settled(query, p).intent = "conversation"
    <3>1. UNCHANGED <<slot, query, asksLeave, who, given>>
      BY <1>8, <2>1, <2>3 DEF Proposed
    <3> QED BY <2>1, <2>2, <3>1 DEF ContextInv, KeepsOnlyAllowed
  <2>4. CASE Settled(query, p).intent # "conversation"
    <3>1. Delivers(Settled(query, p))
      BY <1>8, <2>4 DEF Proposed
    <3> QED BY <2>1, <2>2, <3>1, DeliversIsNext, NextPlanner DEF ContextInv
  <2> QED BY <2>3, <2>4
<1>9. CASE TalkImageRefused
  <2>1. stage \in AtEndpoint /\ Posts("talk") /\ UNCHANGED <<slot, asksLeave, query, who, given>>
    BY <1>9 DEF TalkImageRefused, AtEndpoint
  <2>2. ContextStaysWhereAllowed'
    BY <2>1, PostIsAllowed
  <2> QED BY <2>1, <2>2 DEF ContextInv, KeepsOnlyAllowed
<1>10. CASE TalkFails
  <2>1. stage \in AtEndpoint /\ Posts("talk") /\ Unavailable /\ UNCHANGED <<slot, asksLeave, query>>
    BY <1>10 DEF TalkFails, AtEndpoint
  <2> QED BY <2>1, PostIsAllowed, UnavailableIsNext, NextPlanner DEF ContextInv
<1>11. CASE ReplyUnusable
  <2>1. stage \in AtEndpoint /\ Posts("talk") /\ UNCHANGED <<slot, asksLeave, query>>
    BY <1>11 DEF ReplyUnusable, AtEndpoint
  <2>2. ContextStaysWhereAllowed'
    BY <2>1, PostIsAllowed
  <2>3. CASE attempt = 1
    <3>1. UNCHANGED <<slot, query, asksLeave, who, given>>
      BY <1>11, <2>1, <2>3 DEF ReplyUnusable
    <3> QED BY <2>1, <2>2, <3>1 DEF ContextInv, KeepsOnlyAllowed
  <2>4. CASE attempt # 1
    <3>1. Unavailable
      BY <1>11, <2>4 DEF ReplyUnusable
    <3> QED BY <2>1, <2>2, <3>1, UnavailableIsNext, NextPlanner DEF ContextInv
  <2> QED BY <2>3, <2>4
<1>12. CASE Spoken
  <2>1. stage \in AtEndpoint /\ Posts("talk") /\ UNCHANGED <<slot, asksLeave, query>>
    BY <1>12 DEF Spoken, AtEndpoint
  <2>2. KeepsOnlyAllowed'
    BY <1>12, <2>1, DeliversIsNext, NextPlanner DEF Spoken
  <2> QED BY <2>1, <2>2, PostIsAllowed DEF ContextInv
<1>13. CASE UNCHANGED modelVars
  BY <1>13 DEF modelVars, ContextInv, KeepsOnlyAllowed, ContextStaysWhereAllowed
<1> QED BY <1>1, <1>2, <1>3, <1>5, <1>6, <1>7, <1>8, <1>9, <1>10, <1>11, <1>12, <1>13 DEF RouterNext

(* Memories, screen and picture reach only an endpoint whose policy takes  *)
(* them, on every way of a request through repairs and the fallback.       *)
THEOREM ContextStays == RouterSpec => []ContextStaysWhereAllowed
<1>1. ContextInv => ContextStaysWhereAllowed
  BY DEF ContextInv
<1> QED BY <1>1, ContextInit, ContextNext, PTL DEF RouterSpec

-----------------------------------------------------------------------------
(* The steps of a settled plan are the whole graph, valid, or none.        *)
LEMMA SettledIsWhole ==
    ASSUME NEW p \in ProposedPlans
    PROVE  LET made == Settled(query, p)
           IN made.steps # <<>> => made.steps = p.steps /\ StepsAreValid(p.steps)
<1>1. ProposedSteps(p.steps) # <<>> =>
        ProposedSteps(p.steps) = p.steps /\ StepsAreValid(p.steps)
  BY DEF ProposedSteps
<1>2. Settled(query, p).steps \in {<<>>, ProposedSteps(p.steps)}
  BY DEF Settled
<1> QED BY <1>1, <1>2

LEMMA DeliveredIsWhole ==
    ASSUME NEW made, Delivers(made), stage # "done",
           made.steps # <<>> => made.steps = proposal' /\ StepsAreValid(proposal')
    PROVE  PlanIsWhole'
BY DEF Delivers, Calls, PlanIsWhole

LEMMA WholeNext == PlanIsWhole /\ [RouterNext]_modelVars => PlanIsWhole'
<1> SUFFICES ASSUME PlanIsWhole, [RouterNext]_modelVars PROVE PlanIsWhole'
  OBVIOUS
<1>1. ASSUME NEW p \in ProposedPlans, Proposed(p) PROVE PlanIsWhole'
  <2>1. CASE Settled(query, p).intent = "conversation"
    BY <1>1, <2>1 DEF Proposed, PlanIsWhole
  <2>2. CASE Settled(query, p).intent # "conversation"
    <3>1. Delivers(Settled(query, p)) /\ proposal' = p.steps /\ stage # "done"
      BY <1>1, <2>2 DEF Proposed
    <3> QED BY <3>1, SettledIsWhole, DeliveredIsWhole
  <2> QED BY <2>1, <2>2
<1>2. CASE Spoken
  <2> DEFINE talk == [intent |-> "conversation", steps |-> <<>>, asks |-> FALSE, sure |-> TRUE]
  <2>1. Delivers(talk) /\ stage # "done" /\ talk.steps = <<>>
    BY <1>2 DEF Spoken
  <2> HIDE DEF talk
  <2> QED BY <2>1, DeliveredIsWhole
<1>3. CASE Asked \/ PlannerBegins \/ NoModelLoaded \/ ImageRefused \/ GrammarRefused
  BY <1>3 DEF Asked, PlannerBegins, NoModelLoaded, ImageRefused, GrammarRefused, PlanPosted,
              Unavailable, Calls, PlanIsWhole
<1>4. CASE PlanningFails \/ TalkImageRefused \/ TalkFails \/ ReplyUnusable
  BY <1>4 DEF PlanningFails, TalkImageRefused, TalkFails, ReplyUnusable, Unavailable, Calls,
              PlanIsWhole
<1>5. CASE UNCHANGED modelVars
  BY <1>5 DEF modelVars, PlanIsWhole
<1> QED BY <1>1, <1>2, <1>3, <1>4, <1>5 DEF RouterNext

(* A graph with an unknown action or an edge that leads forward is run     *)
(* in no part; one that is run is run as it was proposed.                  *)
THEOREM PlansStayWhole == RouterSpec => []PlanIsWhole
<1>1. RouterInit => PlanIsWhole
  BY DEF RouterInit, PlanIsWhole
<1> QED BY <1>1, WholeNext, PTL DEF RouterSpec

(***************************************************************************)
(* CapabilityIndex: the index a process ends its start with is its own,    *)
(* whole and of one model, for every set of catalogues and models; NoPoint *)
(* is assumed to be no point.                                              *)
(***************************************************************************)
NoPointIsNone ==
    \A c \in Catalogues, m \in Models, d \in Dimensions :
        NoPoint # [of |-> c, by |-> m, size |-> d]

(* A point stands under an action of the catalogue that made it, in a      *)
(* vector of the size of the model that made it.                           *)
PointsAreGenuine ==
    /\ points = [a \in Actions |-> points[a]]
    /\ \A a \in Actions : points[a] # NoPoint =>
         /\ a \in points[a].of
         /\ points[a].size = DimensionOf(points[a].by)

(* What the steps of start() have reached.                                 *)
StartHasReached ==
    /\ start = "upserting" => collection = DimensionOf(model)
    /\ start = "pruning" => \A a \in catalogue : points[a] = Own(DimensionOf(model))
    /\ IndexIsWhole

IndexInv ==
    /\ catalogue \in Catalogues /\ model \in Models /\ collection \in Dimensions \cup {0}
    /\ PointsAreGenuine
    /\ StartHasReached

-----------------------------------------------------------------------------
LEMMA IndexInit == CatalogueInit => IndexInv
BY DEF CatalogueInit, IndexInv, PointsAreGenuine, StartHasReached, IndexIsWhole

(* What an upsert that arrives in part leaves is genuine as well.          *)
LEMMA WrittenIsGenuine ==
    ASSUME IndexInv, start = "upserting", NEW S \in SUBSET catalogue, points' = Written(S)
    PROVE  /\ PointsAreGenuine'
           /\ \A a \in S : points'[a] = Own(DimensionOf(model))
<1>1. \A a \in Actions : points'[a] = IF a \in S THEN Own(collection) ELSE points[a]
  BY DEF Written
<1>2. collection = DimensionOf(model) /\ S \subseteq Actions
  BY DEF IndexInv, StartHasReached, Actions
<1>3. Own(collection).of = catalogue /\ Own(collection).by = model
      /\ Own(collection).size = collection
  BY DEF Own
<1>4. points' = [a \in Actions |-> points'[a]]
  BY DEF Written
<1> QED BY <1>1, <1>2, <1>3, <1>4 DEF IndexInv, PointsAreGenuine

LEMMA IndexNext ==
    ASSUME NoPointIsNone, IndexInv, [CatalogueNext]_indexVars
    PROVE  IndexInv'
<1>1. ASSUME NEW c \in Catalogues, NEW m \in Models, ProcessBegins(c, m) PROVE IndexInv'
  BY <1>1 DEF ProcessBegins, IndexInv, PointsAreGenuine, StartHasReached, IndexIsWhole
<1>2. CASE PrepareExisting
  <2>1. IndexInv /\ start' \in {"pruning", "embedding"}
        /\ UNCHANGED <<catalogue, model, collection, points>>
    BY <1>2 DEF PrepareExisting
  <2>2. PointsAreGenuine'
    BY <2>1 DEF IndexInv, PointsAreGenuine
  <2>3. ASSUME start' = "pruning", NEW a \in catalogue
        PROVE  points[a] = Own(DimensionOf(model))
    <3>1. points[a] = Own(collection) /\ collection # 0 /\ a \in Actions
      BY <1>2, <2>1, <2>3 DEF PrepareExisting, CatalogPayloadIsCurrent, IndexInv, Actions
    <3>2. points[a] # NoPoint
      BY <3>1, <2>1 DEF NoPointIsNone, IndexInv, Own
    <3> QED BY <3>1, <3>2, <2>1 DEF IndexInv, PointsAreGenuine, Own
  <2> QED BY <2>1, <2>2, <2>3 DEF IndexInv, StartHasReached, IndexIsWhole, Own
<1>3. CASE EnsureCollection
  BY <1>3 DEF EnsureCollection, IndexInv, PointsAreGenuine, StartHasReached, IndexIsWhole,
              DimensionOf, Dimensions
<1>4. CASE Upserted
  <2>1. catalogue \in SUBSET catalogue /\ start = "upserting" /\ start' = "pruning"
        /\ points' = Written(catalogue) /\ UNCHANGED <<catalogue, model, collection>>
    BY <1>4 DEF Upserted
  <2>2. PointsAreGenuine' /\ \A a \in catalogue : points'[a] = Own(DimensionOf(model))
    BY <2>1, WrittenIsGenuine
  <2> QED BY <2>1, <2>2 DEF IndexInv, StartHasReached, IndexIsWhole, Own
<1>5. ASSUME NEW S \in SUBSET catalogue, UpsertCut(S) PROVE IndexInv'
  <2>1. start = "upserting" /\ start' = "failed" /\ points' = Written(S)
        /\ UNCHANGED <<catalogue, model, collection>>
    BY <1>5 DEF UpsertCut
  <2>2. PointsAreGenuine'
    BY <2>1, WrittenIsGenuine
  <2> QED BY <2>1, <2>2 DEF IndexInv, StartHasReached, IndexIsWhole
<1>6. CASE DeleteStaleCatalogPoints
  <2>1. /\ start = "pruning" /\ start' = "ready" /\ UNCHANGED <<catalogue, model, collection>>
        /\ points' = [a \in Actions |->
             IF points[a] # NoPoint /\ points[a].of # catalogue THEN NoPoint ELSE points[a]]
    BY <1>6 DEF DeleteStaleCatalogPoints
  <2>2. PointsAreGenuine'
    BY <2>1 DEF IndexInv, PointsAreGenuine
  <2>3. ASSUME NEW a \in Actions, a \in catalogue PROVE points'[a] = Own(DimensionOf(model))
    <3>1. points[a] = Own(DimensionOf(model)) /\ points[a].of = catalogue
      BY <2>1, <2>3 DEF IndexInv, StartHasReached, Own
    <3> QED BY <2>1, <3>1
  <2>4. ASSUME NEW a \in Actions, a \notin catalogue PROVE points'[a] = NoPoint
    BY <2>1, <2>4 DEF IndexInv, PointsAreGenuine
  <2> QED BY <2>1, <2>2, <2>3, <2>4 DEF IndexInv, StartHasReached, IndexIsWhole, Own
<1>7. CASE StartFails
  BY <1>7 DEF StartFails, IndexInv, PointsAreGenuine, StartHasReached, IndexIsWhole
<1>8. CASE ProcessEnds
  BY <1>8 DEF ProcessEnds, IndexInv, PointsAreGenuine, StartHasReached, IndexIsWhole
<1>9. ASSUME NEW q \in QueryTexts, SearchWithVectors(q) PROVE IndexInv'
  BY <1>9 DEF SearchWithVectors, IndexInv, PointsAreGenuine, StartHasReached, IndexIsWhole, Own
<1>10. CASE UNCHANGED indexVars
  BY <1>10 DEF indexVars, IndexInv, PointsAreGenuine, StartHasReached, IndexIsWhole, Own
<1> QED BY <1>1, <1>2, <1>3, <1>4, <1>5, <1>6, <1>7, <1>8, <1>9, <1>10 DEF CatalogueNext

(* A search of a process that started finds its own catalogue whole and    *)
(* nothing of another one or another model, whatever starts were cut short *)
(* before it.                                                              *)
THEOREM IndexStaysWhole ==
    ASSUME NoPointIsNone
    PROVE  CatalogueSpec => []IndexIsWhole
<1>1. IndexInv => IndexIsWhole
  BY DEF IndexInv, StartHasReached
<1>2. IndexInv /\ [CatalogueNext]_indexVars => IndexInv'
  BY IndexNext
<1> QED BY <1>1, <1>2, IndexInit, PTL DEF CatalogueSpec

(***************************************************************************)
(* RoutingPipeline: a command is done whole or asked about, for every text *)
(* and every number of parts. The pieces of a text lie apart and hold all  *)
(* of its words but the connectors; the segments are the pieces, or one    *)
(* segment is all of the text; the steps are the segments in their order.  *)
(***************************************************************************)
LessThan == {ss \in Nat \X Nat : ss[1] < ss[2]}

LEMMA LeastOf ==
    ASSUME NEW T, T \subseteq Nat, T # {}
    PROVE  \E m \in T : \A k \in T : m <= k
<1>1. IsWellFoundedOn(LessThan, Nat)
  BY NatLessThanWellFounded DEF OpToRel, LessThan
<1>2. PICK m \in T : \A k \in T : <<k, m>> \notin LessThan
  BY <1>1, WFMin
<1>3. ASSUME NEW k \in T PROVE m <= k
  <2>1. m \in Nat /\ k \in Nat /\ <<k, m>> \notin LessThan
    BY <1>2
  <2>2. ~(k < m)
    BY <2>1 DEF LessThan
  <2>. QED BY <2>1, <2>2
<1>. QED BY <1>3

LEMMA MinIs ==
    ASSUME NEW T, T \subseteq Nat, T # {}
    PROVE  Min(T) \in T /\ \A k \in T : Min(T) <= k
BY LeastOf DEF Min

LEMMA GreatestOf ==
    ASSUME NEW n \in Nat, NEW T, T \subseteq 0..n, T # {}
    PROVE  \E m \in T : \A k \in T : k <= m
<1>. DEFINE gaps == {n - k : k \in T}
<1>1. gaps \subseteq Nat /\ gaps # {}
  <2>1. \A k \in T : n - k \in Nat
    OBVIOUS
  <2>. QED BY <2>1
<1>2. PICK g \in gaps : \A h \in gaps : g <= h
  BY <1>1, LeastOf
<1>3. PICK m \in T : g = n - m
  OBVIOUS
<1>4. ASSUME NEW k \in T PROVE k <= m
  <2>1. n - k \in gaps
    OBVIOUS
  <2>2. n - m <= n - k /\ m \in 0..n /\ k \in 0..n
    BY <1>2, <1>3, <2>1
  <2>. QED BY <2>2
<1>. QED BY <1>4

-----------------------------------------------------------------------------
(* Segments that lie apart, and their order.                               *)
Sayings == Seq(Words) \ {<<>>}
LiesIn(t, S) ==
    /\ \A s \in S : s.from \in 1..Len(t) /\ s.to \in 1..Len(t) /\ s.from <= s.to
    /\ \A r, s \in S : r # s => r.to < s.from \/ s.to < r.from

LEMMA LieApart ==
    ASSUME NEW t \in Sayings, NEW S, LiesIn(t, S)
    PROVE  /\ IsFiniteSet(S) /\ Cardinality(S) \in Nat
           /\ \A r, s \in S : r.from = s.from => r = s
<1>1. \A r, s \in S : r.from = s.from => r = s
  BY DEF LiesIn
<1>2. Len(t) \in Nat
  BY DEF Sayings
<1>. DEFINE f == [s \in S |-> s.from]
<1>3. f \in Injection(S, 1..Len(t))
  BY <1>1 DEF LiesIn, Injection, IsInjective
<1>4. IsFiniteSet(1..Len(t))
  BY <1>2, FS_Interval
<1>5. IsFiniteSet(S)
  BY <1>3, <1>4, FS_Injection
<1>. QED BY <1>1, <1>5, FS_CardinalityType

Rank(S, s) == Cardinality(Before(S, s))

LEMMA RanksGrow ==
    ASSUME NEW t \in Sayings, NEW S, LiesIn(t, S), NEW r \in S, NEW s \in S
    PROVE  /\ Rank(S, s) \in 0..(Cardinality(S) - 1)
           /\ r.from < s.from => Rank(S, r) < Rank(S, s)
           /\ r # s => Rank(S, r) # Rank(S, s)
<1>1. IsFiniteSet(S) /\ Cardinality(S) \in Nat
  BY LieApart
<1>2. ASSUME NEW x \in S
      PROVE  /\ IsFiniteSet(Before(S, x)) /\ Cardinality(Before(S, x)) \in Nat
             /\ Cardinality(Before(S, x)) < Cardinality(S)
  <2>1. Before(S, x) \in SUBSET (S \ {x})
    BY DEF Before, LiesIn
  <2>2. IsFiniteSet(S \ {x}) /\ Cardinality(S \ {x}) = Cardinality(S) - 1
    BY <1>1, FS_RemoveElement
  <2>3. IsFiniteSet(Before(S, x)) /\ Cardinality(Before(S, x)) <= Cardinality(S \ {x})
    BY <2>1, <2>2, FS_Subset
  <2>. QED BY <1>1, <2>2, <2>3, FS_CardinalityType
<1>3. ASSUME NEW x \in S, NEW y \in S, x.from < y.from PROVE Rank(S, x) < Rank(S, y)
  <2>1. Before(S, x) \in SUBSET (Before(S, y) \ {x})
    BY <1>3 DEF Before, LiesIn
  <2>2. x \in Before(S, y)
    BY <1>3 DEF Before
  <2>3. /\ IsFiniteSet(Before(S, y) \ {x})
        /\ Cardinality(Before(S, y) \ {x}) = Cardinality(Before(S, y)) - 1
    BY <1>2, <2>2, FS_RemoveElement
  <2>4. Cardinality(Before(S, x)) <= Cardinality(Before(S, y) \ {x})
    BY <2>1, <2>3, FS_Subset
  <2>. QED BY <1>2, <2>3, <2>4 DEF Rank
<1>4. Rank(S, s) \in 0..(Cardinality(S) - 1)
  BY <1>1, <1>2 DEF Rank
<1>5. r # s => Rank(S, r) # Rank(S, s)
  <2>1. r # s => r.from < s.from \/ s.from < r.from
    BY LieApart DEF LiesIn
  <2>2. Rank(S, r) \in Nat /\ Rank(S, s) \in Nat
    BY <1>2 DEF Rank
  <2>. QED BY <1>3, <2>1, <2>2
<1>. QED BY <1>3, <1>4, <1>5

LEMMA InOrderIs ==
    ASSUME NEW t \in Sayings, NEW S, LiesIn(t, S)
    PROVE  /\ InOrder(S) \in Seq(S) /\ Len(InOrder(S)) = Cardinality(S)
           /\ \A s \in S : \E k \in DOMAIN InOrder(S) : InOrder(S)[k] = s
           /\ \A j, k \in DOMAIN InOrder(S) : j < k => InOrder(S)[j].to < InOrder(S)[k].from
<1>. DEFINE n == Cardinality(S)
            f == [s \in S |-> Rank(S, s)]
<1>1. IsFiniteSet(S) /\ n \in Nat
  BY LieApart
<1>2. f \in Injection(S, 0..(n - 1))
  BY RanksGrow DEF Injection, IsInjective
<1>3. IsFiniteSet(0..(n - 1)) /\ Cardinality(0..(n - 1)) = n
  BY <1>1, FS_Interval
<1>4. f \in Surjection(S, 0..(n - 1))
  BY <1>2, <1>3, FS_Injection
<1>5. ASSUME NEW k \in 1..n PROVE \E s \in S : Rank(S, s) = k - 1
  <2>1. k - 1 \in 0..(n - 1)
    BY <1>1
  <2>2. PICK s \in S : f[s] = k - 1
    BY <1>4, <2>1 DEF Surjection
  <2>. QED BY <2>2
<1>6. DOMAIN InOrder(S) = 1..n
  BY DEF InOrder
<1>7. ASSUME NEW k \in 1..n PROVE InOrder(S)[k] \in S /\ Rank(S, InOrder(S)[k]) = k - 1
  BY <1>5 DEF InOrder, Rank
<1>8. InOrder(S) \in Seq(S) /\ Len(InOrder(S)) = n
  BY <1>1, <1>7 DEF InOrder
<1>9. ASSUME NEW s \in S PROVE \E k \in 1..n : InOrder(S)[k] = s
  <2>1. Rank(S, s) \in 0..(n - 1)
    BY RanksGrow
  <2>2. Rank(S, s) + 1 \in 1..n
    BY <1>1, <2>1
  <2>3. Rank(S, InOrder(S)[Rank(S, s) + 1]) = Rank(S, s)
    BY <1>7, <2>1, <2>2
  <2>4. InOrder(S)[Rank(S, s) + 1] = s
    BY <1>7, <2>2, <2>3, RanksGrow
  <2>. QED BY <2>2, <2>4
<1>10. ASSUME NEW j \in 1..n, NEW k \in 1..n, j < k
       PROVE  InOrder(S)[j].to < InOrder(S)[k].from
  <2>. DEFINE r == InOrder(S)[j]
              s == InOrder(S)[k]
  <2>1. r \in S /\ s \in S /\ Rank(S, r) = j - 1 /\ Rank(S, s) = k - 1
    BY <1>7
  <2>. HIDE DEF r, s
  <2>2. r # s /\ ~(s.from < r.from)
    BY <1>1, <1>10, <2>1, RanksGrow
  <2>3. /\ r.from \in Nat /\ r.to \in Nat /\ s.from \in Nat /\ s.to \in Nat
        /\ s.from <= s.to /\ r.from <= r.to
        /\ r.to < s.from \/ s.to < r.from
    BY <2>1, <2>2 DEF LiesIn, Sayings
  <2>4. r.to < s.from
    BY <2>2, <2>3
  <2>. QED BY <2>4 DEF r, s
<1>. QED BY <1>6, <1>8, <1>9, <1>10

-----------------------------------------------------------------------------
(* The pieces of a text.                                                   *)
PartsOf(t) == CoordinationPieces(t, 1, Len(t))
InPart(p) == p[1]..p[2]

LEMMA PieceIs ==
    ASSUME NEW t \in Sayings, NEW a \in Nat, NEW b \in Nat, NEW p \in CoordinationPieces(t, a, b)
    PROVE  /\ p = <<p[1], p[2]>> /\ p[1] \in a..b /\ p[2] \in a..b /\ p[1] <= p[2]
           /\ \A i \in p[1]..p[2] : t[i] # "and"
           /\ p[1] = a \/ t[p[1] - 1] = "and"
           /\ p[2] = b \/ t[p[2] + 1] = "and"
BY DEF CoordinationPieces

LEMMA PieceOf ==
    ASSUME NEW t \in Sayings, NEW a \in Nat, NEW b \in Nat, NEW i \in a..b, t[i] # "and"
    PROVE  \E p \in CoordinationPieces(t, a, b) : i \in InPart(p)
<1>. DEFINE starts == {j \in a..i : j = a \/ t[j - 1] = "and"}
            stops == {j \in i..b : j = b \/ t[j + 1] = "and"}
<1>1. PICK x \in starts : \A j \in starts : j <= x
  <2>1. starts \subseteq 0..i /\ a \in starts /\ i \in Nat
    OBVIOUS
  <2>. QED BY <2>1, GreatestOf
<1>2. PICK y \in stops : \A j \in stops : y <= j
  <2>1. stops \subseteq Nat /\ b \in stops
    OBVIOUS
  <2>. QED BY <2>1, LeastOf
<1>3. ASSUME NEW q \in x..y PROVE t[q] # "and"
  <2>1. CASE q < i
    <3>1. t[q] = "and" => q + 1 \in starts
      BY <1>1, <2>1
    <3>. QED BY <1>1, <2>1, <3>1
  <2>2. CASE q > i
    <3>1. t[q] = "and" => q - 1 \in stops
      BY <1>2, <2>2
    <3>. QED BY <1>2, <2>2, <3>1
  <2>. QED BY <2>1, <2>2
<1>4. <<x, y>> \in CoordinationPieces(t, a, b)
  BY <1>3 DEF CoordinationPieces
<1>. QED BY <1>4 DEF InPart

LEMMA PiecesApart ==
    ASSUME NEW t \in Sayings, NEW a \in Nat, NEW b \in Nat, NEW p \in CoordinationPieces(t, a, b),
           NEW q \in CoordinationPieces(t, a, b), p # q
    PROVE  p[2] < q[1] \/ q[2] < p[1]
<1>1. ASSUME NEW r \in CoordinationPieces(t, a, b), NEW s \in CoordinationPieces(t, a, b),
             r[1] < s[1], s[1] <= r[2]
      PROVE  FALSE
  <2>1. s[1] - 1 \in r[1]..r[2] /\ t[s[1] - 1] = "and"
    BY <1>1, PieceIs
  <2>. QED BY <2>1, PieceIs
<1>2. ASSUME NEW r \in CoordinationPieces(t, a, b), NEW s \in CoordinationPieces(t, a, b),
             r[1] <= s[2], s[2] < r[2]
      PROVE  FALSE
  <2>1. s[2] + 1 \in r[1]..r[2] /\ t[s[2] + 1] = "and"
    BY <1>2, PieceIs
  <2>. QED BY <2>1, PieceIs
<1>. SUFFICES ASSUME p[2] >= q[1], q[2] >= p[1] PROVE FALSE
  BY PieceIs
<1>3. /\ p[1] \in Nat /\ p[2] \in Nat /\ q[1] \in Nat /\ q[2] \in Nat
      /\ p = <<p[1], p[2]>> /\ q = <<q[1], q[2]>> /\ p[1] <= p[2] /\ q[1] <= q[2]
  BY PieceIs
<1>4. p[1] = q[1]
  BY <1>1, <1>3
<1>5. p[2] = q[2]
  BY <1>2, <1>3
<1>. QED BY <1>3, <1>4, <1>5

LEMMA PartIs ==
    ASSUME NEW t \in Sayings, NEW p \in PartsOf(t)
    PROVE  /\ p[1] \in 1..Len(t) /\ p[2] \in 1..Len(t) /\ p[1] <= p[2]
           /\ \A i \in p[1]..p[2] : t[i] # "and"
BY DEF PartsOf, CoordinationPieces

LEMMA FirstIs ==
    ASSUME NEW t \in Sayings, NEW a \in Nat, NEW b \in Nat, CoordinationPieces(t, a, b) # {}
    PROVE  First(CoordinationPieces(t, a, b)) \in CoordinationPieces(t, a, b)
<1>. DEFINE P == CoordinationPieces(t, a, b)
            T == {p[1] : p \in P}
<1>1. T \subseteq Nat /\ T # {}
  BY PieceIs
<1>2. PICK m \in T : \A k \in T : m <= k
  BY <1>1, LeastOf
<1>3. PICK p \in P : m = p[1]
  OBVIOUS
<1>4. \A q \in P : p[1] <= q[1]
  BY <1>2, <1>3
<1>. QED BY <1>4 DEF First

(* A part without a connector in it is one piece.                          *)
LEMMA UndividedIsOne ==
    ASSUME NEW t \in Sayings, NEW a \in Nat, NEW b \in Nat, \A i \in a..b : t[i] # "and"
    PROVE  ~Several(CoordinationPieces(t, a, b))
<1>1. ASSUME NEW p \in CoordinationPieces(t, a, b) PROVE p = <<a, b>>
  <2>1. p[1] # a => p[1] - 1 \in a..b
    BY PieceIs
  <2>2. p[2] # b => p[2] + 1 \in a..b
    BY PieceIs
  <2>. QED BY <2>1, <2>2, PieceIs
<1>. QED BY <1>1 DEF Several

-----------------------------------------------------------------------------
(* What the segmenter makes of a text it takes for a command.              *)
Dissects(t, S) ==
    /\ LiesIn(t, S)
    /\ \A i \in 1..Len(t) : t[i] # "and" => \E s \in S : i \in Positions(s)
    /\ \A s \in S : OfOnePart(t, s) /\ s.op = VerbOf(t, s)
Expanded(t, S) == UNION {ExpandOpenTargetCoordination(t, s) : s \in S}

LEMMA VerbsAre ==
    ASSUME NEW t \in Sayings, NEW a \in Nat, NEW b \in Nat
    PROVE  /\ Anchors(t, a, b) \subseteq Nat
           /\ \A i : i \in Anchors(t, a, b) <=> i \in a..b /\ t[i] \in Verbs
           /\ \A i \in Anchors(t, a, b) : t[i] # "and"
           /\ Anchors(t, a, b) # {} => Min(Anchors(t, a, b)) \in Anchors(t, a, b)
<1>1. Anchors(t, a, b) \subseteq Nat
  BY DEF Anchors
<1>. QED BY <1>1, MinIs DEF Anchors, Verbs

LEMMA Undivided ==
    ASSUME NEW t \in Sayings, NEW s, s.from \in Nat, s.to \in Nat,
           ~Several(CoordinationPieces(t, s.from, s.to))
    PROVE  ExpandOpenTargetCoordination(t, s) = {s}
BY DEF ExpandOpenTargetCoordination

LEMMA SplitDissects ==
    ASSUME NEW t \in Sayings, SplitFullyClassified(t, PartsOf(t))
    PROVE  /\ Dissects(t, Classified(t, PartsOf(t)))
           /\ Expanded(t, Classified(t, PartsOf(t))) = Classified(t, PartsOf(t))
<1>. DEFINE n == Len(t)
            S == Classified(t, PartsOf(t))
            g(p) == Segment(t, p, OperationOf(t, p))
<1>1. n \in Nat /\ 1 \in Nat
  BY DEF Sayings
<1>2. S = {g(p) : p \in PartsOf(t)}
  BY DEF Classified
<1>3. ASSUME NEW p \in PartsOf(t)
      PROVE  /\ p[1] \in 1..n /\ p[2] \in 1..n /\ p[1] <= p[2]
             /\ \A i \in p[1]..p[2] : t[i] # "and"
             /\ ~Several(Anchors(t, p[1], p[2])) /\ OperationOf(t, p) # "none"
  <2>1. p \in CoordinationPieces(t, 1, n) /\ p \in Known(t, PartsOf(t)) /\ Single(t, PartsOf(t))
    BY DEF PartsOf, SplitFullyClassified
  <2>2. /\ p[1] \in 1..n /\ p[2] \in 1..n /\ p[1] <= p[2]
        /\ \A i \in p[1]..p[2] : t[i] # "and"
    BY PartIs
  <2>3. ~Several(Anchors(t, p[1], p[2])) /\ OperationOf(t, p) # "none"
    BY <2>1 DEF Single, Known
  <2>. QED BY <2>2, <2>3
<1>4. \A p : g(p).from = p[1] /\ g(p).to = p[2] /\ g(p).op = OperationOf(t, p)
  BY DEF Segment
<1>. HIDE DEF g
<1>5. LiesIn(t, S)
  <2>1. \A s \in S : s.from \in 1..n /\ s.to \in 1..n /\ s.from <= s.to
    BY <1>2, <1>3, <1>4
  <2>2. ASSUME NEW r \in S, NEW s \in S, r # s PROVE r.to < s.from \/ s.to < r.from
    <3>1. PICK p \in PartsOf(t), q \in PartsOf(t) : r = g(p) /\ s = g(q)
      BY <1>2
    <3>2. p # q
      BY <2>2, <3>1
    <3>3. p[2] < q[1] \/ q[2] < p[1]
      BY <1>1, <3>2, PiecesApart DEF PartsOf
    <3>. QED BY <1>4, <3>1, <3>3
  <2>. QED BY <2>1, <2>2 DEF LiesIn
<1>6. ASSUME NEW i \in 1..n, t[i] # "and" PROVE \E s \in S : i \in Positions(s)
  <2>1. PICK p \in PartsOf(t) : i \in InPart(p)
    BY <1>1, <1>6, PieceOf DEF PartsOf
  <2>. QED BY <1>2, <1>4, <2>1 DEF InPart, Positions
<1>7. ASSUME NEW s \in S PROVE OfOnePart(t, s) /\ s.op = VerbOf(t, s)
  <2>1. PICK p \in PartsOf(t) : s = g(p)
    BY <1>2
  <2>2. s.from = p[1] /\ s.to = p[2] /\ s.op = OperationOf(t, p)
    BY <1>4, <2>1
  <2>3. OfOnePart(t, s)
    BY <1>3, <2>2 DEF OfOnePart, VerbsIn, Positions
  <2>4. OperationOf(t, p) = VerbOf(t, s)
    BY <1>3, <2>2 DEF OperationOf, InferAliasOperation, VerbOf, VerbsIn
  <2>. QED BY <2>2, <2>3, <2>4
<1>8. ASSUME NEW s \in S PROVE ExpandOpenTargetCoordination(t, s) = {s}
  <2>1. PICK p \in PartsOf(t) : s = g(p)
    BY <1>2
  <2>2. s.from = p[1] /\ s.to = p[2]
    BY <1>4, <2>1
  <2>3. s.from \in Nat /\ s.to \in Nat /\ \A i \in s.from..s.to : t[i] # "and"
    BY <1>3, <2>2
  <2>. QED BY <2>3, UndividedIsOne, Undivided
<1>. QED BY <1>5, <1>6, <1>7, <1>8 DEF Dissects, Expanded

(* A command of one part: the whole text is its segment.                   *)
LEMMA OnePartDissects ==
    ASSUME NEW t \in Sayings, ~Several(PartsOf(t)), ~Several(Anchors(t, 1, Len(t))),
           NEW verb, verb = VerbOf(t, Segment(t, <<1, Len(t)>>, verb))
    PROVE  /\ Dissects(t, {Segment(t, <<1, Len(t)>>, verb)})
           /\ Expanded(t, {Segment(t, <<1, Len(t)>>, verb)}) = {Segment(t, <<1, Len(t)>>, verb)}
<1>. DEFINE n == Len(t)
            s == Segment(t, <<1, n>>, verb)
<1>1. n \in Nat /\ 1 \in 1..n /\ n \in 1..n
  BY DEF Sayings
<1>2. s.from = 1 /\ s.to = n /\ s.op = verb
  BY DEF Segment
<1>. HIDE DEF s
<1>3. ~\E i, j, k \in 1..n : i < j /\ j < k /\ t[i] # "and" /\ t[j] = "and" /\ t[k] # "and"
  <2>. SUFFICES ASSUME NEW i \in 1..n, NEW j \in 1..n, NEW k \in 1..n,
                       i < j, j < k, t[i] # "and", t[j] = "and", t[k] # "and"
                PROVE  FALSE
    OBVIOUS
  <2>1. PICK p \in PartsOf(t) : i \in InPart(p)
    BY <1>1, PieceOf DEF PartsOf
  <2>2. PICK q \in PartsOf(t) : k \in InPart(q)
    BY <1>1, PieceOf DEF PartsOf
  <2>3. p = q
    BY DEF Several
  <2>6. p[1] \in 1..n /\ p[2] \in 1..n
    BY <1>1, PieceIs DEF PartsOf
  <2>7. i \in p[1]..p[2] /\ k \in p[1]..p[2]
    BY <2>1, <2>2, <2>3 DEF InPart
  <2>4. j \in p[1]..p[2]
    BY <2>6, <2>7
  <2>5. \A x \in p[1]..p[2] : t[x] # "and"
    BY <1>1, PieceIs DEF PartsOf
  <2>. QED BY <2>4, <2>5
<1>4. OfOnePart(t, s)
  BY <1>2, <1>3 DEF OfOnePart, VerbsIn, Positions
<1>5. LiesIn(t, {s})
  BY <1>1, <1>2 DEF LiesIn
<1>6. Dissects(t, {s})
  BY <1>2, <1>4, <1>5 DEF Dissects, Positions, s
<1>7. ExpandOpenTargetCoordination(t, s) = {s}
  BY <1>1, <1>2, Undivided DEF PartsOf
<1>. QED BY <1>6, <1>7 DEF Expanded, s

(* Under the anchors a command is of one part: each later verb would have  *)
(* a connector before it, and the parts would have been taken one by one.  *)
LEMMA AnchoredIsOne ==
    ASSUME NEW t \in Sayings, ~FreeTextMayGoOn(t), ~SplitFullyClassified(t, PartsOf(t)),
           ~UnclassifiedCoordination(t, PartsOf(t)), Anchors(t, 1, Len(t)) # {},
           ~\E k \in Anchors(t, 1, Len(t)) \ {Min(Anchors(t, 1, Len(t)))} : t[k - 1] # "and"
    PROVE  ~Several(PartsOf(t)) /\ ~Several(Anchors(t, 1, Len(t)))
<1>. DEFINE n == Len(t)
            kept == Anchors(t, 1, n)
            P == PartsOf(t)
<1>1. n \in Nat /\ 1 \in Nat
  BY DEF Sayings
<1>2. /\ kept \subseteq Nat /\ Min(kept) \in kept /\ \A k \in kept : Min(kept) <= k
      /\ \A k \in kept : k \in 1..n /\ t[k] \in Verbs /\ t[k] # "and"
  <2>1. kept \subseteq Nat
    BY <1>1, VerbsAre
  <2>. QED BY <1>1, <2>1, MinIs, VerbsAre
<1>3. ASSUME NEW p \in P
      PROVE  /\ p[1] \in 1..n /\ p[2] \in 1..n /\ p[1] <= p[2]
             /\ \A i \in p[1]..p[2] : t[i] # "and"
  BY PartIs
<1>4. ASSUME NEW p \in P, NEW j \in kept, NEW k \in kept, j < k, j \in InPart(p), k \in InPart(p)
      PROVE  FALSE
  <2>1. k # Min(kept)
    BY <1>1, <1>2, <1>4
  <2>2. t[k - 1] = "and"
    BY <2>1
  <2>3. k - 1 \in p[1]..p[2]
    BY <1>2, <1>3, <1>4 DEF InPart
  <2>. QED BY <1>3, <2>2, <2>3
<1>5. ASSUME NEW p \in P, NEW j, NEW k, j \in Anchors(t, p[1], p[2]), k \in Anchors(t, p[1], p[2])
      PROVE  j = k
  <2>1. j \in kept /\ k \in kept /\ j \in InPart(p) /\ k \in InPart(p)
    BY <1>1, <1>3, <1>5 DEF Anchors, InPart
  <2>2. j \in Nat /\ k \in Nat
    BY <1>2, <2>1
  <2>. QED BY <1>4, <2>1, <2>2
<1>6. ~Several(P)
  <2>. SUFFICES ASSUME Several(P) PROVE FALSE
    OBVIOUS
  <2>1. Single(t, P)
    BY <1>5 DEF Single, Several
  <2>2. PICK p \in P : Min(kept) \in InPart(p)
    BY <1>1, <1>2, PieceOf DEF PartsOf
  <2>3. Anchors(t, p[1], p[2]) # {}
    BY <1>2, <1>3, <2>2 DEF Anchors, InPart
  <2>4. ASSUME NEW q \in P, Anchors(t, q[1], q[2]) # {} PROVE q \in Known(t, P)
    <3>1. Min(Anchors(t, q[1], q[2])) \in Anchors(t, q[1], q[2])
      BY <1>3, <2>4, VerbsAre
    <3>2. t[Min(Anchors(t, q[1], q[2]))] \in Verbs
      BY <3>1 DEF Anchors
    <3>3. OperationOf(t, q) \in Verbs
      BY <2>4, <3>2 DEF OperationOf
    <3>. QED BY <3>3 DEF Known, Verbs
  <2>5. Known(t, P) # {} /\ P # {}
    BY <2>2, <2>3, <2>4
  <2>6. ~GoesOn(t, P)
    BY <2>5 DEF FreeTextMayGoOn, PartsOf
  <2>7. Known(t, P) # P
    BY <2>1, <2>6 DEF SplitFullyClassified
  <2>8. Known(t, P) = {First(P)} /\ Freeform(t, First(P))
    BY <2>1, <2>5, <2>7 DEF UnclassifiedCoordination
  <2>9. PICK q \in P : q \notin Known(t, P)
    BY <2>7 DEF Known
  <2>. QED BY <2>4, <2>6, <2>8, <2>9 DEF GoesOn
<1>7. ASSUME NEW j \in kept, NEW k \in kept PROVE j = k
  <2>1. PICK p \in P : j \in InPart(p)
    BY <1>1, <1>2, PieceOf DEF PartsOf
  <2>2. PICK q \in P : k \in InPart(q)
    BY <1>1, <1>2, PieceOf DEF PartsOf
  <2>3. p = q
    BY <1>6 DEF Several
  <2>4. j \in Anchors(t, p[1], p[2]) /\ k \in Anchors(t, p[1], p[2])
    BY <1>2, <2>1, <2>2, <2>3 DEF Anchors, InPart
  <2>. QED BY <1>5, <2>4
<1>. QED BY <1>6, <1>7 DEF Several

(* The whole text where there is one verb.                                 *)
LEMMA AnchorsDissect ==
    ASSUME NEW t \in Sayings, ~Several(PartsOf(t)), ~Several(Anchors(t, 1, Len(t))),
           Anchors(t, 1, Len(t)) # {}
    PROVE  \E s : /\ SplitAtAnchors(t, Anchors(t, 1, Len(t))) = {s}
                  /\ Dissects(t, {s}) /\ Expanded(t, {s}) = {s}
<1>. DEFINE n == Len(t)
            kept == Anchors(t, 1, n)
            m == Min(kept)
            s == Segment(t, <<1, n>>, t[m])
<1>1. n \in Nat /\ 1 \in Nat
  BY DEF Sayings
<1>2. m \in Nat /\ kept = {m}
  BY <1>1, VerbsAre DEF Several
<1>. HIDE DEF kept
<1>3. SplitAtAnchors(t, kept) = {s}
  <2>1. {i \in kept : i > m} = {}
    BY <1>2
  <2>2. /\ (IF m = Min(kept) THEN 1 ELSE m) = 1
        /\ (IF {i \in kept : i > m} = {} THEN Len(t)
             ELSE Max({i \in m..Min({i \in kept : i > m}) : t[i] # "and"}
                      \ {Min({i \in kept : i > m})})) = n
    BY <2>1
  <2>. HIDE DEF m
  <2>. QED BY <1>2, <2>2, Zenon DEF SplitAtAnchors
<1>4. t[m] = VerbOf(t, s)
  <2>1. s.from = 1 /\ s.to = n
    BY DEF Segment
  <2>. QED BY <1>2, <2>1 DEF VerbOf, VerbsIn, kept
<1>. HIDE DEF m
<1>5. Dissects(t, {s}) /\ Expanded(t, {s}) = {s}
  BY <1>4, OnePartDissects
<1>. QED BY <1>3, <1>5 DEF kept

LEMMA CountedIs ==
    ASSUME NEW t, NEW S, Expanded(t, S) = S, Counted(t, S).decision \in {"simple", "compound"}
    PROVE  /\ Counted(t, S).subtasks = InOrder(S)
           /\ Counted(t, S).decision = "simple" => ~Several(S)
BY DEF Counted, Ambiguous, Segmented, Expanded

LEMMA CommandDissects ==
    ASSUME NEW t \in Sayings, ~FreeTextHasVerb(t), ~FreeTextMayGoOn(t), ~IsAtomicApiCheck(t),
           SegmentCommand(t).decision \in {"simple", "compound"}
    PROVE  \E S : /\ Dissects(t, S) /\ SegmentCommand(t).subtasks = InOrder(S)
                  /\ SegmentCommand(t).decision = "simple" => ~Several(S)
<1>. DEFINE n == Len(t)
            kept == Anchors(t, 1, n)
            P == PartsOf(t)
            alias == InferAliasOperation(t, 1, n)
<1>0. n \in Nat /\ n >= 1 /\ 1 \in Nat
  BY DEF Sayings
<1>1. CollapseFreeformArgumentAnchors(t) = kept
  BY DEF FreeTextHasVerb
<1>2. CASE SegmentCommand(t) = Counted(t, Classified(t, P)) /\ SplitFullyClassified(t, P)
  BY <1>2, SplitDissects, CountedIs
<1>3. CASE /\ SegmentCommand(t) = Counted(t, SplitAtAnchors(t, kept))
           /\ ~SplitFullyClassified(t, P) /\ ~UnclassifiedCoordination(t, P) /\ kept # {}
           /\ ~\E k \in kept \ {Min(kept)} : t[k - 1] # "and"
  <2>1. ~Several(P) /\ ~Several(kept)
    BY <1>3, AnchoredIsOne
  <2>2. PICK s : SplitAtAnchors(t, kept) = {s} /\ Dissects(t, {s}) /\ Expanded(t, {s}) = {s}
    BY <1>3, <2>1, AnchorsDissect
  <2>. QED BY <1>3, <2>2, CountedIs
<1>4. CASE /\ SegmentCommand(t) = Segmented("simple", {Segment(t, <<1, n>>, "open")})
           /\ kept = {} /\ alias # "none"
  <2>. DEFINE s == Segment(t, <<1, n>>, "open")
  <2>1. n = 1 /\ t[1] # "and"
    BY <1>4 DEF InferAliasOperation, OpenCoordinationTargets
  <2>2. ~Several(P)
    <3>1. \A i \in 1..n : t[i] # "and"
      BY <2>1
    <3>. QED BY <1>0, <3>1, UndividedIsOne DEF PartsOf
  <2>3. ~Several(kept)
    BY <1>4 DEF Several
  <2>4. "open" = VerbOf(t, s)
    BY <1>4 DEF VerbOf, VerbsIn, Segment
  <2>5. Dissects(t, {s})
    BY <2>2, <2>3, <2>4, OnePartDissects
  <2>6. SegmentCommand(t).subtasks = InOrder({s}) /\ ~Several({s})
    BY <1>4 DEF Segmented, Several
  <2>. QED BY <2>5, <2>6
<1>5. SegmentCommand(t).decision # "ambiguous"
  OBVIOUS
<1>6. /\ SegmentCommand(t) # Ambiguous({}) /\ SegmentCommand(t) # Segmented("non command", {})
      /\ SegmentCommand(t) # Ambiguous(Classified(t, Known(t, P)))
  <2>1. /\ \A S : Ambiguous(S).decision = "ambiguous"
        /\ Segmented("non command", {}).decision = "non command"
    BY DEF Ambiguous, Segmented
  <2>. QED BY <2>1
<1>. QED
  BY <1>1, <1>2, <1>3, <1>4, <1>6 DEF SegmentCommand, PartsOf

-----------------------------------------------------------------------------
(* The recognisers.                                                        *)
LEMMA RecognisedIs ==
    ASSUME NEW t \in Sayings
    PROVE  /\ Recognised(t).lane \in {"none", "question", "fast"}
           /\ Recognised(t).lane = "fast" =>
                /\ \E id : Recognised(t) = OneStep(t, id)
                /\ \/ \E i \in 1..Len(t) : t[i] \in Verbs
                   \/ t = <<"calendar">> \/ t = <<"chat">> \/ ChecksEndpoint(t)
<1>. DEFINE R == Recognisers(t)
            fits == {k \in DOMAIN R : R[k].test}
<1>1. DOMAIN R = 1..11
  BY DEF Recognisers
<1>2. CASE fits = {}
  BY <1>2 DEF Recognised, NoPlan
<1>3. CASE fits # {}
  <2>1. fits \subseteq Nat
    BY <1>1
  <2>2. PICK k \in fits : Recognised(t) = R[k].found
    BY <1>3, <2>1, MinIs DEF Recognised
  <2>3. R[k].test /\ k \in 1..11
    BY <1>1
  <2>. DEFINE Found(found) ==
                /\ found = Question \/ \E id : found = OneStep(t, id)
                /\ found # Question =>
                     \/ \E i \in 1..Len(t) : t[i] \in Verbs
                     \/ t = <<"calendar">> \/ t = <<"chat">> \/ ChecksEndpoint(t)
  <2>4. Found(R[k].found)
    <3>1. Len(t) \in Nat /\ Len(t) >= 1
      BY DEF Sayings
    <3>2. ToSet(t) = {t[i] : i \in 1..Len(t)}
      BY DEF ToSet, Sayings
    <3>3. /\ R[1] = Recogniser(OpensCalendar(t), OneStep(t, "open_calendar"))
          /\ R[2] = Recogniser(ChecksEndpoint(t), OneStep(t, "search_web"))
          /\ R[3] = Recogniser(SearchesWeb(t), OneStep(t, "search_web"))
          /\ R[4].found = Question /\ R[11].found = Question
          /\ R[5] = Recogniser(OpensChat(t), OneStep(t, "open_chat"))
          /\ R[6] = Recogniser(OpensShellItem(t), OneStep(t, "open_shell_item"))
      BY DEF Recognisers, Recogniser
    <3>4. /\ R[7] = Recogniser(Together(t, "minimize", "cursor"),
                               OneStep(t, "minimize_window_under_cursor"))
          /\ R[8] = Recogniser(Together(t, "close", "cursor"),
                               OneStep(t, "close_window_under_cursor"))
          /\ R[9] = Recogniser(Together(t, "copy", "cursor"), OneStep(t, "copy_text_under_cursor"))
          /\ R[10] = Recogniser(TextAfter(t, "note"), OneStep(t, "create_note"))
      BY DEF Recognisers
    <3>. HIDE DEF R
    <3>5. CASE k \in {1, 5}
      <4>1. OpensCalendar(t) \/ OpensChat(t)
        BY <2>3, <3>3, <3>5 DEF Recogniser
      <4>2. \E id : R[k].found = OneStep(t, id)
        BY <3>3, <3>5 DEF Recogniser
      <4>. QED BY <3>1, <4>1, <4>2 DEF OpensCalendar, OpensChat, Marked, Verbs
    <3>6. CASE k \in {3, 6}
      <4>1. SearchesWeb(t) \/ OpensShellItem(t)
        BY <2>3, <3>3, <3>6 DEF Recogniser
      <4>2. \E id : R[k].found = OneStep(t, id)
        BY <3>3, <3>6 DEF Recogniser
      <4>. QED BY <3>1, <4>1, <4>2 DEF SearchesWeb, OpensShellItem, Verbs
    <3>7. CASE k \in {7, 8, 9}
      <4>1. PICK v \in Verbs : Together(t, v, "cursor")
        BY <2>3, <3>4, <3>7 DEF Recogniser, Verbs
      <4>2. \E id : R[k].found = OneStep(t, id)
        BY <3>4, <3>7 DEF Recogniser
      <4>3. \E i \in 1..Len(t) : t[i] = v
        BY <3>2, <4>1 DEF Together
      <4>. QED BY <4>2, <4>3
    <3>8. CASE k = 10
      <4>1. TextAfter(t, "note") /\ R[k].found = OneStep(t, "create_note")
        BY <2>3, <3>4, <3>8 DEF Recogniser
      <4>. QED BY <3>1, <4>1 DEF TextAfter, Verbs
    <3>9. CASE k = 2
      <4>1. ChecksEndpoint(t) /\ R[k].found = OneStep(t, "search_web")
        BY <2>3, <3>3, <3>9 DEF Recogniser
      <4>. QED BY <4>1
    <3>. QED BY <2>3, <3>3, <3>5, <3>6, <3>7, <3>8, <3>9
  <2>5. Question.lane = "question" /\ \A id : OneStep(t, id).lane = "fast"
    BY DEF Question, OneStep
  <2>. HIDE DEF R, fits
  <2>. QED BY <2>2, <2>4, <2>5
<1>. QED BY <1>2, <1>3

LEMMA OneCovers ==
    ASSUME NEW t \in Sayings, NEW S, Dissects(t, S), ~Several(S), NEW id
    PROVE  Covers(t, OneStep(t, id))
<1>. DEFINE n == Len(t)
            p == OneStep(t, id)
            w == p.steps[1]
<1>1. n \in Nat /\ DOMAIN t = 1..n
  BY DEF Sayings
<1>2. /\ p.lane = "fast" /\ DOMAIN p.steps = {1} /\ Len(p.steps) = 1
      /\ w.from = 1 /\ w.to = n
  BY DEF OneStep
<1>. HIDE DEF p, w
<1>3. ASSUME NEW i \in 1..n, t[i] # "and", NEW s \in S PROVE i \in Positions(s)
  BY <1>3 DEF Dissects, Several
<1>4. OfOnePart(t, w)
  <2>1. CASE \A i \in 1..n : t[i] = "and"
    BY <1>2, <2>1 DEF OfOnePart, VerbsIn, Anchors, Several, Positions, Verbs
  <2>2. CASE \E i \in 1..n : t[i] # "and"
    <3>1. PICK s \in S : TRUE
      BY <2>2 DEF Dissects
    <3>2. s.from \in 1..n /\ s.to \in 1..n /\ OfOnePart(t, s)
      BY DEF Dissects, LiesIn
    <3>3. VerbsIn(t, s) = VerbsIn(t, w)
      BY <1>1, <1>2, <1>3, <3>2 DEF VerbsIn, Anchors, Verbs, Positions
    <3>4. CASE Governed(t, s)
      BY <3>3, <3>4 DEF Governed, OfOnePart
    <3>5. CASE ~Governed(t, s)
      <4>1. /\ ~Several(VerbsIn(t, w))
            /\ ~\E i, j, k \in Positions(s) :
                   i < j /\ j < k /\ t[i] # "and" /\ t[j] = "and" /\ t[k] # "and"
        BY <3>2, <3>3, <3>5 DEF OfOnePart
      <4>2. ~\E i, j, k \in Positions(w) :
                i < j /\ j < k /\ t[i] # "and" /\ t[j] = "and" /\ t[k] # "and"
        <5>. SUFFICES ASSUME NEW i \in 1..n, NEW j \in 1..n, NEW k \in 1..n,
                             i < j, j < k, t[i] # "and", t[j] = "and", t[k] # "and"
                      PROVE  FALSE
          BY <1>2 DEF Positions
        <5>1. i \in Positions(s) /\ k \in Positions(s)
          BY <1>3
        <5>2. j \in Positions(s)
          BY <3>2, <5>1 DEF Positions
        <5>. QED BY <4>1, <5>1, <5>2
      <4>. QED BY <4>1, <4>2 DEF OfOnePart
    <3>. QED BY <3>4, <3>5
  <2>. QED BY <2>1, <2>2
<1>5. p.steps[1] = w
  BY DEF w
<1>6. \A i \in DOMAIN t : i \in Positions(w)
  BY <1>1, <1>2 DEF Positions
<1>7. /\ \A k \in DOMAIN p.steps : k = 1
      /\ ~\E k \in 2..Len(p.steps) : TRUE
      /\ p.lane # "v2"
  BY <1>2
<1>. QED BY <1>2, <1>4, <1>5, <1>6, <1>7 DEF Covers, p

LEMMA FastCovers ==
    ASSUME NEW t \in Sayings, ~FreeTextHasVerb(t), ~FreeTextMayGoOn(t), ~TakenForLookUp(t),
           DeterministicPlan(t).lane = "fast"
    PROVE  Covers(t, DeterministicPlan(t))
<1>. DEFINE c == SegmentCommand(t)
<1>1. c.decision \notin {"compound", "ambiguous"} /\ DeterministicPlan(t) = Recognised(t)
  BY DEF DeterministicPlan, StopPlan, Question
<1>2. PICK id : DeterministicPlan(t) = OneStep(t, id)
  BY <1>1, RecognisedIs
<1>3. \/ \E i \in 1..Len(t) : t[i] \in Verbs
      \/ t = <<"calendar">> \/ t = <<"chat">> \/ ChecksEndpoint(t)
  BY <1>1, RecognisedIs
<1>4. c.decision = "simple"
  <2>1. c.decision \in {"simple", "compound", "ambiguous"} \/ c = Segmented("non command", {})
    BY DEF SegmentCommand, Counted, Ambiguous, Segmented
  <2>2. ASSUME c = Segmented("non command", {}) PROVE FALSE
    <3>1. /\ CollapseFreeformArgumentAnchors(t) = {}
          /\ InferAliasOperation(t, 1, Len(t)) = "none"
      <4>1. Segmented("non command", {}).decision = "non command"
        BY DEF Segmented
      <4>2. SegmentCommand(t).decision = "non command"
        BY <2>2, <4>1
      <4>. QED BY <4>2 DEF SegmentCommand, Counted, Ambiguous, Segmented
    <3>2. Anchors(t, 1, Len(t)) = {}
      BY <3>1 DEF FreeTextHasVerb
    <3>3. t = <<"calendar">> \/ t = <<"chat">>
      BY <1>3, <3>2 DEF Anchors, TakenForLookUp
    <3>. QED BY <3>1, <3>3 DEF InferAliasOperation, OpenCoordinationTargets
  <2>. QED BY <1>1, <2>1, <2>2
<1>5. PICK S : Dissects(t, S) /\ ~Several(S)
  BY <1>4, CommandDissects DEF TakenForLookUp
<1>. QED BY <1>2, <1>5, OneCovers

-----------------------------------------------------------------------------
(* Routing V2.                                                             *)
LEMMA AssembledCovers ==
    ASSUME NEW t \in Sayings, ~FreeTextHasVerb(t), ~FreeTextMayGoOn(t), ~TakenForLookUp(t),
           SegmentCommand(t).decision \in {"simple", "compound"},
           NEW found \in [DOMAIN SegmentCommand(t).subtasks -> Catalogue \cup {Unresolved}],
           \A k \in DOMAIN found : found[k] \in Resolutions(t, SegmentCommand(t).subtasks[k]),
           AssemblePlan(t, SegmentCommand(t).subtasks, found).lane = "v2"
    PROVE  Covers(t, AssemblePlan(t, SegmentCommand(t).subtasks, found))
<1>. DEFINE q == SegmentCommand(t).subtasks
            p == AssemblePlan(t, q, found)
<1>1. PICK S : Dissects(t, S) /\ q = InOrder(S)
  BY CommandDissects DEF TakenForLookUp
<1>2. /\ q \in Seq(S) /\ \A s \in S : \E k \in DOMAIN q : q[k] = s
      /\ \A j, k \in DOMAIN q : j < k => q[j].to < q[k].from
  BY <1>1, InOrderIs DEF Dissects
<1>3. DOMAIN q = 1..Len(q) /\ Len(q) \in Nat /\ DOMAIN found = DOMAIN q
  BY <1>2
<1>4. /\ \A k \in DOMAIN found : found[k] # Unresolved
      /\ p = [lane |-> "v2",
              steps |-> [k \in DOMAIN found |->
                           [id |-> found[k].id, from |-> q[k].from, to |-> q[k].to]]]
  BY DEF AssemblePlan, Question
<1>. HIDE DEF q, p
<1>5. /\ DOMAIN p.steps = DOMAIN q /\ Len(p.steps) = Len(q)
      /\ \A k \in DOMAIN q : /\ p.steps[k].from = q[k].from /\ p.steps[k].to = q[k].to
                             /\ p.steps[k].id = found[k].id
  BY <1>3, <1>4
<1>6. \A i \in DOMAIN t : t[i] # "and" => \E k \in DOMAIN p.steps : i \in Positions(p.steps[k])
  <2>1. DOMAIN t = 1..Len(t)
    BY DEF Sayings
  <2>2. ASSUME NEW i \in 1..Len(t), t[i] # "and"
        PROVE  \E k \in DOMAIN p.steps : i \in Positions(p.steps[k])
    <3>1. PICK s \in S : i \in Positions(s)
      BY <1>1, <2>2 DEF Dissects
    <3>2. PICK k \in DOMAIN q : q[k] = s
      BY <1>2
    <3>. QED BY <1>5, <3>1, <3>2 DEF Positions
  <2>. QED BY <2>1, <2>2
<1>7. \A k \in 2..Len(p.steps) : p.steps[k].from > p.steps[k - 1].to
  <2>1. ASSUME NEW k \in 2..Len(q) PROVE q[k].from > q[k - 1].to
    <3>1. k \in DOMAIN q /\ k - 1 \in DOMAIN q /\ k - 1 < k
      BY <1>3
    <3>2. q[k] \in S /\ q[k - 1] \in S
      BY <1>2, <3>1
    <3>3. q[k].from \in Nat /\ q[k - 1].to \in Nat
      BY <1>1, <3>2 DEF Dissects, LiesIn
    <3>. QED BY <1>2, <3>1, <3>3
  <2>2. ASSUME NEW k \in 2..Len(q) PROVE k \in DOMAIN q /\ k - 1 \in DOMAIN q
    BY <1>3
  <2>. QED BY <1>5, <2>1, <2>2
<1>8. ASSUME NEW k \in DOMAIN q
      PROVE  /\ OfOnePart(t, p.steps[k])
             /\ \E action \in Catalogue :
                  action.id = p.steps[k].id /\ action.op = VerbOf(t, p.steps[k])
  <2>1. q[k] \in S /\ OfOnePart(t, q[k]) /\ q[k].op = VerbOf(t, q[k])
    BY <1>1, <1>2 DEF Dissects
  <2>2. /\ VerbsIn(t, p.steps[k]) = VerbsIn(t, q[k])
        /\ Positions(p.steps[k]) = Positions(q[k])
    BY <1>5 DEF VerbsIn, Positions
  <2>3. OfOnePart(t, p.steps[k]) /\ q[k].op = VerbOf(t, p.steps[k])
    BY <2>1, <2>2 DEF OfOnePart, Governed, VerbOf
  <2>4. found[k] \in Catalogue /\ found[k].op = q[k].op
    BY <1>3, <1>4 DEF Resolutions, Eligible, q
  <2>. QED BY <1>5, <2>3, <2>4
<1>. QED BY <1>5, <1>6, <1>7, <1>8 DEF Covers, p, q

(* What is under way of a text: what is handed on would cover it.          *)
RoutingInv ==
    at # "idle" =>
        /\ said \in Sayings
        /\ CommandIsCovered(said, fast) /\ CommandIsCovered(said, plan)
        /\ at = "searching" => /\ segmented = SegmentCommand(said)
                               /\ segmented.decision \in {"simple", "compound"}

LEMMA RoutingKeeps ==
    ASSUME RoutingInv, [RoutingNext]_routingVars
    PROVE  RoutingInv'
<1>0. /\ \A t : /\ CommandIsCovered(t, NoPlan) /\ CommandIsCovered(t, StopPlan)
                /\ CommandIsCovered(t, Question)
  BY DEF CommandIsCovered, NoPlan, StopPlan, Question
<1>1. ASSUME NEW t \in Commands, CommandSaid(t) PROVE RoutingInv'
  <2>1. fast' = DeterministicPlan(t) /\ said' = t /\ t \in Sayings
    BY <1>1, CommandsAssumption DEF CommandSaid, Sayings
  <2>2. plan' \in {StopPlan, NoPlan} /\ at' \in {"planned", "routing"}
    BY <1>1 DEF CommandSaid
  <2>3. fast'.lane # "v2"
    BY <2>1, RecognisedIs DEF DeterministicPlan, StopPlan, Question
  <2>4. CommandIsCovered(t, fast')
    BY <2>1, <2>3, FastCovers DEF CommandIsCovered
  <2>. QED BY <1>0, <2>1, <2>2, <2>4 DEF RoutingInv
<1>2. CASE Evaluate
  <2>1. /\ at = "routing" /\ segmented' = SegmentCommand(said) /\ plan' \in {Question, NoPlan}
        /\ at' = IF segmented'.decision \in {"simple", "compound"} THEN "searching" ELSE "decided"
        /\ said' = said /\ fast' = fast
    BY <1>2 DEF Evaluate
  <2>. QED BY <1>0, <2>1 DEF RoutingInv
<1>3. CASE SearchSubtasks
  <2>1. /\ at = "searching" /\ at' = "decided" /\ said' = said /\ fast' = fast
    BY <1>3 DEF SearchSubtasks
  <2>2. PICK found \in [DOMAIN segmented.subtasks -> Catalogue \cup {Unresolved}] :
          /\ \A k \in DOMAIN found : found[k] \in Resolutions(said, segmented.subtasks[k])
          /\ plan' = AssemblePlan(said, segmented.subtasks, found)
    BY <1>3 DEF SearchSubtasks
  <2>3. segmented = SegmentCommand(said) /\ segmented.decision \in {"simple", "compound"}
        /\ said \in Sayings
    BY <2>1 DEF RoutingInv
  <2>4. plan'.lane # "fast"
    BY <2>2 DEF AssemblePlan, Question
  <2>5. CommandIsCovered(said, plan')
    BY <2>2, <2>3, <2>4, AssembledCovers DEF CommandIsCovered
  <2>. QED BY <2>1, <2>5 DEF RoutingInv
<1>4. CASE SearchUnavailable \/ Decided
  <2>1. /\ at # "idle" /\ at' \in {"decided", "planned"} /\ said' = said /\ fast' = fast
        /\ plan' \in {plan, fast, Question, NoPlan}
    BY <1>4 DEF SearchUnavailable, Decided
  <2>. QED BY <1>0, <2>1 DEF RoutingInv
<1>5. CASE Answered \/ UNCHANGED routingVars \/ \E as \in {"ready", "failed"} : IndexStarted(as)
  BY <1>5 DEF Answered, routingVars, IndexStarted, RoutingInv
<1>. QED BY <1>1, <1>2, <1>3, <1>4, <1>5 DEF RoutingNext

-----------------------------------------------------------------------------
(* A step of the composition is a step or a stutter of the turns.          *)
LEMMA TurnsMove == ServicesInit => Init
BY DEF ServicesInit

LEMMA TurnsStep == [ServicesNext]_serviceVars => [Next]_turnVars
BY DEF ServicesNext, serviceVars, TurnStep, RoutingStep, CapabilityStep, ModelStep, DesktopStep,
       CommitmentStep, ListenerStep

(* The executor gets a plan once in its window, and none from a voice that *)
(* was not understood, also in the composition.                            *)
THEOREM PlansHandedRightly == ServicesSpec => []PlansAreHandedRightly
<1>1. TurnInv => PlansAreHandedRightly
  BY DEF TurnInv, PlansAreHandedRightly, Moved
<1> QED BY <1>1, TurnInit, TurnNext, TurnsMove, TurnsStep, PTL DEF ServicesSpec

(* A step of the composition is a step or a stutter of the router and of   *)
(* the planner.                                                            *)
LEMMA PlannersStep ==
    [ServicesNext]_serviceVars => [RoutingNext]_routingVars /\ [RouterNext]_modelVars
BY DEF ServicesNext, serviceVars, ServiceState, PlanState, RoutingState, ModelState, routingVars,
       modelVars, TurnStep, RoutingStep, CapabilityStep, ModelStep, DesktopStep, CommitmentStep,
       ListenerStep

(* A command is done whole or asked about: the steps of a plan of the fast *)
(* lane or of Routing V2 take all that was said, in order, each from one   *)
(* part and with the operation of its verb, but in a text that is taken    *)
(* for one look-up of an API; of the graph a model proposed every step is  *)
(* run or none. For texts of any length, any resolution the  *)
(* rules let through and any limit on the number of parts.                 *)
THEOREM CommandsAreWhole == ServicesSpec => []CommandsStayWhole
<1>1. ServicesInit => RoutingInv /\ PlanIsWhole
  BY DEF ServicesInit, RoutingInit, RoutingInv, RouterInit, PlanIsWhole
<1>2. RoutingInv /\ PlanIsWhole /\ [ServicesNext]_serviceVars => RoutingInv' /\ PlanIsWhole'
  BY PlannersStep, RoutingKeeps, WholeNext
<1>3. RoutingInv /\ PlanIsWhole => CommandsStayWhole
  BY DEF RoutingInv, PlanCoversCommand, CommandsStayWhole, Moved
<1> QED BY <1>1, <1>2, <1>3, PTL DEF ServicesSpec

(***************************************************************************)
(* CommitmentShadow: a commitment with a named day is never less urgent,   *)
(* in the fixed point of the code's scores.                                *)
(***************************************************************************)
(* What is missing of some words, and how many: naming a day takes one away*)
(* or none.                                                                *)
LEMMA MissingIsSmall ==
    ASSUME NEW type, NEW signals, NEW dated, dated = signals \cup {"deadline"}
    PROVE  LET some == Commitments!MissingElements(type, signals)
               fewer == Commitments!MissingElements(type, dated)
           IN /\ Cardinality(some) \in 0..3 /\ Cardinality(fewer) \in 0..3
              /\ Cardinality(fewer) <= Cardinality(some)
              /\ Cardinality(some) <= Cardinality(fewer) + 1
<1>. DEFINE all == {"action", "deadline", "verification_method"}
            some == Commitments!MissingElements(type, signals)
            fewer == Commitments!MissingElements(type, dated)
<1>1. IsFiniteSet(all) /\ Cardinality(all) = 3
  <2>1. IsFiniteSet({}) /\ Cardinality({}) = 0
    BY FS_EmptySet
  <2>2. IsFiniteSet({"action"}) /\ Cardinality({"action"}) = 1
    BY FS_Singleton
  <2>3. IsFiniteSet({"action"} \cup {"deadline"}) /\ Cardinality({"action"} \cup {"deadline"}) = 2
    BY <2>2, FS_AddElement
  <2>4. {"action"} \cup {"deadline"} \cup {"verification_method"} = all
    OBVIOUS
  <2>. QED BY <2>3, <2>4, FS_AddElement
<1>2. some \subseteq all /\ fewer \subseteq all
  BY DEF Commitments!MissingElements
<1>3. fewer = some \ {"deadline"}
  BY DEF Commitments!MissingElements
<1>4. IsFiniteSet(some) /\ IsFiniteSet(fewer) /\ Cardinality(some) <= 3
  BY <1>1, <1>2, FS_Subset
<1>5. Cardinality(some) \in Nat /\ Cardinality(fewer) \in Nat
  BY <1>4, FS_CardinalityType
<1>6. CASE "deadline" \in some
  <2>1. Cardinality(fewer) = Cardinality(some) - 1
    BY <1>3, <1>4, <1>6, FS_RemoveElement
  <2>. QED BY <1>4, <1>5, <2>1
<1>7. CASE "deadline" \notin some
  <2>1. fewer = some
    BY <1>3, <1>7
  <2>. QED BY <1>4, <1>5, <2>1
<1>. QED BY <1>6, <1>7

Within(x, low, high) == x \in Int /\ low <= x /\ x <= high

CommitmentTypes ==
    {"refusal", "command", "request", "promise", "cheap_signal", "intention", "none"}

(* The scores whose parts do not turn on the day.                          *)
LEMMA ScoresAreBounded ==
    ASSUME NEW type \in CommitmentTypes, NEW signals, NEW cost,
           NEW pressure, pressure = Commitments!PressureLevel(type, signals)
    PROVE  /\ Within(pressure, 1500, 8000)
           /\ Within(Commitments!AutonomyLevel(type, pressure), 0, 10000)
           /\ Within(Commitments!EmotionalCost(type, pressure), 2000, 6800)
           /\ Within(Commitments!BenefitLevel(type), 3500, 6500)
           /\ Within(Commitments!TimeCost(cost), 2500, 6000)
           /\ Within(Commitments!ActionClarity(type, signals), 1500, 8000)
<1>. USE DEF Within, CommitmentTypes, Commitments!AtLeast, Commitments!AtMost
<1>1. Within(pressure, 1500, 8000)
  BY DEF Commitments!PressureLevel
<1>2. Within(Commitments!AutonomyLevel(type, pressure), 0, 10000)
  BY <1>1 DEF Commitments!AutonomyLevel
<1>3. Within(Commitments!EmotionalCost(type, pressure), 2000, 6800)
  BY <1>1 DEF Commitments!EmotionalCost
<1>4. Within(Commitments!BenefitLevel(type), 3500, 6500)
  BY DEF Commitments!BenefitLevel
<1>5. Within(Commitments!TimeCost(cost), 2500, 6000)
  BY DEF Commitments!TimeCost
<1>6. Within(Commitments!ActionClarity(type, signals), 1500, 8000)
  BY DEF Commitments!ActionClarity
<1>. HIDE DEF Within
<1>. QED BY <1>1, <1>2, <1>3, <1>4, <1>5, <1>6

LEMMA CognitiveOfMissing ==
    ASSUME NEW type, type # "cheap_signal", NEW missing, Cardinality(missing) \in Int
    PROVE  Commitments!CognitiveCost(type, missing) =
             IF 3500 + 1500 * Cardinality(missing) < 9000
             THEN 3500 + 1500 * Cardinality(missing) ELSE 9000
<1>1. Commitments!Cardinality(missing) = Cardinality(missing)
  BY DEF Commitments!Cardinality, Cardinality
<1>. QED BY <1>1 DEF Commitments!CognitiveCost, Commitments!AtMost

(* A day named for the first time adds to the clarity more than its absence*)
(* had cost.                                                               *)
LEMMA DayRaisesPriority ==
    ASSUME NEW some, NEW dated, 
           dated = [signals |-> some.signals \cup {"deadline"}, spoken |-> some.spoken,
                    cost |-> some.cost]
    PROVE  /\ "deadline" \notin some.signals
                => Commitments!Priority(some) < Commitments!Priority(dated)
           /\ Within(Commitments!Priority(some), 1, Commitments!Whole - 1)
<1>. DEFINE type == Commitments!CommitmentType(some.signals)
            pressure == Commitments!PressureLevel(type, some.signals)
            missing == Commitments!MissingElements(type, some.signals)
            fewer == Commitments!MissingElements(type, dated.signals)
            autonomy == Commitments!AutonomyLevel(type, pressure)
            emotional == Commitments!EmotionalCost(type, pressure)
            action == Commitments!ActionClarity(type, some.signals)
            time == Commitments!TimeCost(some.cost)
            benefit == Commitments!BenefitLevel(type)
            Cognitive(m) == Commitments!CognitiveCost(type, m)
            Sum(deadline, cognitive) ==
              3 * (30 * deadline + 25 * benefit + 15 * pressure - 5 * (10000 - autonomy))
              + 20 * (action + deadline + 7500) + 10 * (time + cognitive + emotional)
<1>1. /\ type \in CommitmentTypes
      /\ Commitments!CommitmentType(dated.signals) = type
      /\ Commitments!PressureLevel(type, dated.signals) = pressure
      /\ Commitments!ActionClarity(type, dated.signals) = action
  BY DEF Commitments!CommitmentType, CommitmentTypes, Commitments!PressureLevel,
         Commitments!ActionClarity
<1>2. /\ Commitments!Priority(some)
           = Sum(Commitments!DeadlineClarity(type, some.signals), Cognitive(missing))
      /\ Commitments!Priority(dated)
           = Sum(Commitments!DeadlineClarity(type, dated.signals), Cognitive(fewer))
  BY <1>1 DEF Commitments!Priority
<1>3. /\ Commitments!DeadlineClarity(type, dated.signals) = 8500
      /\ Commitments!DeadlineClarity(type, some.signals) \in {1000, 5000, 8500}
      /\ "deadline" \notin some.signals => Commitments!DeadlineClarity(type, some.signals) <= 5000
  BY DEF Commitments!DeadlineClarity
<1>4. /\ Within(Cognitive(missing), 3500, 9000) /\ Within(Cognitive(fewer), 3500, 9000)
      /\ Cognitive(missing) <= Cognitive(fewer) + 1500
  <2>. DEFINE m == Cardinality(missing)  f == Cardinality(fewer)
  <2>1. /\ Within(m, 0, 3) /\ Within(f, 0, 3) /\ f <= m /\ m <= f + 1
    BY MissingIsSmall DEF Within
  <2>2. CASE type = "cheap_signal"
    BY <2>2 DEF Within, Commitments!CognitiveCost
  <2>3. CASE type # "cheap_signal"
    <3>. HIDE DEF type, missing, fewer
    <3>1. /\ Cognitive(missing) = IF 3500 + 1500 * m < 9000 THEN 3500 + 1500 * m ELSE 9000
          /\ Cognitive(fewer) = IF 3500 + 1500 * f < 9000 THEN 3500 + 1500 * f ELSE 9000
      BY <2>1, <2>3, CognitiveOfMissing DEF Within
    <3>. HIDE DEF m, f, Cognitive
    <3>. QED BY <2>1, <3>1 DEF Within
  <2>. QED BY <2>2, <2>3
<1>5. /\ Within(pressure, 1500, 8000) /\ Within(autonomy, 0, 10000) /\ Within(emotional, 2000, 6800)
      /\ Within(benefit, 3500, 6500) /\ Within(time, 2500, 6000) /\ Within(action, 1500, 8000)
  BY <1>1, ScoresAreBounded
<1>. HIDE DEF type, pressure, missing, fewer, autonomy, emotional, action, time, benefit, Cognitive
<1>. QED BY <1>2, <1>3, <1>4, <1>5 DEF Within, Commitments!Whole

(* What was heard stays words that can be said.                           *)
HeardIsSaid == heardWords \in Commitments!Said

LEMMA HeardInit == ServicesInit => HeardIsSaid
BY DEF ServicesInit, Commitments!Init, HeardIsSaid

LEMMA HeardNext == HeardIsSaid /\ [ServicesNext]_serviceVars => HeardIsSaid'
BY DEF HeardIsSaid, ServicesNext, serviceVars, ServiceState, CommitmentState, TurnStep, RoutingStep,
     CapabilityStep, ModelStep, DesktopStep, CommitmentStep, ListenerStep, Commitments!Next,
     Commitments!Publishes, Commitments!KeepsForReview, Commitments!Ends

(* Of the same words with a day named, none scores lower.                  *)
THEOREM DayNeverLowersPriority == ServicesSpec => []NamedDayRaisesPriority
<1>1. HeardIsSaid => NamedDayRaisesPriority
  <2>. SUFFICES ASSUME heardWords \in Commitments!Said PROVE Commitments!NamedDayRaisesPriority
    BY DEF HeardIsSaid, NamedDayRaisesPriority, Moved
  <2>. DEFINE dated == [heardWords EXCEPT !.signals = @ \cup {"deadline"}]
  <2>1. /\ dated = [signals |-> heardWords.signals \cup {"deadline"},
                    spoken |-> heardWords.spoken, cost |-> heardWords.cost]
        /\ heardWords # dated => "deadline" \notin heardWords.signals
    BY DEF Commitments!Said
  <2>. HIDE DEF dated
  <2>2. /\ heardWords # dated => Commitments!Priority(heardWords) < Commitments!Priority(dated)
        /\ Within(Commitments!Priority(heardWords), 1, Commitments!Whole - 1)
    BY <2>1, DayRaisesPriority
  <2>3. 0 < Commitments!Priority(heardWords) /\ Commitments!Priority(heardWords) < Commitments!Whole
    BY <2>2 DEF Within, Commitments!Whole
  <2>. QED BY <2>2, <2>3, Zenon DEF Commitments!NamedDayRaisesPriority, dated
<1>. QED BY <1>1, HeardInit, HeardNext, PTL DEF ServicesSpec

(***************************************************************************)
(* DeepgramListener: what is handed over was said in one connection, not   *)
(* before a stop, and in this order; a one-shot is answered.               *)
(***************************************************************************)
Fragments == [conn : Nat, of : Nat]
Utterances == [from : SUBSET Fragments, prefix : Nat, number : Nat]
Channels == [queue : Seq(Utterances), alive : BOOLEAN, calling : Utterances \cup {NoUtterance}]

ListenerShape ==
    /\ listens \in Nat /\ connection \in Nat /\ messages \in Nat /\ forgotten \in 0..listens
    /\ finals \in Seq([word : Vocabulary, conn : Nat, of : Nat])
    /\ channel \in [Listener!Kinds -> Channels] /\ urgent \subseteq Utterances
    /\ prefix \in {0, listens}

(* The words of u are of one connection; u is of the present one.          *)
OfOneStream(u) == \A p, q \in u.from : p.conn = q.conn /\ u.prefix \in {0, p.of}
OfThisStream(u) ==
    u.from \subseteq {[conn |-> connection, of |-> listens]} /\ u.prefix \in {0, listens}

PartsAreOfThisStream ==
    \A i \in DOMAIN finals : finals[i].conn = connection /\ finals[i].of = listens

(* Numbers that u, put into the queue of k, has to exceed.                 *)
Ceiling(k) == IF k = "final" /\ stream = "closing" THEN closing.number - 1 ELSE messages

(* A channel hands over in order what was said after the listening gone,   *)
(* and was said by now.                                                    *)
HandsOver(c, gone, now) ==
    /\ \A i \in DOMAIN c.queue :
         /\ OfOneStream(c.queue[i]) /\ c.queue[i].number <= now
         /\ \A p \in c.queue[i].from : p.of > gone
         /\ \A j \in DOMAIN c.queue : i < j => c.queue[i].number < c.queue[j].number
         /\ c.calling # NoUtterance => c.calling.number < c.queue[i].number
    /\ c.calling # NoUtterance => OfOneStream(c.calling) /\ c.calling.number <= now
ChannelsHandOver ==
    \A k \in Listener!Kinds : HandsOver(channel[k], forgotten, Ceiling(k))

(* The utterance held while the socket is closed is the last one said.     *)
HeldIsLast ==
    IF stream = "closing"
    THEN closing \in Utterances /\ OfThisStream(closing) /\ closing.number \in 1..messages
    ELSE closing = NoUtterance

StreamIsLive ==
    /\ stream # "none" => forgotten < listens
    /\ op.at = "gathering" => stream = "none"

ListenerInv ==
    /\ ListenerShape /\ PartsAreOfThisStream /\ ChannelsHandOver /\ HeldIsLast /\ StreamIsLive
    /\ \A u \in urgent : OfOneStream(u)

OneShotInv ==
    /\ once => running
    /\ op.at # "free" => answered # "waiting"
    /\ Listener!OneShotIsAnswered

(* What a channel holds.                                                   *)
LEMMA ChannelHolds ==
    ASSUME NEW c \in Channels
    PROVE  /\ c.queue \in Seq(Utterances) /\ c.alive \in BOOLEAN
           /\ \A i \in DOMAIN c.queue : c.queue[i] \in Utterances /\ c.queue[i].number \in Nat
           /\ c.calling # NoUtterance => c.calling \in Utterances /\ c.calling.number \in Nat
           /\ \A queue \in Seq(Utterances) : [c EXCEPT !.queue = queue] \in Channels
<1>1. /\ c.queue \in Seq(Utterances) /\ c.alive \in BOOLEAN
      /\ c.calling \in Utterances \cup {NoUtterance}
      /\ \A queue \in Seq(Utterances) : [c EXCEPT !.queue = queue] \in Channels
  BY DEF Channels
<1>2. \A i \in DOMAIN c.queue : c.queue[i] \in Utterances
  BY <1>1
<1>3. \A u \in Utterances : u.number \in Nat
  BY DEF Utterances
<1>. QED BY <1>1, <1>2, <1>3

(* Nothing is heard at first.                                              *)
LEMMA ListenerStarts == ASSUME Listener!Init PROVE ListenerInv /\ OneShotInv
<1>1. <<>> \in Seq(Utterances) /\ <<>> \in Seq([word : Vocabulary, conn : Nat, of : Nat])
  BY EmptySeq
<1>2. Listener!Silent \in Channels
  BY <1>1 DEF Listener!Silent, Channels
<1>3. channel \in [Listener!Kinds -> Channels]
  BY <1>2 DEF Listener!Init
<1>4. /\ listens = 0 /\ connection = 0 /\ messages = 0 /\ forgotten = 0 /\ prefix = 0
      /\ finals = <<>> /\ urgent = {} /\ stream = "none" /\ closing = NoUtterance
      /\ op.at = "free" /\ ~once /\ answered = "unasked"
      /\ \A k \in Listener!Kinds : channel[k].queue = <<>> /\ channel[k].calling = NoUtterance
  BY DEF Listener!Init, Listener!Silent, Listener!Free
<1>5. ListenerShape
  BY <1>1, <1>3, <1>4 DEF ListenerShape
<1>6. PartsAreOfThisStream /\ HeldIsLast /\ StreamIsLive /\ \A u \in urgent : OfOneStream(u)
  BY <1>4 DEF PartsAreOfThisStream, HeldIsLast, StreamIsLive
<1>7. ChannelsHandOver
  BY <1>4 DEF ChannelsHandOver, HandsOver
<1>8. OneShotInv
  BY <1>4 DEF OneShotInv, Listener!OneShotIsAnswered
<1>. QED BY <1>5, <1>6, <1>7, <1>8 DEF ListenerInv

(* As time goes on.                                                        *)
LEMMA HandsOverLater ==
    ASSUME NEW c \in Channels, NEW gone, NEW now \in Int, NEW later \in Int, now <= later,
           HandsOver(c, gone, now)
    PROVE  HandsOver(c, gone, later)
<1>. QED BY ChannelHolds DEF HandsOver

(* What is put last into a queue.                                          *)
LEMMA PutHandsOver ==
    ASSUME NEW c \in Channels, NEW gone \in Nat, NEW now \in Int, HandsOver(c, gone, now),
           NEW u \in Utterances, OfOneStream(u), now < u.number, \A p \in u.from : p.of > gone,
           NEW new, new = [c EXCEPT !.queue = Listener!PutLatestBounded(@, u), !.alive = TRUE]
    PROVE  new \in Channels /\ HandsOver(new, gone, u.number)
<1>. DEFINE q == IF Len(c.queue) = QueueSize THEN Tail(c.queue) ELSE c.queue
            d == IF Len(c.queue) = QueueSize THEN 1 ELSE 0
<1>1. c.queue \in Seq(Utterances) /\ QueueSize \in Nat \ {0}
  BY ListenerAssumption DEF Channels
<1>2. /\ q \in Seq(Utterances) /\ d \in Nat /\ Len(q) \in Nat
      /\ \A i \in 1..Len(q) : i + d \in DOMAIN c.queue /\ q[i] = c.queue[i + d]
  <2>1. CASE Len(c.queue) = QueueSize
    BY <1>1, <2>1
  <2>2. CASE Len(c.queue) # QueueSize
    <3>1. q = c.queue /\ d = 0
      BY <2>2
    <3>. QED BY <1>1, <3>1
  <2>. QED BY <2>1, <2>2
<1>3. new.queue = Append(q, u) /\ new.calling = c.calling /\ new \in Channels
  <2>1. new = [c EXCEPT !.queue = Append(q, u), !.alive = TRUE]
    BY DEF Listener!PutLatestBounded
  <2>. HIDE DEF q
  <2>2. Append(q, u) \in Seq(Utterances)
    BY <1>2
  <2>. QED BY <2>1, <2>2 DEF Channels
<1>. HIDE DEF q, d
<1>4. /\ DOMAIN new.queue = 1..(Len(q) + 1)
      /\ new.queue[Len(q) + 1] = u
      /\ \A i \in 1..Len(q) : i + d \in DOMAIN c.queue /\ new.queue[i] = c.queue[i + d]
  BY <1>2, <1>3
<1>5. /\ \A i \in DOMAIN c.queue : c.queue[i].number \in Nat
      /\ c.calling # NoUtterance => c.calling.number \in Nat
      /\ u.number \in Nat
  BY ChannelHolds DEF Utterances
<1>6. ASSUME NEW i \in DOMAIN new.queue
      PROVE  /\ OfOneStream(new.queue[i]) /\ new.queue[i].number <= u.number
             /\ \A p \in new.queue[i].from : p.of > gone
             /\ \A j \in DOMAIN new.queue : i < j => new.queue[i].number < new.queue[j].number
             /\ new.calling # NoUtterance => new.calling.number < new.queue[i].number
  <2>1. CASE i = Len(q) + 1
    BY <2>1, <1>2, <1>3, <1>4, <1>5 DEF HandsOver
  <2>2. CASE i # Len(q) + 1
    <3>1. i \in 1..Len(q) /\ i + d \in DOMAIN c.queue /\ new.queue[i] = c.queue[i + d]
      BY <2>2, <1>2, <1>4, <1>6
    <3>2. /\ OfOneStream(new.queue[i]) /\ new.queue[i].number <= now
          /\ \A p \in new.queue[i].from : p.of > gone
          /\ new.calling # NoUtterance => new.calling.number < new.queue[i].number
      BY <3>1, <1>3 DEF HandsOver
    <3>3. ASSUME NEW j \in DOMAIN new.queue, i < j
          PROVE  new.queue[i].number < new.queue[j].number
      <4>1. CASE j = Len(q) + 1
        BY <4>1, <1>4, <1>5, <3>1, <3>2
      <4>2. CASE j # Len(q) + 1
        <5>1. j \in 1..Len(q) /\ j + d \in DOMAIN c.queue /\ new.queue[j] = c.queue[j + d]
              /\ i + d < j + d
          BY <4>2, <1>2, <1>4, <3>3
        <5>. QED BY <5>1, <3>1 DEF HandsOver
      <4>. QED BY <4>1, <4>2
    <3>4. new.queue[i].number <= u.number
      BY <3>1, <3>2, <1>5
    <3>. QED BY <3>2, <3>3, <3>4
  <2>. QED BY <2>1, <2>2
<1>7. new.calling # NoUtterance => OfOneStream(new.calling) /\ new.calling.number <= u.number
  BY <1>3, <1>5 DEF HandsOver
<1>. QED BY <1>3, <1>6, <1>7 DEF HandsOver

(* What the worker of a channel takes.                                     *)
LEMMA DrainedHandsOver ==
    ASSUME NEW c \in Channels, NEW gone, NEW now, HandsOver(c, gone, now)
    PROVE  Listener!Drained(c) \in Channels /\ HandsOver(Listener!Drained(c), gone, now)
<1>1. CASE c.queue = <<>>
  BY <1>1 DEF Listener!Drained, Listener!Silent, Channels, HandsOver
<1>2. CASE c.queue # <<>>
  <2>. DEFINE new == [c EXCEPT !.queue = Tail(@), !.calling = Head(c.queue)]
  <2>1. c.queue \in Seq(Utterances)
    BY DEF Channels
  <2>2. /\ Tail(c.queue) \in Seq(Utterances) /\ Head(c.queue) = c.queue[1] /\ 1 \in DOMAIN c.queue
        /\ Head(c.queue) \in Utterances
        /\ \A i \in DOMAIN Tail(c.queue) : i + 1 \in DOMAIN c.queue /\ 1 < i + 1
                                           /\ Tail(c.queue)[i] = c.queue[i + 1] /\ i \in Nat
    BY <1>2, <2>1
  <2>3. /\ new.queue = Tail(c.queue) /\ new.calling = c.queue[1] /\ new \in Channels
    BY <2>2 DEF Channels
  <2>. HIDE DEF new
  <2>4. OfOneStream(new.calling) /\ new.calling.number <= now
    BY <2>2, <2>3 DEF HandsOver
  <2>5. ASSUME NEW i \in DOMAIN new.queue
        PROVE  /\ OfOneStream(new.queue[i]) /\ new.queue[i].number <= now
               /\ \A p \in new.queue[i].from : p.of > gone
               /\ \A j \in DOMAIN new.queue : i < j => new.queue[i].number < new.queue[j].number
               /\ new.calling.number < new.queue[i].number
    <3>1. i + 1 \in DOMAIN c.queue /\ 1 < i + 1 /\ new.queue[i] = c.queue[i + 1] /\ i \in Nat
      BY <2>2, <2>3
    <3>2. \A j \in DOMAIN new.queue : i < j => /\ j + 1 \in DOMAIN c.queue /\ i + 1 < j + 1
                                               /\ new.queue[j] = c.queue[j + 1]
      BY <2>2, <2>3, <3>1
    <3>. QED BY <2>2, <2>3, <3>1, <3>2 DEF HandsOver
  <2>6. Listener!Drained(c) = new
    BY <1>2 DEF Listener!Drained, new
  <2>. QED BY <2>3, <2>4, <2>5, <2>6 DEF HandsOver
<1>. QED BY <1>1, <1>2

(* A worker that was cancelled, and a queue that was cleared.              *)
LEMMA EndedHandsOver ==
    ASSUME NEW c \in Channels, NEW gone, NEW now, HandsOver(c, gone, now), NEW other
    PROVE  /\ Listener!Dead(c) \in Channels /\ HandsOver(Listener!Dead(c), gone, now)
           /\ [c EXCEPT !.queue = <<>>] \in Channels
           /\ HandsOver([c EXCEPT !.queue = <<>>], other, now)
<1>1. c.queue \in Seq(Utterances) /\ c.alive \in BOOLEAN
  BY ChannelHolds
<1>2. [c EXCEPT !.queue = <<>>] \in Channels
  BY ChannelHolds, EmptySeq
<1>3. Listener!Dead(c) \in Channels
  BY <1>1 DEF Listener!Dead, Channels
<1>4. HandsOver(Listener!Dead(c), gone, now)
  BY DEF Listener!Dead, Channels, HandsOver
<1>5. HandsOver([c EXCEPT !.queue = <<>>], other, now)
  BY DEF Channels, HandsOver
<1>. QED BY <1>2, <1>3, <1>4, <1>5

(* Callbacks begin, end and are cancelled, and calls of start and stop end *)
(* or begin to stop: the stream and what it has heard stay.                *)
LEMMA CallbacksMove ==
    ASSUME ListenerInv, channel' \in [Listener!Kinds -> Channels],
           \A k \in Listener!Kinds : HandsOver(channel'[k], forgotten, Ceiling(k)),
           urgent' \subseteq urgent, op'.at # "gathering" \/ UNCHANGED op, prefix' \in {0, prefix},
           UNCHANGED <<stream, finals, closing, listens, connection, messages, forgotten>>
    PROVE  ListenerInv'
<1>1. ListenerShape'
  BY DEF ListenerInv, ListenerShape
<1>2. PartsAreOfThisStream' /\ HeldIsLast' /\ StreamIsLive'
  BY DEF ListenerInv, PartsAreOfThisStream, HeldIsLast, OfThisStream, StreamIsLive
<1>3. ChannelsHandOver'
  BY DEF ChannelsHandOver, Ceiling
<1>. QED BY <1>1, <1>2, <1>3 DEF ListenerInv

(* The stream moves on without a message.                                  *)
LEMMA StreamMoves ==
    ASSUME ListenerInv, stream # "none", stream' # "closing", closing' = NoUtterance,
           finals' = <<>> \/ UNCHANGED <<finals, connection>>, connection' \in Nat,
           prefix' \in {0, prefix}, UNCHANGED <<channel, urgent, op, listens, messages, forgotten>>
    PROVE  ListenerInv'
<1>1. ListenerShape'
  BY EmptySeq DEF ListenerInv, ListenerShape
<1>2. PartsAreOfThisStream'
  BY DEF ListenerInv, PartsAreOfThisStream
<1>3. HeldIsLast' /\ StreamIsLive'
  BY DEF ListenerInv, HeldIsLast, StreamIsLive
<1>4. ChannelsHandOver'
  <2>1. ASSUME NEW k \in Listener!Kinds PROVE HandsOver(channel[k], forgotten, messages)
    <3>1. /\ channel[k] \in Channels /\ HandsOver(channel[k], forgotten, Ceiling(k))
          /\ messages \in Nat
      BY DEF ListenerInv, ListenerShape, ChannelsHandOver
    <3>2. Ceiling(k) \in Int /\ Ceiling(k) <= messages
      BY <3>1 DEF ListenerInv, HeldIsLast, Ceiling
    <3>. QED BY <3>1, <3>2, HandsOverLater
  <2>. QED BY <2>1 DEF ChannelsHandOver, Ceiling
<1>. QED BY <1>1, <1>2, <1>3, <1>4 DEF ListenerInv

(* Listening begins where nothing runs.                                    *)
LEMMA ListeningBegins ==
    ASSUME ListenerInv, NEW what, Listener!StartLocked(what), op'.at # "gathering",
           channel' \in [Listener!Kinds -> Channels], forgotten' \in 0..listens,
           \A k \in Listener!Kinds : HandsOver(channel'[k], forgotten', messages),
           UNCHANGED <<urgent, messages, connection>>
    PROVE  ListenerInv'
<1>1. /\ listens' = listens + 1 /\ prefix' \in {0, listens'} /\ stream' = "opening"
      /\ finals' = <<>> /\ closing' = NoUtterance
  BY DEF Listener!StartLocked
<1>2. ListenerShape'
  BY <1>1, EmptySeq DEF ListenerInv, ListenerShape
<1>3. PartsAreOfThisStream'
  BY <1>1 DEF PartsAreOfThisStream
<1>4. HeldIsLast' /\ StreamIsLive'
  BY <1>1, <1>2 DEF HeldIsLast, StreamIsLive, ListenerInv, ListenerShape
<1>5. ChannelsHandOver'
  BY <1>1 DEF ChannelsHandOver, Ceiling
<1>. QED BY <1>2, <1>3, <1>4, <1>5 DEF ListenerInv

(* start, start_once, start_conversation and stop begin.                   *)
LEMMA BeginsKeeps ==
    ASSUME ListenerInv, NEW by, NEW on, NEW what, Listener!Begins(by, on, what)
    PROVE  ListenerInv'
<1>1. op.at = "free" /\ UNCHANGED <<channel, urgent, connection, messages, forgotten>>
  BY DEF Listener!Begins, Listener!Free, Listener!callbacks, Listener!counters, Listener!histories
<1>2. CASE Listener!StopsFirst(what) \/ running
  <2>1. /\ op'.at # "gathering" /\ prefix' \in {0, prefix}
        /\ UNCHANGED <<stream, finals, closing, listens>>
    BY <1>1, <1>2 DEF Listener!Begins, Listener!ClearedFlags, Listener!speech, Listener!histories
  <2>. QED BY <1>1, <2>1, CallbacksMove DEF ListenerInv, ListenerShape, ChannelsHandOver
<1>3. CASE ~Listener!StopsFirst(what) /\ ~running
  <2>1. stream = "none" /\ Listener!StartLocked(what) /\ op'.at # "gathering"
    BY <1>1, <1>3 DEF Listener!Begins, Listener!StopsFirst
  <2>2. \A k \in Listener!Kinds : Ceiling(k) = messages
    BY <2>1 DEF Ceiling
  <2>. QED BY <1>1, <2>1, <2>2, ListeningBegins DEF ListenerInv, ListenerShape, ChannelsHandOver
<1>. QED BY <1>2, <1>3

(* A stop has ended the stream.                                            *)
LEMMA StreamStoppedKeeps == ASSUME ListenerInv, Listener!StreamStopped PROVE ListenerInv'
<1>1. /\ op.at = "stopping" /\ stream' = "none" /\ finals' = <<>> /\ closing' = NoUtterance
      /\ UNCHANGED <<channel, urgent, listens, connection, messages, forgotten, prefix>>
  BY DEF Listener!StreamStopped, Listener!flags, Listener!histories, Listener!counters
<1>2. ListenerShape'
  BY <1>1, EmptySeq DEF ListenerInv, ListenerShape
<1>3. PartsAreOfThisStream' /\ HeldIsLast' /\ StreamIsLive'
  BY <1>1 DEF PartsAreOfThisStream, HeldIsLast, StreamIsLive
<1>4. ChannelsHandOver'
  <2>1. ASSUME NEW k \in Listener!Kinds PROVE HandsOver(channel[k], forgotten, messages)
    <3>1. /\ channel[k] \in Channels /\ HandsOver(channel[k], forgotten, Ceiling(k))
          /\ messages \in Nat
      BY DEF ListenerInv, ListenerShape, ChannelsHandOver
    <3>2. Ceiling(k) \in Int /\ Ceiling(k) <= messages
      BY <3>1 DEF ListenerInv, HeldIsLast, Ceiling
    <3>. QED BY <3>1, <3>2, HandsOverLater
  <2>. QED BY <1>1, <2>1 DEF ChannelsHandOver, Ceiling
<1>. QED BY <1>1, <1>2, <1>3, <1>4 DEF ListenerInv

(* The callbacks have ended, and the queues are cleared.                   *)
LEMMA GatheredKeeps == ASSUME ListenerInv, Listener!Gathered PROVE ListenerInv'
<1>1. /\ op.at = "gathering" /\ stream = "none" /\ op'.at # "gathering" /\ forgotten' = listens
      /\ UNCHANGED <<urgent, connection, messages>> /\ channel' = Listener!QueuesCleared
  BY DEF Listener!Gathered, Listener!Free, Listener!counters, ListenerInv, StreamIsLive
<1>2. \A k \in Listener!Kinds : channel[k] \in Channels /\ HandsOver(channel[k], forgotten, messages)
  BY <1>1 DEF ListenerInv, ListenerShape, ChannelsHandOver, Ceiling
<1>3. \A k \in Listener!Kinds : /\ [channel[k] EXCEPT !.queue = <<>>] \in Channels
                                /\ HandsOver([channel[k] EXCEPT !.queue = <<>>], listens, messages)
  BY <1>2, EndedHandsOver
<1>4. /\ channel' \in [Listener!Kinds -> Channels]
      /\ \A k \in Listener!Kinds : HandsOver(channel'[k], listens, messages)
  BY <1>1, <1>3 DEF Listener!QueuesCleared
<1>5. listens \in Nat
  BY DEF ListenerInv, ListenerShape
<1>6. CASE op.what = "stop"
  <2>1. UNCHANGED <<stream, finals, closing, listens, prefix>>
    BY <1>6 DEF Listener!Gathered, Listener!flags, Listener!speech
  <2>2. ListenerShape'
    BY <1>1, <1>4, <1>5, <2>1 DEF ListenerInv, ListenerShape
  <2>3. PartsAreOfThisStream' /\ HeldIsLast' /\ StreamIsLive'
    BY <1>1, <2>1 DEF ListenerInv, PartsAreOfThisStream, HeldIsLast, StreamIsLive
  <2>4. ChannelsHandOver'
    BY <1>1, <1>4, <2>1 DEF ChannelsHandOver, Ceiling
  <2>. QED BY <1>1, <2>2, <2>3, <2>4 DEF ListenerInv
<1>7. CASE op.what # "stop"
  <2>1. Listener!StartLocked(op.what)
    BY <1>7 DEF Listener!Gathered
  <2>. QED BY <1>1, <1>4, <1>5, <2>1, ListeningBegins
<1>. QED BY <1>6, <1>7

(* The workers of the callbacks.                                           *)
LEMMA WorkersKeep ==
    ASSUME ListenerInv,
           \/ \E k \in Listener!Kinds : Listener!DrainCallbacks(k) \/ Listener!WorkerCancelled(k)
           \/ \E u \in urgent : Listener!UrgentEnds(u)
           \/ Listener!CallerCancelled
    PROVE  ListenerInv'
<1>. /\ channel \in [Listener!Kinds -> Channels] /\ "final" \in Listener!Kinds
     /\ \A k \in Listener!Kinds : HandsOver(channel[k], forgotten, Ceiling(k))
  BY DEF ListenerInv, ListenerShape, ChannelsHandOver, Listener!Kinds
<1>1. /\ UNCHANGED <<stream, finals, closing, listens, connection, messages, forgotten, prefix>>
      /\ urgent' \subseteq urgent /\ (op'.at # "gathering" \/ UNCHANGED op)
  BY DEF Listener!DrainCallbacks, Listener!WorkerCancelled, Listener!UrgentEnds, Listener!Free,
     Listener!CallerCancelled, Listener!flags, Listener!speech, Listener!histories, Listener!counters
<1>2. \/ UNCHANGED channel
      \/ \E k \in Listener!Kinds : \/ channel' = [channel EXCEPT ![k] = Listener!Drained(@)]
                                   \/ channel' = [channel EXCEPT ![k] = Listener!Dead(@)]
  BY DEF Listener!DrainCallbacks, Listener!WorkerCancelled, Listener!UrgentEnds,
     Listener!CallerCancelled
<1>3. /\ channel' \in [Listener!Kinds -> Channels]
      /\ \A k \in Listener!Kinds : HandsOver(channel'[k], forgotten, Ceiling(k))
  <2>1. CASE UNCHANGED channel
    BY <2>1
  <2>2. ASSUME NEW k \in Listener!Kinds, NEW new, channel' = [channel EXCEPT ![k] = new],
               new = Listener!Drained(channel[k]) \/ new = Listener!Dead(channel[k])
        PROVE  /\ channel' \in [Listener!Kinds -> Channels]
               /\ \A j \in Listener!Kinds : HandsOver(channel'[j], forgotten, Ceiling(j))
    <3>1. new \in Channels /\ HandsOver(new, forgotten, Ceiling(k))
      BY <2>2, DrainedHandsOver, EndedHandsOver
    <3>. QED BY <2>2, <3>1
  <2>. QED BY <1>2, <2>1, <2>2
<1>. QED BY <1>1, <1>3, CallbacksMove

(* An utterance is put into the queue of k.                                *)
LEMMA DispatchKeeps ==
    ASSUME ListenerInv, NEW k \in Listener!Kinds, NEW u \in Utterances, OfOneStream(u),
           Ceiling(k) < u.number, \A p \in u.from : p.of > forgotten, Listener!Dispatch(k, u)
    PROVE  /\ channel' \in [Listener!Kinds -> Channels] /\ UNCHANGED urgent
           /\ HandsOver(channel'[k], forgotten, u.number)
           /\ \A j \in Listener!Kinds \ {k} : channel'[j] = channel[j]
<1>. DEFINE new == [channel[k] EXCEPT !.queue = Listener!PutLatestBounded(@, u), !.alive = TRUE]
<1>1. /\ channel \in [Listener!Kinds -> Channels] /\ forgotten \in Nat
      /\ HandsOver(channel[k], forgotten, Ceiling(k)) /\ Ceiling(k) \in Int
  BY DEF ListenerInv, ListenerShape, ChannelsHandOver, Ceiling, HeldIsLast
<1>2. channel' = [channel EXCEPT ![k] = new] /\ UNCHANGED urgent
  BY <1>1 DEF Listener!Dispatch
<1>3. new \in Channels /\ HandsOver(new, forgotten, u.number)
  BY <1>1, PutHandsOver
<1>. HIDE DEF new
<1>. QED BY <1>1, <1>2, <1>3

(* Whatever is handed over next is of the present stream and the last one. *)
LEMMA ThisStreamIsOne ==
    ASSUME ListenerInv, stream # "none", NEW u \in Utterances, OfThisStream(u)
    PROVE  OfOneStream(u) /\ \A p \in u.from : p.of > forgotten
  BY DEF OfOneStream, OfThisStream, ListenerInv, ListenerShape, StreamIsLive

(* An utterance is made of parts of the present stream.                    *)
LEMMA UtteranceIsOfThisStream ==
    ASSUME ListenerInv, messages' = messages + 1, NEW all \in Seq([word : Vocabulary, conn : Nat, of : Nat]),
           \A i \in DOMAIN all : all[i].conn = connection /\ all[i].of = listens,
           NEW lead \in {0, prefix}
    PROVE  /\ Listener!Utterance(all, lead) \in Utterances
           /\ OfThisStream(Listener!Utterance(all, lead))
           /\ Listener!Utterance(all, lead).number = messages + 1
<1>1. connection \in Nat /\ listens \in Nat /\ messages \in Nat /\ prefix \in {0, listens}
  BY DEF ListenerInv, ListenerShape
<1>. DEFINE from == {[conn |-> p.conn, of |-> p.of] : p \in Listener!ToSet(all)}
<1>2. from \subseteq {[conn |-> connection, of |-> listens]}
  BY DEF Listener!ToSet
<1>3. from \in SUBSET Fragments
  BY <1>1, <1>2 DEF Fragments
<1>. HIDE DEF from
<1>4. Listener!Utterance(all, lead) = [from |-> from, prefix |-> lead, number |-> messages + 1]
  BY DEF Listener!Utterance, from
<1>. QED BY <1>1, <1>2, <1>3, <1>4 DEF Utterances, OfThisStream

(* A message is heard: what is put into the queues is the last there is.   *)
LEMMA HearingKeeps ==
    ASSUME ListenerInv, Listener!Hears,
           finals' \in Seq([word : Vocabulary, conn : Nat, of : Nat]),
           \A i \in DOMAIN finals' : finals'[i].conn = connection /\ finals'[i].of = listens,
           prefix' \in {0, prefix},
           stream' = "closing" => /\ closing' \in Utterances /\ OfThisStream(closing')
                                  /\ closing'.number = messages + 1 /\ UNCHANGED channel,
           stream' # "closing" => UNCHANGED <<stream, closing>>,
           channel' \in [Listener!Kinds -> Channels], urgent' \subseteq Utterances,
           \A k \in Listener!Kinds : channel'[k] = channel[k] \/ HandsOver(channel'[k], forgotten, messages + 1),
           \A u \in urgent' : OfOneStream(u)
    PROVE  ListenerInv'
<1>1. /\ stream \in {"open", "ending"} /\ messages' = messages + 1
      /\ UNCHANGED <<op, listens, forgotten, connection>>
  BY DEF Listener!Hears, Listener!histories
<1>2. messages \in Nat /\ listens \in Nat
  BY DEF ListenerInv, ListenerShape
<1>3. ListenerShape'
  BY <1>1, <1>2 DEF ListenerInv, ListenerShape
<1>4. PartsAreOfThisStream' /\ StreamIsLive'
  BY <1>1 DEF ListenerInv, PartsAreOfThisStream, StreamIsLive
<1>5. HeldIsLast'
  BY <1>1, <1>2 DEF ListenerInv, HeldIsLast, OfThisStream, ListenerShape
<1>6. ASSUME NEW k \in Listener!Kinds PROVE HandsOver(channel'[k], forgotten', Ceiling(k)')
  <2>1. HandsOver(channel[k], forgotten, messages) /\ channel[k] \in Channels
    BY <1>1 DEF ListenerInv, ChannelsHandOver, Ceiling, ListenerShape
  <2>2. HandsOver(channel[k], forgotten, messages + 1)
    BY <1>2, <2>1, HandsOverLater
  <2>3. Ceiling(k)' = messages \/ Ceiling(k)' = messages + 1
    BY <1>1, <1>2 DEF Ceiling
  <2>4. Ceiling(k)' = messages => UNCHANGED channel
    BY <1>1, <1>2 DEF Ceiling
  <2>. QED BY <1>1, <2>1, <2>2, <2>3, <2>4
<1>. QED BY <1>3, <1>4, <1>5, <1>6 DEF ListenerInv, ChannelsHandOver

(* An utterance is over.                                                   *)
LEMMA FlushKeeps ==
    ASSUME ListenerInv, Listener!Hears, NEW all \in Seq([word : Vocabulary, conn : Nat, of : Nat]),
           \A i \in DOMAIN all : all[i].conn = connection /\ all[i].of = listens,
           Listener!Flush(all)
    PROVE  ListenerInv'
<1>. DEFINE u == Listener!Utterance(all, prefix)
<1>1. /\ finals' = <<>> /\ finals' \in Seq([word : Vocabulary, conn : Nat, of : Nat])
      /\ \A i \in DOMAIN finals' : finals'[i].conn = connection /\ finals'[i].of = listens
  BY EmptySeq DEF Listener!Flush
<1>2. stream \in {"open", "ending"} /\ messages' = messages + 1
  BY DEF Listener!Hears
<1>3. /\ channel \in [Listener!Kinds -> Channels] /\ urgent \subseteq Utterances
      /\ messages \in Nat /\ "final" \in Listener!Kinds
      /\ \A v \in urgent : OfOneStream(v)
  BY DEF ListenerInv, ListenerShape, Listener!Kinds
<1>4. u \in Utterances /\ OfThisStream(u) /\ u.number = messages + 1
  BY <1>2, UtteranceIsOfThisStream
<1>5. OfOneStream(u) /\ \A p \in u.from : p.of > forgotten
  BY <1>2, <1>4, ThisStreamIsOne
<1>6. CASE UNCHANGED <<running, once, conversation, prefix, stream, closing, channel, urgent>>
  BY <1>1, <1>2, <1>3, <1>6, HearingKeeps
<1>7. CASE prefix' = 0 /\ stream' = "closing" /\ closing' = u /\ UNCHANGED <<channel, urgent>>
  BY <1>1, <1>2, <1>3, <1>4, <1>7, HearingKeeps
<1>8. CASE Listener!DispatchFinal(u) /\ UNCHANGED <<prefix, stream, closing>>
  <2>1. CASE urgent' = urgent \cup {u} /\ UNCHANGED channel
    BY <1>1, <1>2, <1>3, <1>4, <1>5, <1>8, <2>1, HearingKeeps
  <2>2. CASE Listener!Dispatch("final", u)
    <3>1. Ceiling("final") < u.number
      BY <1>2, <1>3, <1>4 DEF Ceiling
    <3>2. /\ channel' \in [Listener!Kinds -> Channels] /\ UNCHANGED urgent
          /\ HandsOver(channel'["final"], forgotten, u.number)
          /\ \A j \in Listener!Kinds \ {"final"} : channel'[j] = channel[j]
      BY <1>3, <1>4, <1>5, <2>2, <3>1, DispatchKeeps
    <3>. QED BY <1>1, <1>2, <1>3, <1>4, <1>8, <3>2, HearingKeeps
  <2>. QED BY <1>8, <2>1, <2>2 DEF Listener!DispatchFinal
<1>. QED BY <1>6, <1>7, <1>8 DEF Listener!Flush, Listener!flags, Listener!callbacks

(* Messages of the recogniser.                                             *)
LEMMA MessagesKeep ==
    ASSUME ListenerInv,
           \/ \E w \in Vocabulary, final \in BOOLEAN : Listener!FinalResult(w, final)
           \/ Listener!UtteranceEnd \/ \E w \in Vocabulary : Listener!InterimResult(w)
    PROVE  ListenerInv'
<1>. /\ finals \in Seq([word : Vocabulary, conn : Nat, of : Nat])
     /\ \A i \in DOMAIN finals : finals[i].conn = connection /\ finals[i].of = listens
     /\ connection \in Nat /\ listens \in Nat /\ messages \in Nat
     /\ channel \in [Listener!Kinds -> Channels] /\ urgent \subseteq Utterances
     /\ \A u \in urgent : OfOneStream(u)
  BY DEF ListenerInv, ListenerShape, PartsAreOfThisStream
<1>1. ASSUME NEW w \in Vocabulary
      PROVE  /\ Append(finals, Listener!Part(w)) \in Seq([word : Vocabulary, conn : Nat, of : Nat])
             /\ \A i \in DOMAIN Append(finals, Listener!Part(w)) :
                  /\ Append(finals, Listener!Part(w))[i].conn = connection
                  /\ Append(finals, Listener!Part(w))[i].of = listens
  BY DEF Listener!Part
<1>2. ASSUME NEW w \in Vocabulary, Listener!FinalResult(w, TRUE) PROVE ListenerInv'
  BY <1>1, <1>2, FlushKeeps DEF Listener!FinalResult
<1>3. ASSUME NEW w \in Vocabulary, Listener!FinalResult(w, FALSE) PROVE ListenerInv'
  <2>1. /\ Listener!Hears /\ finals' = Append(finals, Listener!Part(w)) /\ stream # "closing"
        /\ UNCHANGED <<prefix, stream, closing, channel, urgent>>
    BY <1>3 DEF Listener!FinalResult, Listener!flags, Listener!callbacks, Listener!Hears
  <2>. QED BY <1>1, <2>1, HearingKeeps
<1>4. CASE Listener!UtteranceEnd
  BY <1>4, FlushKeeps DEF Listener!UtteranceEnd
<1>5. ASSUME NEW w \in Vocabulary, Listener!InterimResult(w) PROVE ListenerInv'
  <2>. DEFINE u == Listener!Utterance(Append(finals, Listener!Part(w)), 0)
  <2>1. /\ Listener!Hears /\ stream \in {"open", "ending"} /\ messages' = messages + 1
        /\ Listener!Dispatch("interim", u)
        /\ UNCHANGED <<prefix, stream, closing, finals>>
    BY <1>5 DEF Listener!InterimResult, Listener!flags, Listener!Hears
  <2>2. u \in Utterances /\ OfThisStream(u) /\ u.number = messages + 1
    BY <1>1, <2>1, UtteranceIsOfThisStream
  <2>3. OfOneStream(u) /\ \A p \in u.from : p.of > forgotten
    BY <2>1, <2>2, ThisStreamIsOne
  <2>4. Ceiling("interim") < u.number /\ "interim" \in Listener!Kinds
    BY <2>2 DEF Ceiling, Listener!Kinds
  <2>. HIDE DEF u
  <2>5. /\ channel' \in [Listener!Kinds -> Channels] /\ UNCHANGED urgent
        /\ HandsOver(channel'["interim"], forgotten, u.number)
        /\ \A j \in Listener!Kinds \ {"interim"} : channel'[j] = channel[j]
    BY <2>1, <2>2, <2>3, <2>4, DispatchKeeps
  <2>. QED BY <2>1, <2>2, <2>5, HearingKeeps
<1>. QED BY <1>2, <1>3, <1>4, <1>5

(* The one-shot hands over what it held while it closed its socket.        *)
LEMMA SocketClosedKeeps == ASSUME ListenerInv, Listener!SocketClosed PROVE ListenerInv'
<1>1. /\ stream = "closing" /\ stream' = "ending" /\ closing' = NoUtterance
      /\ Listener!DispatchFinal(closing)
      /\ UNCHANGED <<finals, op, listens, forgotten, connection, messages, prefix>>
  BY DEF Listener!SocketClosed, Listener!flags, Listener!counters
<1>2. /\ channel \in [Listener!Kinds -> Channels] /\ urgent \subseteq Utterances
      /\ messages \in Nat /\ "final" \in Listener!Kinds
      /\ closing \in Utterances /\ OfThisStream(closing) /\ closing.number \in 1..messages
      /\ \A v \in urgent : OfOneStream(v)
  BY <1>1 DEF ListenerInv, ListenerShape, Listener!Kinds, HeldIsLast
<1>3. OfOneStream(closing) /\ \A p \in closing.from : p.of > forgotten
  BY <1>1, <1>2, ThisStreamIsOne
<1>4. \A k \in Listener!Kinds : HandsOver(channel[k], forgotten, messages)
  <2>1. ASSUME NEW k \in Listener!Kinds PROVE HandsOver(channel[k], forgotten, messages)
    <3>1. channel[k] \in Channels /\ HandsOver(channel[k], forgotten, Ceiling(k))
      BY DEF ListenerInv, ListenerShape, ChannelsHandOver
    <3>2. Ceiling(k) \in Int /\ Ceiling(k) <= messages
      BY <1>2 DEF Ceiling
    <3>. QED BY <1>2, <3>1, <3>2, HandsOverLater
  <2>. QED BY <2>1
<1>5. /\ channel' \in [Listener!Kinds -> Channels] /\ urgent' \subseteq Utterances
      /\ \A v \in urgent' : OfOneStream(v)
      /\ \A k \in Listener!Kinds : HandsOver(channel'[k], forgotten, messages)
  <2>1. CASE urgent' = urgent \cup {closing} /\ UNCHANGED channel
    BY <1>2, <1>3, <1>4, <2>1
  <2>2. CASE Listener!Dispatch("final", closing)
    <3>1. Ceiling("final") < closing.number
      BY <1>1, <1>2 DEF Ceiling
    <3>2. /\ channel' \in [Listener!Kinds -> Channels] /\ UNCHANGED urgent
          /\ HandsOver(channel'["final"], forgotten, closing.number)
          /\ \A j \in Listener!Kinds \ {"final"} : channel'[j] = channel[j]
      BY <1>2, <1>3, <2>2, <3>1, DispatchKeeps
    <3>3. channel'["final"] \in Channels /\ HandsOver(channel'["final"], forgotten, messages)
      BY <1>2, <3>2, HandsOverLater
    <3>. QED BY <1>2, <1>4, <3>2, <3>3
  <2>. QED BY <1>1, <2>1, <2>2 DEF Listener!DispatchFinal
<1>6. ListenerShape'
  BY <1>1, <1>5 DEF ListenerInv, ListenerShape
<1>7. PartsAreOfThisStream' /\ HeldIsLast' /\ StreamIsLive'
  BY <1>1 DEF ListenerInv, PartsAreOfThisStream, HeldIsLast, StreamIsLive
<1>8. ChannelsHandOver'
  BY <1>1, <1>5 DEF ChannelsHandOver, Ceiling
<1>. QED BY <1>5, <1>6, <1>7, <1>8 DEF ListenerInv

(* A one-shot that is under way is answered, unless its sender is held up. *)
LEMMA OneShotKept == ASSUME OneShotInv, Listener!Next PROVE OneShotInv'
<1>. USE DEF OneShotInv, Listener!OneShotIsAnswered
<1>1. CASE \/ \E k \in Listener!Kinds : Listener!DrainCallbacks(k) \/ Listener!WorkerCancelled(k)
           \/ \E u \in urgent : Listener!UrgentEnds(u)
           \/ Listener!CallerCancelled \/ Listener!StreamStopped
  BY <1>1 DEF Listener!DrainCallbacks, Listener!WorkerCancelled, Listener!UrgentEnds, Listener!Free,
     Listener!CallerCancelled, Listener!StreamStopped, Listener!flags, Listener!speech,
     Listener!histories
<1>2. ASSUME NEW by, NEW on, NEW what, Listener!Begins(by, on, what) PROVE OneShotInv'
  <2>1. op.at = "free"
    BY <1>2 DEF Listener!Begins, Listener!Free
  <2>2. CASE Listener!StopsFirst(what)
    BY <1>2, <2>1, <2>2 DEF Listener!Begins, Listener!ClearedFlags, Listener!speech
  <2>3. CASE ~Listener!StopsFirst(what) /\ running
    BY <1>2, <2>1, <2>3 DEF Listener!Begins, Listener!speech, Listener!histories
  <2>4. CASE ~Listener!StopsFirst(what) /\ ~running
    BY <1>2, <2>1, <2>4 DEF Listener!Begins, Listener!StartLocked
  <2>. QED BY <2>2, <2>3, <2>4
<1>3. CASE Listener!Gathered
  <2>1. op.at = "gathering" /\ op'.at = "free"
    BY <1>3 DEF Listener!Gathered, Listener!Free
  <2>2. CASE op.what = "stop"
    BY <1>3, <2>1, <2>2 DEF Listener!Gathered, Listener!flags, Listener!speech
  <2>3. CASE op.what # "stop"
    BY <1>3, <2>1, <2>3 DEF Listener!Gathered, Listener!StartLocked
  <2>. QED BY <2>2, <2>3
<1>4. CASE Listener!Connects \/ Listener!ServerCloses \/ Listener!DelayOver \/ Listener!SenderReturns
  BY <1>4 DEF Listener!Connects, Listener!ServerCloses, Listener!DelayOver, Listener!SenderReturns,
     Listener!flags, Listener!histories
<1>5. CASE Listener!ConnectionFails \/ Listener!OneShotTimesOut \/ Listener!SocketClosed
  BY <1>5 DEF Listener!ConnectionFails, Listener!OneShotTimesOut, Listener!SocketClosed,
     Listener!Resolve, Listener!ClearedFlags, Listener!flags
<1>6. ASSUME Listener!Hears, NEW all, Listener!Flush(all) PROVE OneShotInv'
  BY <1>6 DEF Listener!Hears, Listener!Flush, Listener!flags, Listener!histories
<1>7. CASE \/ \E w \in Vocabulary, final \in BOOLEAN : Listener!FinalResult(w, final)
           \/ Listener!UtteranceEnd \/ \E w \in Vocabulary : Listener!InterimResult(w)
  <2>1. Listener!Hears /\ (\/ \E all : Listener!Flush(all)
                           \/ UNCHANGED <<running, once, stream>>)
    BY <1>7 DEF Listener!FinalResult, Listener!UtteranceEnd, Listener!InterimResult, Listener!flags
  <2>2. CASE UNCHANGED <<running, once, stream>>
    BY <2>1, <2>2 DEF Listener!Hears, Listener!histories
  <2>. QED BY <1>6, <2>1, <2>2
<1>. HIDE DEF OneShotInv
<1>. QED BY <1>1, <1>2, <1>3, <1>4, <1>5, <1>7 DEF Listener!Next

(* Every step keeps the invariants.                                        *)
LEMMA ListenerNext ==
    ASSUME ListenerInv, OneShotInv, [Listener!Next]_ListenerState
    PROVE  ListenerInv' /\ OneShotInv'
<1>1. CASE UNCHANGED ListenerState
  <2>1. UNCHANGED <<running, once, prefix, stream, finals, closing, channel, urgent, op, listens,
                    connection, messages, forgotten, answered, lost>>
    BY <1>1 DEF ListenerState
  <2>2. ListenerInv'
    BY <2>1, CallbacksMove DEF ListenerInv, ListenerShape, ChannelsHandOver
  <2>3. OneShotInv'
    BY <2>1 DEF OneShotInv, Listener!OneShotIsAnswered
  <2>. QED BY <2>2, <2>3
<1>2. CASE Listener!Next
  <2>1. CASE \/ Listener!Connects \/ Listener!ServerCloses \/ Listener!ConnectionFails
             \/ Listener!DelayOver \/ Listener!OneShotTimesOut \/ Listener!SenderReturns
    <3>1. connection \in Nat
      BY DEF ListenerInv, ListenerShape
    <3>2. /\ stream # "none" /\ stream' # "closing" /\ closing' = NoUtterance
          /\ (finals' = <<>> \/ UNCHANGED <<finals, connection>>)
          /\ connection' \in Nat /\ prefix' \in {0, prefix}
          /\ UNCHANGED <<channel, urgent, op, listens, messages, forgotten>>
      BY <2>1, <3>1 DEF Listener!Connects, Listener!ServerCloses, Listener!ConnectionFails,
         Listener!DelayOver, Listener!OneShotTimesOut, Listener!SenderReturns, Listener!StreamEnds,
         Listener!ClearedFlags, Listener!flags, Listener!callbacks, Listener!histories,
         Listener!counters, ListenerInv, HeldIsLast
    <3>. QED BY <1>2, <3>2, StreamMoves, OneShotKept
  <2>2. ListenerInv'
    BY <1>2, <2>1, WorkersKeep, BeginsKeeps, StreamStoppedKeeps, GatheredKeeps, MessagesKeep,
       SocketClosedKeeps DEF Listener!Next
  <2>. QED BY <1>2, <2>2, OneShotKept
<1>. QED BY <1>1, <1>2

(* What the invariant says of all that is handed over.                     *)
LEMMA ListenerPromises == ASSUME ListenerInv, OneShotInv PROVE HeardAsSaid
<1>. /\ channel \in [Listener!Kinds -> Channels]
     /\ \A k \in Listener!Kinds : HandsOver(channel[k], forgotten, Ceiling(k))
  BY DEF ListenerInv, ListenerShape, ChannelsHandOver
<1>1. \A u \in Listener!Waiting :
        \E k \in Listener!Kinds : \E i \in DOMAIN channel[k].queue : u = channel[k].queue[i]
  BY DEF Listener!Waiting, Listener!Range
<1>2. \A u \in Listener!Waiting : OfOneStream(u) /\ \A p \in u.from : p.of > forgotten
  BY <1>1 DEF HandsOver
<1>3. \A u \in Listener!Heard \ {NoUtterance} : OfOneStream(u)
  <2>1. ASSUME NEW u \in Listener!Heard \ {NoUtterance}, u = closing PROVE OfOneStream(u)
    <3>1. stream = "closing" /\ u \in Utterances /\ OfThisStream(u)
      BY <2>1 DEF ListenerInv, HeldIsLast
    <3>. QED BY <3>1, ThisStreamIsOne
  <2>2. \A k \in Listener!Kinds : channel[k].calling # NoUtterance => OfOneStream(channel[k].calling)
    BY DEF HandsOver
  <2>. QED BY <1>2, <2>1, <2>2 DEF Listener!Heard, ListenerInv
<1>4. Listener!WordsOfOneStream /\ Listener!NothingFromBeforeStop
  BY <1>2, <1>3 DEF Listener!WordsOfOneStream, Listener!NothingFromBeforeStop, OfOneStream
<1>5. Listener!HandedInOrder
  <2>1. \A k \in Listener!Kinds : channel[k].queue \in Seq(Utterances)
    BY ChannelHolds
  <2>. QED BY <2>1 DEF Listener!HandedInOrder, HandsOver
<1>. QED BY <1>4, <1>5 DEF HeardAsSaid, Moved, OneShotInv

(* Documentation (deepgram.py): an utterance handed to the conversation was *)
(* said in one connection, after the last stop that ended, and in the order *)
(* of the calls; a one-shot ends with words, a time-out or an error.  For   *)
(* any number of listens, connections and messages, queues of any length,   *)
(* and starts and stops by anybody at any await.                            *)
THEOREM HeardIsAsSaid == ServicesSpec => []HeardAsSaid
<1>1. ServicesInit => ListenerInv /\ OneShotInv
  BY ListenerStarts DEF ServicesInit
<1>2. ListenerInv /\ OneShotInv /\ [ServicesNext]_serviceVars => ListenerInv' /\ OneShotInv'
  <2>. SUFFICES ASSUME ListenerInv, OneShotInv, [ServicesNext]_serviceVars
                PROVE  ListenerInv' /\ OneShotInv'
    OBVIOUS
  <2>1. [Listener!Next]_ListenerState
    BY DEF ServicesNext, serviceVars, TurnStep, RoutingStep, CapabilityStep, ModelStep, DesktopStep,
       CommitmentStep, ListenerStep, ServiceState
  <2>. QED BY <2>1, ListenerNext
<1>3. ListenerInv /\ OneShotInv => HeardAsSaid
  BY ListenerPromises
<1>. QED BY <1>1, <1>2, <1>3, PTL DEF ServicesSpec

(***************************************************************************)
(* The shape of the state of every component. What the invariants above do *)
(* not say of it follows; assumptions are that the cache of the index and  *)
(* the queues of callbacks hold something.                                 *)
(***************************************************************************)
(* RoutingPipeline: a plan comes from one of the lanes.                    *)
LEMMA RoutingTypesKept ==
    ASSUME RoutingTypeOK, [RoutingNext]_routingVars
    PROVE  RoutingTypeOK'
<1>1. ASSUME NEW t \in Commands, CommandSaid(t) PROVE RoutingTypeOK'
  <2>1. t \in Sayings /\ said' \in Seq(Words)
    BY <1>1, CommandsAssumption DEF CommandSaid, Sayings
  <2>2. DeterministicPlan(t).lane \in {"question", "none", "stop", "fast"}
    BY <2>1, RecognisedIs DEF DeterministicPlan, StopPlan, Question
  <2>. QED BY <1>1, <2>1, <2>2 DEF CommandSaid, RoutingTypeOK, StopPlan, NoPlan
<1>2. CASE Evaluate
  <2>1. SegmentCommand(said).decision \in {"ambiguous", "simple", "compound", "non command"}
    BY DEF SegmentCommand, Ambiguous, Segmented, Counted
  <2>. QED BY <1>2, <2>1 DEF Evaluate, RoutingTypeOK, Question, NoPlan
<1>3. CASE SearchSubtasks
  <2>1. plan'.lane \in {"question", "v2"}
    BY <1>3 DEF SearchSubtasks, AssemblePlan, Question
  <2>. QED BY <1>3, <2>1 DEF SearchSubtasks, RoutingTypeOK
<1>4. CASE SearchUnavailable \/ Decided
  <2>1. plan' \in {plan, fast, Question, NoPlan} /\ at' \in {"decided", "planned"}
        /\ UNCHANGED <<index, live, measured, said, segmented, fast>>
    BY <1>4 DEF SearchUnavailable, Decided
  <2>2. plan.lane \in {"question", "none", "stop", "fast", "v2"}
        /\ fast.lane \in {"question", "none", "stop", "fast"}
    BY Zenon DEF RoutingTypeOK
  <2>3. plan'.lane \in {"question", "none", "stop", "fast", "v2"}
    BY <2>1, <2>2 DEF Question, NoPlan
  <2>. QED BY <2>1, <2>3, Zenon DEF RoutingTypeOK
<1>5. CASE Answered
  <2>1. NoPlan.lane = "none" /\ <<>> \in Seq(Words)
    BY DEF NoPlan
  <2>2. segmented'.decision = "non command"
    BY <1>5, Zenon DEF Answered, Segmented
  <2>. QED BY <1>5, <2>1, <2>2, Zenon DEF Answered, RoutingTypeOK
<1>6. CASE UNCHANGED routingVars \/ \E as \in {"ready", "failed"} : IndexStarted(as)
  BY <1>6 DEF routingVars, IndexStarted, RoutingTypeOK
<1>. QED BY <1>1, <1>2, <1>3, <1>4, <1>5, <1>6 DEF RoutingNext

LEMMA RoutingTypesBegin == ASSUME RoutingInit PROVE RoutingTypeOK
<1>1. NoPlan.lane = "none" /\ <<>> \in Seq(Words)
  BY DEF NoPlan
<1>2. segmented.decision = "non command"
  BY Zenon DEF RoutingInit, Segmented
<1>. QED BY <1>1, <1>2, Zenon DEF RoutingInit, RoutingTypeOK

(* CapabilityIndex: a vector that is used moves to the end of the cache,   *)
(* or a new one comes and the oldest goes.                                 *)
LEMMA CacheStaysBounded ==
    ASSUME cache \in Seq(QueryTexts), Len(cache) <= QueryCacheSize,
           NEW q \in QueryTexts
    PROVE  EmbedQuery(q) \in Seq(QueryTexts) /\ Len(EmbedQuery(q)) <= QueryCacheSize
<1>. DEFINE kept == RemoveFirst(cache, q)
            used == Append(kept, q)
<1>1. kept \in Seq(QueryTexts) /\ Len(kept) <= Len(cache)
  <2>1. CASE \E i \in 1..Len(cache) : cache[i] = q
    <3>. DEFINE found == {i \in 1..Len(cache) : cache[i] = q}
    <3>1. Min(found) \in 1..Len(cache)
      <4>1. found \subseteq 1..Len(cache) /\ found # {}
        BY <2>1
      <4>2. found \subseteq Nat
        BY <4>1
      <4>. HIDE DEF found
      <4>. QED BY <4>1, <4>2, MinIs
    <3>2. kept = RemoveAt(cache, Min(found))
      BY <2>1 DEF RemoveFirst, SelectInSeq
    <3>3. \A i \in 1..Len(cache) : RemoveAt(cache, i) \in Seq(QueryTexts)
                                   /\ Len(RemoveAt(cache, i)) <= Len(cache)
      <4>. SUFFICES ASSUME NEW i \in 1..Len(cache)
                    PROVE  RemoveAt(cache, i) \in Seq(QueryTexts)
                           /\ Len(RemoveAt(cache, i)) <= Len(cache)
        OBVIOUS
      <4>. DEFINE a == SubSeq(cache, 1, i - 1)
                  b == SubSeq(cache, i + 1, Len(cache))
      <4>1. a \in Seq(QueryTexts) /\ Len(a) = i - 1
        OBVIOUS
      <4>2. b \in Seq(QueryTexts) /\ Len(b) = Len(cache) - i
        OBVIOUS
      <4>3. RemoveAt(cache, i) = a \o b
        BY DEF RemoveAt
      <4>4. Len(cache) \in Nat /\ i \in 1..Len(cache)
        OBVIOUS
      <4>. HIDE DEF a, b
      <4>5. a \o b \in Seq(QueryTexts) /\ Len(a \o b) = Len(a) + Len(b)
        BY <4>1, <4>2
      <4>. QED BY <4>1, <4>2, <4>3, <4>4, <4>5
    <3>. QED BY <3>1, <3>2, <3>3
  <2>2. CASE ~\E i \in 1..Len(cache) : cache[i] = q
    BY <2>2 DEF RemoveFirst
  <2>. QED BY <2>1, <2>2
<1>. HIDE DEF kept
<1>2. used \in Seq(QueryTexts) /\ Len(used) = Len(kept) + 1 /\ used # <<>>
  <2>1. used \in Seq(QueryTexts) /\ Len(used) = Len(kept) + 1
    BY <1>1
  <2>2. Len(kept) \in Nat /\ Len(<<>>) = 0
    BY <1>1
  <2>. QED BY <2>1, <2>2
<1>3. Tail(used) \in Seq(QueryTexts) /\ Len(Tail(used)) = Len(kept)
  BY <1>1, <1>2
<1>4. EmbedQuery(q) = IF Len(used) > QueryCacheSize THEN Tail(used) ELSE used
  BY DEF EmbedQuery, kept
<1>. HIDE DEF used
<1>. QED BY <1>1, <1>2, <1>3, <1>4, CacheAssumption

IndexTypes == IndexTypeOK /\ (start = "upserting" => collection # 0)

LEMMA IndexTypesKept ==
    ASSUME IndexTypes, [CatalogueNext]_indexVars
    PROVE  IndexTypes'
<1>0. <<>> \in Seq(QueryTexts) /\ Len(<<>>) = 0
  OBVIOUS
<1>. DEFINE Points == [of : Catalogues, by : Models, size : Dimensions]
<1>1. ASSUME NEW c \in Catalogues, NEW m \in Models, ProcessBegins(c, m) PROVE IndexTypes'
  BY <1>0, <1>1, CacheAssumption DEF ProcessBegins, IndexTypes, IndexTypeOK
<1>2. CASE PrepareExisting \/ StartFails \/ ProcessEnds
  BY <1>2 DEF PrepareExisting, StartFails, ProcessEnds, IndexTypes, IndexTypeOK
<1>3. CASE EnsureCollection
  <2>1. DimensionOf(model) \in Dimensions /\ 0 \notin Dimensions
    BY DEF DimensionOf, Dimensions
  <2>. QED BY <1>3, <2>1 DEF EnsureCollection, IndexTypes, IndexTypeOK
<1>4. ASSUME NEW S \in SUBSET catalogue, Upserted \/ UpsertCut(S) PROVE IndexTypes'
  <2>1. PICK T \in SUBSET catalogue : points' = Written(T)
    BY <1>4 DEF Upserted, UpsertCut
  <2>2. /\ start' \in {"pruning", "failed"}
        /\ UNCHANGED <<catalogue, model, collection, cache, answer>>
    BY <1>4 DEF Upserted, UpsertCut
  <2>3. points' \in [Actions -> {NoPoint} \cup Points]
    <3>1. collection \in Dimensions
      BY <1>4 DEF Upserted, UpsertCut, IndexTypes, IndexTypeOK
    <3>2. Own(collection) \in Points
      BY <3>1 DEF IndexTypes, IndexTypeOK, Own
    <3>. QED BY <2>1, <3>2 DEF IndexTypes, IndexTypeOK, Written
  <2>. QED BY <2>2, <2>3 DEF IndexTypes, IndexTypeOK
<1>5. CASE DeleteStaleCatalogPoints
  BY <1>0, <1>5, CacheAssumption DEF DeleteStaleCatalogPoints, IndexTypes, IndexTypeOK
<1>6. ASSUME NEW q \in QueryTexts, SearchWithVectors(q) PROVE IndexTypes'
  <2>1. catalogue \subseteq Actions
    BY DEF IndexTypes, IndexTypeOK, Actions
  <2>2. answer' \subseteq Actions
    BY <1>6, <2>1 DEF SearchWithVectors
  <2>3. cache' \in Seq(QueryTexts) /\ Len(cache') <= QueryCacheSize
    BY <1>6, CacheStaysBounded DEF SearchWithVectors, IndexTypes, IndexTypeOK
  <2>. QED BY <1>6, <2>2, <2>3 DEF SearchWithVectors, IndexTypes, IndexTypeOK
<1>7. CASE UNCHANGED indexVars
  BY <1>7 DEF indexVars, IndexTypes, IndexTypeOK
<1>. QED BY <1>1, <1>2, <1>3, <1>4, <1>5, <1>6, <1>7 DEF CatalogueNext

LEMMA IndexTypesBegin == ASSUME CatalogueInit PROVE IndexTypes
<1>1. <<>> \in Seq(QueryTexts) /\ Len(<<>>) = 0
  OBVIOUS
<1>. QED BY <1>1, CacheAssumption DEF CatalogueInit, IndexTypes, IndexTypeOK

-----------------------------------------------------------------------------
(* ModelRouter: what a planner settles on is one of the outcomes it has.   *)
LEMMA SettledIsOutcome ==
    ASSUME NEW q, NEW p \in ProposedPlans
    PROVE  Settled(q, p) \in PlanOutcomes
<1>. DEFINE steps == ProposedSteps(p.steps)
            refused == ~StepsAreValid(p.steps)
            asks == refused \/ p.asks
            sure == ~refused /\ p.sure
            intent == IF refused THEN "task" ELSE p.intent
<1>1. steps \in Proposals \cup {<<>>} /\ asks \in BOOLEAN /\ sure \in BOOLEAN
  BY DEF ProposedPlans, ProposedSteps
<1>2. NormalizeIntent(intent) \in {"conversation", "task", "other"}
  BY DEF ProposedPlans, NormalizeIntent
<1>3. Settled(q, p) =
        IF InteractionMode(q) = "conversation" \/ ShouldForceConversation(q, steps, intent, asks)
        THEN [intent |-> "conversation", steps |-> <<>>, asks |-> asks, sure |-> sure]
        ELSE IF InteractionMode(q) = "task"
        THEN [intent |-> "task", steps |-> steps, asks |-> asks \/ steps = <<>>, sure |-> sure]
        ELSE IF NormalizeIntent(intent) = "conversation"
        THEN [intent |-> "conversation", steps |-> <<>>, asks |-> asks, sure |-> sure]
        ELSE [intent |-> IF steps # <<>> THEN "task" ELSE NormalizeIntent(intent),
              steps |-> steps, asks |-> asks, sure |-> sure]
  BY Zenon DEF Settled
<1>4. (asks \/ steps = <<>>) \in BOOLEAN
      /\ (IF steps # <<>> THEN "task" ELSE NormalizeIntent(intent))
           \in {"conversation", "task", "other"}
  BY <1>2
<1>. HIDE DEF steps, refused, asks, sure, intent
<1>. QED BY <1>1, <1>2, <1>3, <1>4 DEF PlanOutcomes
(* What a step may do: ask the next planner, post what it keeps, and go on *)
(* with a plan or without.                                                 *)
Stages == {"idle", "calling", "done", "failed"} \cup AtEndpoint
SlotsAreTyped == slot \in [{"primary"} -> Planners] \cup [{"primary", "fallback"} -> Planners]
Posted == [to : DOMAIN slot, for : {"nothing", "plan", "talk"}, data : SUBSET (Private \cup {"web"})]

RouterTypes == RouterTypeOK /\ sent \in Posted

LEMMA KeptIsSmaller ==
    ASSUME NEW p, NEW context
    PROVE  Kept(p, context) \subseteq context
BY DEF Kept

LEMMA ContextIsTyped == \A q \in Queries : q.context \subseteq Private \cup {"web"}
BY DEF Queries

LEMMA PostIsTyped ==
    ASSUME RouterTypes, NEW purpose \in {"plan", "talk"}, Posts(purpose)
    PROVE  sent' \in Posted
BY DEF RouterTypes, RouterTypeOK, Posts, Posted

LEMMA UnavailableIsTyped ==
    ASSUME RouterTypes, Unavailable
    PROVE  who' \in DOMAIN slot /\ stage' \in {"calling", "failed"} /\ given' \subseteq Private \cup {"web"}
BY DEF RouterTypes, RouterTypeOK, Unavailable, Calls, FallbackAllowed

LEMMA DeliversIsTyped ==
    ASSUME RouterTypes, NEW made \in PlanOutcomes, Delivers(made)
    PROVE  /\ who' \in DOMAIN slot /\ stage' \in {"calling", "done"}
           /\ given' \subseteq Private \cup {"web"} /\ outcome' \in PlanOutcomes \cup {NoOutcome}
BY DEF RouterTypes, RouterTypeOK, Delivers, Calls, FallbackAllowed

(* All but the settings and the request, which stay.                       *)
RequestTypes ==
    /\ stage \in Stages /\ who \in DOMAIN slot /\ given \subseteq Private \cup {"web"}
    /\ picture \in BOOLEAN /\ attempt \in 1..2
    /\ proposal \in Proposals \cup {<<>>} /\ outcome \in PlanOutcomes \cup {NoOutcome}
    /\ sent \in Posted

LEMMA RouterTypesAre ==
    RouterTypes <=> /\ SlotsAreTyped /\ asksLeave \in BOOLEAN /\ query \in Queries /\ RequestTypes
BY DEF RouterTypes, RouterTypeOK, SlotsAreTyped, RequestTypes, Stages, Posted

LEMMA RouterTypesKept ==
    ASSUME RouterTypes, [RouterNext]_modelVars
    PROVE  RouterTypes'
<1>1. UNCHANGED <<slot, asksLeave, query>>
  BY DEF RouterNext, modelVars, Asked, PlannerBegins, NoModelLoaded, ImageRefused, GrammarRefused,
         PlanPosted, PlanningFails, Proposed, TalkImageRefused, TalkFails, ReplyUnusable, Spoken
<1>. SUFFICES RequestTypes'
  BY <1>1 DEF RouterTypes, RouterTypeOK, RequestTypes, Stages, Posted
<1>2. RequestTypes
  BY RouterTypesAre
<1>3. \A u, v : u \in DOMAIN slot /\ v \subseteq Private \cup {"web"} =>
        u \in DOMAIN slot' /\ v \subseteq Private \cup {"web"}
  BY <1>1
<1>4. Posted' = Posted
  BY <1>1 DEF Posted
<1>5. CASE Asked
  BY <1>1, <1>2, <1>4, <1>5 DEF Asked, Calls, RequestTypes, Stages, RouterTypes, RouterTypeOK
<1>6. CASE PlannerBegins
  <2>1. given' \subseteq Private \cup {"web"}
    BY <1>6, KeptIsSmaller, ContextIsTyped DEF PlannerBegins, RouterTypes, RouterTypeOK
  <2>2. stage' \in Stages /\ picture' \in BOOLEAN /\ attempt' = 1
        /\ UNCHANGED <<who, proposal, outcome, sent>>
    BY <1>6 DEF PlannerBegins, Stages, AtEndpoint
  <2>. QED BY <1>1, <1>2, <1>4, <2>1, <2>2 DEF RequestTypes
<1>7. ASSUME Unavailable, UNCHANGED <<picture, proposal, outcome>>, attempt' \in {attempt, 2},
             sent' \in Posted
      PROVE  RequestTypes'
  BY <1>1, <1>2, <1>4, <1>7, UnavailableIsTyped DEF RequestTypes, Stages
<1>8. CASE NoModelLoaded
  BY <1>2, <1>7, <1>8 DEF NoModelLoaded, RequestTypes
<1>9. ASSUME NEW purpose \in {"plan", "talk"}, Posts(purpose), stage' \in Stages,
             picture' \in BOOLEAN, attempt' \in 1..2, proposal' \in Proposals \cup {<<>>},
             UNCHANGED <<who, given, outcome>>
      PROVE  RequestTypes'
  BY <1>1, <1>2, <1>4, <1>9, PostIsTyped DEF RequestTypes
<1>10. CASE ImageRefused \/ GrammarRefused
  <2>1. stage' \in {"planning again", "planning freely"} /\ Posts("plan") /\ picture' \in {picture, FALSE}
        /\ UNCHANGED <<who, given, attempt, proposal, outcome>>
    BY <1>10 DEF ImageRefused, GrammarRefused, PlanPosted
  <2>. QED BY <1>2, <1>9, <2>1 DEF RequestTypes, Stages, AtEndpoint
<1>11. CASE PlanningFails \/ TalkFails
  <2>1. Unavailable /\ UNCHANGED <<picture, attempt, proposal, outcome>>
        /\ (Posts("plan") \/ Posts("talk"))
    BY <1>11 DEF PlanningFails, TalkFails
  <2>. QED BY <1>7, <2>1, PostIsTyped
<1>12. ASSUME NEW made \in PlanOutcomes, Delivers(made), NEW purpose \in {"plan", "talk"},
              Posts(purpose), proposal' \in Proposals \cup {<<>>}, UNCHANGED <<picture, attempt>>
       PROVE  RequestTypes'
  BY <1>1, <1>2, <1>4, <1>12, DeliversIsTyped, PostIsTyped DEF RequestTypes, Stages
<1>13. ASSUME NEW p \in ProposedPlans, Proposed(p) PROVE RequestTypes'
  <2>1. Settled(query, p) \in PlanOutcomes /\ p.steps \in Proposals
    BY SettledIsOutcome DEF ProposedPlans
  <2>2. CASE Settled(query, p).intent = "conversation"
    <3>1. /\ Posts("plan") /\ stage' = "talking" /\ attempt' = 1
          /\ proposal' = <<>> /\ UNCHANGED <<who, given, outcome>>
      BY <1>13, <2>2 DEF Proposed
    <3>3. picture' = ("image" \in given)
      BY <1>13, <2>2 DEF Proposed
    <3>2. stage' \in Stages /\ attempt' \in 1..2
      BY <3>1 DEF Stages, AtEndpoint
    <3>4. picture' \in BOOLEAN
      BY <3>3
    <3>. QED BY <1>9, <3>1, <3>2, <3>4
  <2>3. CASE Settled(query, p).intent # "conversation"
    BY <1>12, <1>13, <2>1, <2>3 DEF Proposed
  <2>. QED BY <2>2, <2>3
<1>14. CASE TalkImageRefused
  BY <1>2, <1>9, <1>14 DEF TalkImageRefused, RequestTypes, Stages, AtEndpoint
<1>15. CASE ReplyUnusable
  <2>1. CASE attempt = 1
    <3>1. /\ Posts("talk") /\ stage' = "talking" /\ attempt' = 2
          /\ UNCHANGED <<picture, proposal, who, given, outcome>>
      BY <1>15, <2>1 DEF ReplyUnusable
    <3>2. stage' \in Stages /\ attempt' \in 1..2
      BY <3>1 DEF Stages, AtEndpoint
    <3>. QED BY <1>2, <1>9, <3>1, <3>2 DEF RequestTypes
  <2>2. CASE attempt # 1
    BY <1>7, <1>15, <2>2, PostIsTyped DEF ReplyUnusable
  <2>. QED BY <2>1, <2>2
<1>16. CASE Spoken
  <2>1. [intent |-> "conversation", steps |-> <<>>, asks |-> FALSE, sure |-> TRUE] \in PlanOutcomes
    BY DEF PlanOutcomes
  <2>. QED BY <1>12, <1>16, <2>1 DEF Spoken
<1>17. CASE UNCHANGED modelVars
  BY <1>1, <1>2, <1>4, <1>17 DEF modelVars, RequestTypes
<1>. QED BY <1>5, <1>6, <1>8, <1>10, <1>11, <1>13, <1>14, <1>15, <1>16, <1>17 DEF RouterNext

LEMMA RouterTypesBegin == ASSUME RouterInit PROVE RouterTypes
<1>1. SlotsAreTyped /\ "primary" \in DOMAIN slot
  <2>1. PICK policy \in {"auto", "off", "session", "full"}, near \in BOOLEAN :
          LET lm == [provider |-> "lm_studio", loopback |-> near, policy |-> policy]
              cloud == [provider |-> "other", loopback |-> FALSE, policy |-> policy]
          IN \/ slot \in {[k \in {"primary"} |-> lm],
                          [k \in {"primary", "fallback"} |-> IF k = "primary" THEN lm ELSE cloud]}
             \/ slot = [k \in {"primary", "fallback"} |-> IF k = "primary" THEN cloud ELSE lm]
    BY DEF RouterInit
  <2>2. /\ [provider |-> "lm_studio", loopback |-> near, policy |-> policy] \in Planners
        /\ [provider |-> "other", loopback |-> FALSE, policy |-> policy] \in Planners
    BY DEF Planners
  <2>. QED BY <2>1, <2>2 DEF SlotsAreTyped
<1>2. asksLeave \in BOOLEAN
  BY DEF RouterInit
<1>3. query \in Queries /\ stage = "idle" /\ who = "primary" /\ given = {} /\ picture = FALSE
      /\ attempt = 1 /\ proposal = <<>> /\ outcome = NoOutcome
      /\ sent = [to |-> "primary", for |-> "nothing", data |-> {}]
  BY DEF RouterInit
<1>4. sent \in Posted
  <2>1. "primary" \in DOMAIN slot /\ {} \in SUBSET (Private \cup {"web"})
    BY <1>1
  <2>. DEFINE To == DOMAIN slot
              Data == SUBSET (Private \cup {"web"})
  <2>. HIDE DEF To, Data
  <2>2. [to |-> "primary", for |-> "nothing", data |-> {}] \in
          [to : To, for : {"nothing", "plan", "talk"}, data : Data]
    BY <2>1 DEF To, Data
  <2>. QED BY <1>3, <2>2 DEF Posted, To, Data
<1>5. stage \in Stages /\ who \in DOMAIN slot /\ given \subseteq Private \cup {"web"}
  BY <1>1, <1>3 DEF Stages
<1>6. picture \in BOOLEAN /\ attempt \in 1..2 /\ proposal \in Proposals \cup {<<>>}
      /\ outcome \in PlanOutcomes \cup {NoOutcome}
  <2>1. picture \in BOOLEAN
    BY <1>3
  <2>2. attempt \in 1..2
    BY <1>3
  <2>3. proposal \in Proposals \cup {<<>>}
    BY <1>3
  <2>4. outcome \in PlanOutcomes \cup {NoOutcome}
    BY <1>3
  <2>. QED BY <2>1, <2>2, <2>3, <2>4
<1>7. RequestTypes
  BY <1>4, <1>5, <1>6 DEF RequestTypes
<1>. QED BY <1>1, <1>2, <1>3, <1>7, RouterTypesAre

-----------------------------------------------------------------------------
(* CommitmentShadow: at most one commitment is published and one row put   *)
(* up for review; the published one has a status that detection gives.     *)
ShadowTypes ==
    /\ heardWords \in Commitments!Said /\ enabled \in [shadow : BOOLEAN, review : BOOLEAN]
    /\ shadowStage \in {"heard", "reviewing", "over"}
    /\ \E some : published \subseteq {some}
                 /\ (published # {} =>
                       some.status \in {"captured", "needs_clarification", "needs_user_review"})
    /\ \E some : rows \subseteq {some}

LEMMA DetectedStatus ==
    ASSUME NEW words
    PROVE  Commitments!DetectChunk(words).status
             \in {"captured", "needs_clarification", "needs_user_review"}
BY DEF Commitments!DetectChunk, Commitments!Status

LEMMA CommitmentTypesKept ==
    ASSUME ShadowTypes, [Commitments!Next]_CommitmentState
    PROVE  ShadowTypes'
<1>1. CASE Commitments!Publishes
  <2>1. \E some : published' \subseteq {some}
                  /\ some.status \in {"captured", "needs_clarification", "needs_user_review"}
    BY <1>1, DetectedStatus DEF Commitments!Publishes
  <2>. QED BY <1>1, <2>1 DEF Commitments!Publishes, ShadowTypes
<1>2. ASSUME NEW secret \in BOOLEAN, Commitments!KeepsForReview(secret) PROVE ShadowTypes'
  <2>1. PICK some : published \subseteq {some}
    BY DEF ShadowTypes
  <2>2. rows' \subseteq {<<some.type, some.status>>}
    BY <1>2, <2>1 DEF Commitments!KeepsForReview
  <2>. QED BY <1>2, <2>2 DEF Commitments!KeepsForReview, ShadowTypes
<1>3. CASE Commitments!Ends \/ UNCHANGED CommitmentState
  BY <1>3 DEF Commitments!Ends, CommitmentState, ShadowTypes
<1>. QED BY <1>1, <1>2, <1>3 DEF Commitments!Next

LEMMA CommitmentTypesMean == ShadowTypes => Commitments!CommitmentTypeOK
<1>. SUFFICES ASSUME ShadowTypes PROVE Commitments!CommitmentTypeOK
  OBVIOUS
<1>1. \A S : (\E some : S \subseteq {some}) => Cardinality(S) <= 1
  <2>. SUFFICES ASSUME NEW S, NEW some, S \subseteq {some} PROVE Cardinality(S) <= 1
    OBVIOUS
  <2>1. CASE S = {}
    <3>1. Cardinality(S) = 0
      BY <2>1, FS_EmptySet
    <3>. QED BY <3>1
  <2>2. CASE S = {some}
    <3>1. Cardinality(S) = 1
      BY <2>2, FS_Singleton, Zenon
    <3>. QED BY <3>1
  <2>. QED BY <2>1, <2>2
<1>2. Cardinality(published) <= 1 /\ Cardinality(rows) <= 1
  BY <1>1 DEF ShadowTypes
<1>3. /\ Commitments!Cardinality(published) = Cardinality(published)
      /\ Commitments!Cardinality(rows) = Cardinality(rows)
  BY DEF Commitments!Cardinality, Cardinality
<1>. QED BY <1>2, <1>3 DEF ShadowTypes, Commitments!CommitmentTypeOK

LEMMA DeskTypesMean == DeskInv => Desktop!DeskTypeOK
<1>. SUFFICES ASSUME DeskInv PROVE Desktop!DeskTypeOK
  OBVIOUS
<1>1. \A j \in Desktop!Jobs : job[j] = Desktop!NoTask \/
         /\ job[j].kind \in Desktop!Kinds \cup {"any"} /\ job[j].cut \in BOOLEAN
         /\ job[j].at \in Desktop!InThread \cup {"queued", "in macro", "told", "cancelled"}
  <2>. SUFFICES ASSUME NEW j \in Desktop!Jobs, job[j] # Desktop!NoTask
                PROVE  /\ job[j].kind \in Desktop!Kinds \cup {"any"} /\ job[j].cut \in BOOLEAN
                       /\ job[j].at \in Desktop!InThread \cup {"queued", "in macro", "told", "cancelled"}
    OBVIOUS
  <2>1. job[j] \in UnderHand \cup Past
    BY DEF DeskInv, DeskShape
  <2>2. CASE job[j] \in UnderHand
    BY <2>2 DEF UnderHand
  <2>3. CASE job[j] \in Past
    BY <2>3 DEF Past
  <2>. QED BY <2>1, <2>2, <2>3
<1>2. \A w \in Windows : desk[w] = Desktop!Closed \/
         desk[w] \in [program : Desktop!Programs, pid : 0..MaxMoves, text : Desktop!NoteTexts,
                     items : SUBSET Items]
  BY DEF DeskInv, DeskShape, View, Opened
<1>. QED BY <1>1, <1>2, Zenon DEF DeskInv, DeskShape, Desktop!DeskTypeOK

-----------------------------------------------------------------------------
Ops ==
    [by : {"nobody", "other", "final", "urgent"}, on : Utterances \cup {NoUtterance},
     what : {"nothing", "start", "conversation", "once", "stop"},
     at : {"free", "stopping", "gathering"}]
ListenerFields ==
    /\ running \in BOOLEAN /\ once \in BOOLEAN /\ conversation \in BOOLEAN /\ timed \in BOOLEAN
    /\ stream \in {"none", "opening", "open", "closing", "ending", "waiting"}
    /\ answered \in {"unasked", "waiting", "words", "told", "stopped"} /\ lost \in BOOLEAN
    /\ cancelled \subseteq Listener!Kinds /\ op \in Ops

(* A listening that is about to begin is one of those there may be.        *)
StartsAreLeft ==
    /\ listens <= MaxListens
    /\ op.at # "free" /\ op.what # "stop" => listens < MaxListens

(* Parts come from a connection of a listening.                            *)
PartsWereHeard ==
    /\ stream \in {"open", "closing", "ending"} => connection > 0
    /\ finals # <<>> => connection > 0 /\ listens > 0

QueuesFit == \A k \in Listener!Kinds : Len(channel[k].queue) <= QueueSize

ListenerTypes == ListenerFields /\ StartsAreLeft /\ PartsWereHeard /\ QueuesFit

LEMMA QuietChannels ==
    ASSUME ListenerInv, QueuesFit, channel' = channel
    PROVE  QueuesFit'
BY DEF QueuesFit

LEMMA PutFits ==
    ASSUME NEW queue \in Seq(Utterances), Len(queue) <= QueueSize, NEW u \in Utterances
    PROVE  Len(Listener!PutLatestBounded(queue, u)) <= QueueSize
<1>1. Len(queue) \in Nat /\ QueueSize \in Nat \ {0}
  BY ListenerAssumption
<1>2. CASE Len(queue) = QueueSize
  <2>1. queue # <<>>
    BY <1>1, <1>2
  <2>2. Tail(queue) \in Seq(Utterances) /\ Len(Tail(queue)) = Len(queue) - 1
    BY <2>1
  <2>3. Len(Append(Tail(queue), u)) = Len(Tail(queue)) + 1
    BY <2>2
  <2>. QED BY <1>1, <1>2, <2>2, <2>3 DEF Listener!PutLatestBounded
<1>3. CASE Len(queue) # QueueSize
  <2>1. Len(Append(queue, u)) = Len(queue) + 1
    OBVIOUS
  <2>. QED BY <1>1, <1>3, <2>1 DEF Listener!PutLatestBounded
<1>. QED BY <1>2, <1>3

LEMMA DispatchFits ==
    ASSUME ListenerInv, QueuesFit, NEW k \in Listener!Kinds, NEW u \in Utterances,
           Listener!Dispatch(k, u)
    PROVE  QueuesFit'
<1>1. channel \in [Listener!Kinds -> Channels]
  BY DEF ListenerInv, ListenerShape
<1>2. channel' = [channel EXCEPT ![k].queue = Listener!PutLatestBounded(@, u), ![k].alive = TRUE]
  BY DEF Listener!Dispatch
<1>3. \A l \in Listener!Kinds :
         channel'[l].queue = IF l = k THEN Listener!PutLatestBounded(channel[k].queue, u)
                             ELSE channel[l].queue
  BY <1>1, <1>2 DEF Channels
<1>4. channel[k].queue \in Seq(Utterances)
  BY <1>1 DEF Channels
<1>. QED BY <1>3, <1>4, PutFits DEF QueuesFit

LEMMA DrainedFits ==
    ASSUME ListenerInv, QueuesFit, NEW k \in Listener!Kinds, NEW c,
           channel' = [channel EXCEPT ![k] = c],
           c = Listener!Drained(channel[k]) \/ c = Listener!Dead(channel[k])
    PROVE  QueuesFit'
<1>1. channel \in [Listener!Kinds -> Channels]
  BY DEF ListenerInv, ListenerShape
<1>2. channel[k] \in Channels /\ channel[k].queue \in Seq(Utterances)
      /\ Len(channel[k].queue) <= QueueSize /\ QueueSize \in Nat
  BY <1>1, ListenerAssumption DEF Channels, QueuesFit
<1>3. Len(c.queue) <= QueueSize
  <2>1. CASE c = Listener!Dead(channel[k])
    <3>1. c.queue = channel[k].queue
      BY <1>2, <2>1 DEF Listener!Dead, Channels
    <3>. QED BY <1>2, <3>1
  <2>2. CASE c = Listener!Drained(channel[k]) /\ channel[k].queue = <<>>
    BY <1>2, <2>2 DEF Listener!Drained, Listener!Silent
  <2>3. CASE c = Listener!Drained(channel[k]) /\ channel[k].queue # <<>>
    <3>1. c.queue = Tail(channel[k].queue)
      BY <1>2, <2>3 DEF Listener!Drained, Channels
    <3>2. Len(Tail(channel[k].queue)) = Len(channel[k].queue) - 1 /\ Len(channel[k].queue) \in Nat
      BY <1>2, <2>3
    <3>. QED BY <1>2, <3>1, <3>2
  <2>. QED BY <2>1, <2>2, <2>3
<1>4. \A l \in Listener!Kinds : channel'[l] = IF l = k THEN c ELSE channel[l]
  BY <1>1
<1>. QED BY <1>3, <1>4 DEF QueuesFit

LEMMA ClearedFits ==
    ASSUME ListenerInv, channel' = Listener!QueuesCleared
    PROVE  QueuesFit'
<1>1. channel \in [Listener!Kinds -> Channels]
  BY DEF ListenerInv, ListenerShape
<1>2. \A k \in Listener!Kinds : channel'[k].queue = <<>>
  BY <1>1 DEF Listener!QueuesCleared, Channels
<1>3. Len(<<>>) <= QueueSize
  BY ListenerAssumption
<1>. QED BY <1>2, <1>3 DEF QueuesFit

(* The queues under every action.                                          *)
LEMMA QueuesKeepFitting ==
    ASSUME ListenerInv, QueuesFit, Listener!Next
    PROVE  QueuesFit'
<1>1. CASE \/ \E k \in Listener!Kinds : Listener!DrainCallbacks(k) \/ Listener!WorkerCancelled(k)
           \/ Listener!CallerCancelled
  <2>1. "final" \in Listener!Kinds
    BY DEF Listener!Kinds
  <2>2. \/ UNCHANGED channel
        \/ \E k \in Listener!Kinds : \/ channel' = [channel EXCEPT ![k] = Listener!Drained(@)]
                                     \/ channel' = [channel EXCEPT ![k] = Listener!Dead(@)]
    BY <1>1, <2>1 DEF Listener!DrainCallbacks, Listener!WorkerCancelled, Listener!CallerCancelled
  <2>3. ASSUME NEW k \in Listener!Kinds, NEW new, channel' = [channel EXCEPT ![k] = new],
               new = Listener!Drained(channel[k]) \/ new = Listener!Dead(channel[k])
        PROVE  QueuesFit'
    BY <2>3, DrainedFits
  <2>. QED BY <2>2, <2>3, QuietChannels
<1>2. CASE Listener!Gathered
  BY <1>2, ClearedFits DEF Listener!Gathered
<1>3. ASSUME NEW w \in Vocabulary, Listener!InterimResult(w) PROVE QueuesFit'
  <2>1. /\ finals \in Seq([word : Vocabulary, conn : Nat, of : Nat])
        /\ \A i \in DOMAIN finals : finals[i].conn = connection /\ finals[i].of = listens
        /\ connection \in Nat /\ listens \in Nat
    BY DEF ListenerInv, ListenerShape, PartsAreOfThisStream
  <2>2. /\ Append(finals, Listener!Part(w)) \in Seq([word : Vocabulary, conn : Nat, of : Nat])
        /\ \A i \in DOMAIN Append(finals, Listener!Part(w)) :
             /\ Append(finals, Listener!Part(w))[i].conn = connection
             /\ Append(finals, Listener!Part(w))[i].of = listens
    BY <2>1 DEF Listener!Part
  <2>3. messages' = messages + 1 /\ "interim" \in Listener!Kinds
    BY <1>3 DEF Listener!InterimResult, Listener!Hears, Listener!Kinds
  <2>4. Listener!Utterance(Append(finals, Listener!Part(w)), 0) \in Utterances
    BY <2>2, <2>3, UtteranceIsOfThisStream
  <2>. QED BY <1>3, <2>3, <2>4, DispatchFits DEF Listener!InterimResult
<1>4. ASSUME NEW u \in Utterances, Listener!DispatchFinal(u) PROVE QueuesFit'
  <2>1. "final" \in Listener!Kinds
    BY DEF Listener!Kinds
  <2>. QED BY <1>4, <2>1, DispatchFits, QuietChannels DEF Listener!DispatchFinal
<1>5. ASSUME Listener!Hears, NEW all \in Seq([word : Vocabulary, conn : Nat, of : Nat]),
             \A i \in DOMAIN all : all[i].conn = connection /\ all[i].of = listens,
             Listener!Flush(all)
      PROVE  QueuesFit'
  <2>. DEFINE u == Listener!Utterance(all, prefix)
  <2>1. u \in Utterances
    BY <1>5, UtteranceIsOfThisStream DEF Listener!Hears
  <2>2. UNCHANGED channel \/ Listener!DispatchFinal(u)
    BY <1>5 DEF Listener!Flush, Listener!callbacks
  <2>. QED BY <1>4, <2>1, <2>2, QuietChannels
<1>6. ASSUME NEW w \in Vocabulary, NEW final \in BOOLEAN, Listener!FinalResult(w, final)
      PROVE  QueuesFit'
  <2>1. /\ finals \in Seq([word : Vocabulary, conn : Nat, of : Nat])
        /\ \A i \in DOMAIN finals : finals[i].conn = connection /\ finals[i].of = listens
        /\ connection \in Nat /\ listens \in Nat
    BY DEF ListenerInv, ListenerShape, PartsAreOfThisStream
  <2>2. /\ Append(finals, Listener!Part(w)) \in Seq([word : Vocabulary, conn : Nat, of : Nat])
        /\ \A i \in DOMAIN Append(finals, Listener!Part(w)) :
             /\ Append(finals, Listener!Part(w))[i].conn = connection
             /\ Append(finals, Listener!Part(w))[i].of = listens
    BY <2>1 DEF Listener!Part
  <2>3. CASE final
    BY <1>5, <1>6, <2>2, <2>3 DEF Listener!FinalResult
  <2>4. CASE ~final
    BY <1>6, <2>4, QuietChannels DEF Listener!FinalResult, Listener!callbacks
  <2>. QED BY <2>3, <2>4
<1>7. CASE Listener!UtteranceEnd
  <2>1. /\ finals \in Seq([word : Vocabulary, conn : Nat, of : Nat])
        /\ \A i \in DOMAIN finals : finals[i].conn = connection /\ finals[i].of = listens
    BY DEF ListenerInv, ListenerShape, PartsAreOfThisStream
  <2>. QED BY <1>5, <1>7, <2>1 DEF Listener!UtteranceEnd
<1>8. CASE Listener!SocketClosed
  <2>1. closing \in Utterances
    BY <1>8 DEF Listener!SocketClosed, ListenerInv, HeldIsLast
  <2>. QED BY <1>4, <1>8, <2>1 DEF Listener!SocketClosed
<1>9. CASE UNCHANGED channel
  BY <1>9, QuietChannels
<1>10. ASSUME NEW by, NEW on, NEW what, Listener!Begins(by, on, what) PROVE UNCHANGED channel
  BY <1>10 DEF Listener!Begins, Listener!callbacks
<1>11. ASSUME \/ \E u \in urgent : Listener!UrgentEnds(u)
              \/ Listener!StreamStopped \/ Listener!Connects \/ Listener!ServerCloses
              \/ Listener!ConnectionFails \/ Listener!DelayOver \/ Listener!OneShotTimesOut
              \/ Listener!SenderReturns
       PROVE  UNCHANGED channel
  BY <1>11 DEF Listener!UrgentEnds, Listener!StreamStopped, Listener!Connects, Listener!ServerCloses,
     Listener!ConnectionFails, Listener!DelayOver, Listener!OneShotTimesOut,
     Listener!SenderReturns, Listener!callbacks
<1>. QED BY <1>1, <1>2, <1>3, <1>6, <1>7, <1>8, <1>9, <1>10, <1>11 DEF Listener!Next

-----------------------------------------------------------------------------
LEMMA CallIsTyped ==
    ASSUME ListenerInv, NEW by \in {"other", "final", "urgent"}, NEW on \in urgent \cup {NoUtterance},
           NEW what \in {"start", "conversation", "once", "stop"}
    PROVE  [by |-> by, on |-> on, what |-> what, at |-> "stopping"] \in Ops
BY DEF Ops, ListenerInv, ListenerShape

LEMMA StartIsTyped ==
    ASSUME NEW what, Listener!StartLocked(what)
    PROVE  /\ running' \in BOOLEAN /\ once' \in BOOLEAN /\ conversation' \in BOOLEAN /\ timed' \in BOOLEAN
           /\ stream' = "opening" /\ answered' \in {"waiting", "unasked"} /\ lost' \in BOOLEAN
           /\ finals' = <<>> /\ listens' = listens + 1
BY DEF Listener!StartLocked

(* Flags, stream and lock under every action.                              *)
LEMMA FieldsKept ==
    ASSUME ListenerInv, ListenerFields, Listener!Next
    PROVE  ListenerFields'
<1>. USE DEF ListenerFields
<1>1. ASSUME NEW k \in Listener!Kinds, Listener!DrainCallbacks(k) \/ Listener!WorkerCancelled(k)
      PROVE  ListenerFields'
  BY <1>1 DEF Listener!DrainCallbacks, Listener!WorkerCancelled, Listener!flags, Listener!speech,
     Listener!histories
<1>2. Listener!Free \in Ops
  BY DEF Listener!Free, Ops
<1>3. ASSUME \/ \E u \in urgent : Listener!UrgentEnds(u)
             \/ Listener!CallerCancelled
      PROVE  ListenerFields'
  BY <1>2, <1>3 DEF Listener!UrgentEnds, Listener!CallerCancelled, Listener!flags, Listener!speech,
     Listener!histories
<1>4. ASSUME NEW by \in {"other", "final", "urgent"}, NEW on \in urgent \cup {NoUtterance},
             NEW what \in {"start", "conversation", "once", "stop"}, Listener!Begins(by, on, what)
      PROVE  ListenerFields'
  <2>1. UNCHANGED cancelled
    BY <1>4 DEF Listener!Begins, Listener!callbacks
  <2>2. CASE Listener!StopsFirst(what)
    <3>1. op' \in Ops
      BY <1>4, <2>2, CallIsTyped DEF Listener!Begins
    <3>2. /\ running' = FALSE /\ once' = FALSE /\ conversation' = FALSE
          /\ answered' \in {answered, "stopped"} /\ UNCHANGED <<stream, timed, lost>>
      BY <1>4, <2>2 DEF Listener!Begins, Listener!ClearedFlags, Listener!speech
    <3>. QED BY <2>1, <3>1, <3>2
  <2>3. CASE ~Listener!StopsFirst(what) /\ running
    <3>1. conversation' = FALSE /\ UNCHANGED <<op, running, once, stream, timed, answered, lost>>
      BY <1>4, <2>3 DEF Listener!Begins, Listener!speech, Listener!histories
    <3>. QED BY <2>1, <3>1
  <2>4. CASE ~Listener!StopsFirst(what) /\ ~running
    <3>1. UNCHANGED op /\ Listener!StartLocked(what)
      BY <1>4, <2>4 DEF Listener!Begins
    <3>. QED BY <2>1, <3>1, StartIsTyped
  <2>. QED BY <2>2, <2>3, <2>4
<1>5. CASE Listener!StreamStopped
  <2>1. op' \in Ops
    BY <1>5 DEF Listener!StreamStopped, Ops
  <2>2. /\ stream' = "none" /\ timed' = FALSE /\ cancelled' \subseteq Listener!Kinds
        /\ UNCHANGED <<running, once, conversation, answered, lost>>
    BY <1>5 DEF Listener!StreamStopped, Listener!flags, Listener!histories
  <2>. QED BY <2>1, <2>2
<1>6. CASE Listener!Gathered
  <2>1. op' \in Ops /\ UNCHANGED cancelled
    BY <1>2, <1>6 DEF Listener!Gathered
  <2>2. CASE op.what = "stop"
    BY <1>6, <2>1, <2>2 DEF Listener!Gathered, Listener!flags, Listener!speech
  <2>3. CASE op.what # "stop"
    BY <1>6, <2>1, <2>3, StartIsTyped DEF Listener!Gathered
  <2>. QED BY <2>2, <2>3
<1>7. ASSUME \/ Listener!Connects \/ Listener!ServerCloses \/ Listener!ConnectionFails
             \/ Listener!DelayOver \/ Listener!OneShotTimesOut \/ Listener!SenderReturns
      PROVE  ListenerFields'
  <2>1. UNCHANGED <<cancelled, op>>
    BY <1>7 DEF Listener!Connects, Listener!ServerCloses, Listener!ConnectionFails,
       Listener!DelayOver, Listener!OneShotTimesOut, Listener!SenderReturns, Listener!callbacks
  <2>2. /\ stream' \in {"none", "opening", "open", "waiting"}
        /\ answered' \in {answered, "told"} /\ lost' \in {lost, TRUE}
    BY <1>7 DEF Listener!Connects, Listener!ServerCloses, Listener!ConnectionFails, Listener!Resolve,
       Listener!DelayOver, Listener!OneShotTimesOut, Listener!SenderReturns, Listener!histories
  <2>3. /\ running' \in {running, FALSE} /\ once' \in {once, FALSE}
        /\ conversation' \in {conversation, FALSE} /\ timed' \in BOOLEAN
    BY <1>7 DEF Listener!Connects, Listener!ServerCloses, Listener!ConnectionFails,
       Listener!DelayOver, Listener!OneShotTimesOut, Listener!SenderReturns, Listener!flags,
       Listener!ClearedFlags
  <2>. QED BY <2>1, <2>2, <2>3
<1>8. ASSUME Listener!Hears, UNCHANGED <<running, once>> \/ (running' = FALSE /\ once' = FALSE),
             UNCHANGED <<conversation, cancelled>>, stream' \in {stream, "closing"}
      PROVE  ListenerFields'
  BY <1>8 DEF Listener!Hears, Listener!histories
<1>9. ASSUME NEW all, Listener!Flush(all)
      PROVE  /\ UNCHANGED <<running, once>> \/ (running' = FALSE /\ once' = FALSE)
             /\ UNCHANGED <<conversation, cancelled>> /\ stream' \in {stream, "closing"}
  BY <1>9 DEF Listener!Flush, Listener!DispatchFinal, Listener!Dispatch, Listener!flags,
     Listener!callbacks
<1>10. CASE \/ \E w \in Vocabulary, final \in BOOLEAN : Listener!FinalResult(w, final)
            \/ Listener!UtteranceEnd \/ \E w \in Vocabulary : Listener!InterimResult(w)
  <2>1. Listener!Hears /\ \/ \E all : Listener!Flush(all)
                          \/ UNCHANGED <<running, once, conversation, cancelled, stream>>
    BY <1>10 DEF Listener!FinalResult, Listener!UtteranceEnd, Listener!InterimResult,
       Listener!Dispatch, Listener!flags, Listener!callbacks
  <2>. QED BY <1>8, <1>9, <2>1
<1>11. CASE Listener!SocketClosed
  <2>1. /\ stream' = "ending" /\ answered' \in {answered, "words"}
        /\ UNCHANGED <<running, once, conversation, timed, op, lost, cancelled>>
    BY <1>11 DEF Listener!SocketClosed, Listener!Resolve, Listener!DispatchFinal, Listener!Dispatch,
       Listener!flags
  <2>. QED BY <2>1
<1>. HIDE DEF ListenerFields
<1>. QED BY <1>1, <1>3, <1>4, <1>5, <1>6, <1>7, <1>10, <1>11 DEF Listener!Next

(* How many listenings there may be: whoever holds the lock to start one   *)
(* has one left, for nobody else starts one.                               *)
LEMMA StartsStayLeft ==
    ASSUME ListenerInv, ListenerFields, StartsAreLeft, Listener!Next
    PROVE  StartsAreLeft'
<1>0. listens \in Nat /\ MaxListens \in Nat
  BY ListenerAssumption DEF ListenerInv, ListenerShape
<1>. USE DEF StartsAreLeft
<1>1. ASSUME UNCHANGED listens, op'.at = "free" \/ UNCHANGED op PROVE StartsAreLeft'
  BY <1>1
<1>2. ASSUME NEW by, NEW on, NEW what \in {"start", "conversation", "once", "stop"},
             Listener!Begins(by, on, what)
      PROVE  StartsAreLeft'
  <2>1. op.at = "free" /\ (what # "stop" => listens < MaxListens)
    BY <1>2 DEF Listener!Begins, Listener!Free
  <2>2. CASE Listener!StopsFirst(what)
    BY <1>0, <1>2, <2>1, <2>2 DEF Listener!Begins
  <2>3. CASE ~Listener!StopsFirst(what) /\ running
    BY <1>1, <1>2, <2>3 DEF Listener!Begins, Listener!histories
  <2>4. CASE ~Listener!StopsFirst(what) /\ ~running
    <3>1. what # "stop"
      BY <2>4 DEF Listener!StopsFirst
    <3>2. UNCHANGED op /\ listens' = listens + 1
      BY <1>2, <2>4, StartIsTyped DEF Listener!Begins
    <3>. QED BY <1>0, <2>1, <3>1, <3>2
  <2>. QED BY <2>2, <2>3, <2>4
<1>3. CASE Listener!StreamStopped
  <2>1. op.at = "stopping" /\ op'.what = op.what /\ UNCHANGED listens
    BY <1>3 DEF Listener!StreamStopped, Listener!histories, ListenerFields, Ops
  <2>. QED BY <2>1
<1>4. CASE Listener!Gathered
  <2>1. op.at = "gathering" /\ op'.at = "free"
    BY <1>4 DEF Listener!Gathered, Listener!Free
  <2>2. CASE op.what = "stop"
    BY <1>4, <2>1, <2>2 DEF Listener!Gathered
  <2>3. CASE op.what # "stop"
    <3>1. listens' = listens + 1
      BY <1>4, <2>3, StartIsTyped DEF Listener!Gathered
    <3>. QED BY <1>0, <2>1, <2>3, <3>1
  <2>. QED BY <2>2, <2>3
<1>5. ASSUME \/ \E k \in Listener!Kinds : Listener!DrainCallbacks(k) \/ Listener!WorkerCancelled(k)
             \/ \E u \in urgent : Listener!UrgentEnds(u)
             \/ Listener!CallerCancelled \/ Listener!Connects \/ Listener!ServerCloses
             \/ Listener!ConnectionFails \/ Listener!DelayOver \/ Listener!OneShotTimesOut
             \/ Listener!SenderReturns \/ Listener!SocketClosed \/ Listener!Hears
      PROVE  UNCHANGED listens /\ (op'.at = "free" \/ UNCHANGED op)
  BY <1>5 DEF Listener!DrainCallbacks, Listener!WorkerCancelled, Listener!UrgentEnds,
     Listener!CallerCancelled, Listener!Connects, Listener!ServerCloses, Listener!ConnectionFails,
     Listener!DelayOver, Listener!OneShotTimesOut, Listener!SenderReturns, Listener!SocketClosed,
     Listener!Hears, Listener!Free, Listener!histories
<1>6. ASSUME \/ \E w \in Vocabulary, final \in BOOLEAN : Listener!FinalResult(w, final)
             \/ Listener!UtteranceEnd \/ \E w \in Vocabulary : Listener!InterimResult(w)
      PROVE  Listener!Hears
  BY <1>6 DEF Listener!FinalResult, Listener!UtteranceEnd, Listener!InterimResult
<1>. HIDE DEF StartsAreLeft
<1>. QED BY <1>1, <1>2, <1>3, <1>4, <1>5, <1>6 DEF Listener!Next

(* Where parts come from.                                                  *)
LEMMA PartsStayHeard ==
    ASSUME ListenerInv, PartsWereHeard, Listener!Next
    PROVE  PartsWereHeard'
<1>0. /\ listens \in Nat /\ connection \in Nat /\ forgotten \in Nat
      /\ stream # "none" => forgotten < listens
  BY DEF ListenerInv, ListenerShape, StreamIsLive
<1>. USE DEF PartsWereHeard
<1>1. ASSUME stream' \in {stream, "none", "opening", "waiting"}, finals' \in {finals, <<>>},
             UNCHANGED connection, UNCHANGED listens \/ finals' = <<>>
      PROVE  PartsWereHeard'
  BY <1>1
<1>2. ASSUME NEW by, NEW on, NEW what, Listener!Begins(by, on, what) PROVE PartsWereHeard'
  <2>1. UNCHANGED connection
    BY <1>2 DEF Listener!Begins, Listener!counters
  <2>2. CASE Listener!StopsFirst(what) \/ running
    BY <1>1, <1>2, <2>1, <2>2 DEF Listener!Begins, Listener!speech, Listener!histories
  <2>3. CASE ~Listener!StopsFirst(what) /\ ~running
    <3>1. stream' = "opening" /\ finals' = <<>>
      BY <1>2, <2>3, StartIsTyped DEF Listener!Begins
    <3>. QED BY <1>1, <2>1, <3>1
  <2>. QED BY <2>2, <2>3
<1>3. CASE Listener!Gathered
  <2>1. UNCHANGED connection
    BY <1>3 DEF Listener!Gathered, Listener!counters
  <2>2. CASE op.what = "stop"
    BY <1>1, <1>3, <2>1, <2>2 DEF Listener!Gathered, Listener!speech
  <2>3. CASE op.what # "stop"
    <3>1. stream' = "opening" /\ finals' = <<>>
      BY <1>3, <2>3, StartIsTyped DEF Listener!Gathered
    <3>. QED BY <1>1, <2>1, <3>1
  <2>. QED BY <2>2, <2>3
<1>4. CASE Listener!Connects
  <2>1. connection' = connection + 1 /\ finals' = <<>>
    BY <1>4 DEF Listener!Connects
  <2>. QED BY <1>0, <2>1
<1>5. ASSUME \/ \E k \in Listener!Kinds : Listener!DrainCallbacks(k) \/ Listener!WorkerCancelled(k)
             \/ \E u \in urgent : Listener!UrgentEnds(u)
             \/ Listener!CallerCancelled \/ Listener!StreamStopped \/ Listener!ServerCloses
             \/ Listener!ConnectionFails \/ Listener!DelayOver \/ Listener!OneShotTimesOut
             \/ Listener!SenderReturns
      PROVE  PartsWereHeard'
  <2>1. UNCHANGED <<listens, connection>>
    BY <1>5 DEF Listener!DrainCallbacks, Listener!WorkerCancelled, Listener!UrgentEnds,
       Listener!CallerCancelled, Listener!StreamStopped, Listener!ServerCloses,
       Listener!ConnectionFails, Listener!DelayOver, Listener!OneShotTimesOut,
       Listener!SenderReturns, Listener!histories, Listener!counters
  <2>2. stream' \in {stream, "none", "opening", "waiting"} /\ finals' \in {finals, <<>>}
    BY <1>5 DEF Listener!DrainCallbacks, Listener!WorkerCancelled, Listener!UrgentEnds,
       Listener!CallerCancelled, Listener!StreamStopped, Listener!ServerCloses, Listener!StreamEnds,
       Listener!ConnectionFails, Listener!DelayOver, Listener!OneShotTimesOut,
       Listener!SenderReturns, Listener!speech
  <2>. QED BY <1>1, <2>1, <2>2
<1>6. CASE Listener!SocketClosed
  <2>1. stream = "closing" /\ UNCHANGED <<finals, connection, listens>>
    BY <1>6 DEF Listener!SocketClosed, Listener!counters
  <2>. QED BY <2>1
<1>7. CASE \/ \E w \in Vocabulary, final \in BOOLEAN : Listener!FinalResult(w, final)
           \/ Listener!UtteranceEnd \/ \E w \in Vocabulary : Listener!InterimResult(w)
  <2>1. Listener!Hears
    BY <1>7 DEF Listener!FinalResult, Listener!UtteranceEnd, Listener!InterimResult
  <2>2. stream \in {"open", "ending"} /\ UNCHANGED <<listens, connection>>
    BY <2>1 DEF Listener!Hears, Listener!histories
  <2>. QED BY <1>0, <2>2
<1>. HIDE DEF PartsWereHeard
<1>. QED BY <1>2, <1>3, <1>4, <1>5, <1>6, <1>7 DEF Listener!Next

LEMMA ListenerTypesKept ==
    ASSUME ListenerInv, ListenerTypes, [Listener!Next]_ListenerState
    PROVE  ListenerTypes'
<1>1. CASE UNCHANGED ListenerState
  BY <1>1 DEF ListenerState, ListenerTypes, ListenerFields, StartsAreLeft, PartsWereHeard, QueuesFit
<1>2. CASE Listener!Next
  BY <1>2, FieldsKept, StartsStayLeft, PartsStayHeard, QueuesKeepFitting DEF ListenerTypes
<1>. QED BY <1>1, <1>2

LEMMA ListenerTypesBegin == ASSUME Listener!Init PROVE ListenerTypes
<1>1. /\ listens = 0 /\ connection = 0 /\ finals = <<>> /\ stream = "none" /\ op = Listener!Free
      /\ running = FALSE /\ once = FALSE /\ conversation = FALSE /\ timed = FALSE /\ lost = FALSE
      /\ answered = "unasked" /\ cancelled = {}
      /\ \A k \in Listener!Kinds : channel[k].queue = <<>>
  BY DEF Listener!Init, Listener!Silent
<1>2. op \in Ops /\ op.at = "free"
  BY <1>1 DEF Listener!Free, Ops
<1>3. ListenerFields
  BY <1>1, <1>2 DEF ListenerFields
<1>4. StartsAreLeft /\ PartsWereHeard
  BY <1>1, <1>2, ListenerAssumption DEF StartsAreLeft, PartsWereHeard
<1>5. Len(<<>>) <= QueueSize
  BY ListenerAssumption
<1>6. QueuesFit
  BY <1>1, <1>5 DEF QueuesFit
<1>. QED BY <1>3, <1>4, <1>6 DEF ListenerTypes

LEMMA ListenerTypesMean ==
    ASSUME ListenerInv, ListenerTypes
    PROVE  Listener!ListenerTypeOK
<1>1. /\ listens \in Nat /\ forgotten \in 0..listens /\ prefix \in {0, listens}
      /\ connection \in Nat /\ MaxListens \in Nat /\ listens <= MaxListens
  BY ListenerAssumption DEF ListenerInv, ListenerShape, ListenerTypes, StartsAreLeft
<1>2. prefix \in 0..MaxListens /\ listens \in 0..MaxListens /\ forgotten \in 0..MaxListens
  BY <1>1
<1>3. finals \in Seq([word : Vocabulary, conn : 1..connection, of : 1..listens])
  <2>1. finals \in Seq([word : Vocabulary, conn : Nat, of : Nat])
    BY DEF ListenerInv, ListenerShape
  <2>2. ASSUME NEW i \in 1..Len(finals)
        PROVE  finals[i] \in [word : Vocabulary, conn : 1..connection, of : 1..listens]
    <3>1. finals[i] \in [word : Vocabulary, conn : Nat, of : Nat] /\ i \in DOMAIN finals
      <4>1. DOMAIN finals = 1..Len(finals)
        BY <2>1
      <4>. QED BY <2>1, <4>1, ElementOfSeq, Zenon
    <3>4. finals[i].conn = connection /\ finals[i].of = listens
      BY <3>1 DEF ListenerInv, PartsAreOfThisStream
    <3>2. finals # <<>>
      BY <2>1
    <3>3. connection \in 1..connection /\ listens \in 1..listens
      BY <1>1, <3>2 DEF ListenerTypes, PartsWereHeard
    <3>5. \A p \in [word : Vocabulary, conn : Nat, of : Nat] :
            p.conn = connection /\ p.of = listens =>
              p \in [word : Vocabulary, conn : 1..connection, of : 1..listens]
      BY <3>3
    <3>. QED BY <3>1, <3>4, <3>5, Zenon
  <2>. DEFINE S == [word : Vocabulary, conn : Nat, of : Nat]
              T == [word : Vocabulary, conn : 1..connection, of : 1..listens]
  <2>3. finals \in Seq(S) /\ \A i \in 1..Len(finals) : finals[i] \in T
    BY <2>1, <2>2
  <2>. HIDE DEF S, T
  <2>4. finals \in Seq(T)
    BY <2>3
  <2>. QED BY <2>4 DEF T
<1>4. closing = NoUtterance <=> stream # "closing"
  <2>1. NoUtterance \notin Utterances
    BY ListenerAssumption DEF Utterances, Fragments
  <2>. QED BY <2>1 DEF ListenerInv, HeldIsLast
<1>5. op.at \in {"free", "stopping", "gathering"}
  BY DEF ListenerTypes, ListenerFields, Ops
<1>. QED BY <1>2, <1>3, <1>4, <1>5 DEF ListenerTypes, ListenerFields, QueuesFit,
     Listener!ListenerTypeOK

-----------------------------------------------------------------------------
(* The components that the invariants of the turns and of the desktop      *)
(* leave out.                                                              *)
PlannerTypes ==
    /\ RoutingTypeOK /\ IndexTypes /\ RouterTypes /\ ShadowTypes
    /\ ListenerInv /\ OneShotInv /\ ListenerTypes

LEMMA PlannersBegin == ServicesInit => PlannerTypes
<1>. SUFFICES ASSUME ServicesInit PROVE PlannerTypes
  OBVIOUS
<1>1. RoutingInit /\ CatalogueInit /\ RouterInit /\ Listener!Init
  BY DEF ServicesInit
<1>2. ShadowTypes
  BY DEF ServicesInit, Commitments!Init, ShadowTypes
<1>. QED BY <1>1, <1>2, RoutingTypesBegin, IndexTypesBegin, RouterTypesBegin, ListenerStarts,
     ListenerTypesBegin DEF PlannerTypes

LEMMA PlannersKept ==
    PlannerTypes /\ [ServicesNext]_serviceVars => PlannerTypes'
<1>. SUFFICES ASSUME PlannerTypes, [ServicesNext]_serviceVars PROVE PlannerTypes'
  OBVIOUS
<1>1. [RoutingNext]_routingVars /\ [RouterNext]_modelVars
  BY PlannersStep
<1>2. [CatalogueNext]_indexVars /\ [Commitments!Next]_CommitmentState /\ [Listener!Next]_ListenerState
  BY DEF ServicesNext, serviceVars, ServiceState, PlanState, CapabilityState, indexVars,
         TurnStep, RoutingStep, CapabilityStep, ModelStep, DesktopStep, CommitmentStep, ListenerStep
<1>. QED BY <1>1, <1>2, RoutingTypesKept, IndexTypesKept, RouterTypesKept, CommitmentTypesKept,
     ListenerNext, ListenerTypesKept DEF PlannerTypes

(* Every component keeps state of the shape the code has: the turns, the   *)
(* plans, the cache of the index within its size, the request of a planner,*)
(* the desktop, the listener within its queues and the rows for review.    *)
(* For any sizes, requests, texts, windows, listens and messages.          *)
THEOREM ServicesTypeCorrect == ServicesSpec => []ServicesTypeOK
<1>1. ServicesInit => TurnInv /\ DeskInv /\ PlannerTypes
  BY TurnInit, TurnsMove, DeskInit, PlannersBegin DEF ServicesInit
<1>2. TurnInv /\ [ServicesNext]_serviceVars => TurnInv'
  BY TurnNext, TurnsStep
<1>3. DeskInv /\ [ServicesNext]_serviceVars => DeskInv'
  BY DeskMoves, DeskNext
<1>4. TurnInv /\ DeskInv /\ PlannerTypes => ServicesTypeOK
  <2>. SUFFICES ASSUME TurnInv, DeskInv, PlannerTypes PROVE ServicesTypeOK
    OBVIOUS
  <2>1. TurnTypeOK /\ Desktop!DeskTypeOK /\ Listener!ListenerTypeOK /\ Commitments!CommitmentTypeOK
        /\ RoutingTypeOK /\ IndexTypeOK /\ RouterTypeOK
    BY DeskTypesMean, ListenerTypesMean, CommitmentTypesMean
       DEF TurnInv, PlannerTypes, IndexTypes, RouterTypes
  <2>. QED BY <2>1 DEF ServicesTypeOK, Moved
<1>. QED BY <1>1, <1>2, <1>3, <1>4, PlannersKept, PTL DEF ServicesSpec
=============================================================================
