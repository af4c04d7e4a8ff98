------------------------------ MODULE MCServices ------------------------------
(***************************************************************************)
(* The components that turn what was said into what is done, each in small *)
(* and, like those of MCStores, one at a time: a behaviour moves the one   *)
(* in focus. Those whose theorems are proved are extended with the turns,  *)
(* and the others are instances.                                           *)
(***************************************************************************)
EXTENDS AssistantTurns, ModelRouter, CapabilityIndex, RoutingPipeline, Integers

CONSTANTS
    Windows, Items, MaxJobs, MaxMoves, NoJob, NoWindow, Nothing, Costs,
    Vocabulary, QueueSize, MaxListens, MaxConnections, MaxMessages, NoUtterance

VARIABLES
    focus,
    desk, front, moves, job, executing, candidates, offered, process, currentProcess,
    deskStop, touched,
    enabled, heardWords, shadowStage, published, rows,
    running, once, conversation, prefix, stream, timed, finals, lastSent, closing, channel,
    urgent, op, cancelled, listens, connection, messages, forgotten, answered, lost

(* Single commands of each kind and free words, and what two or three of   *)
(* them make when they are said in one breath.                             *)
Phrases ==
    {<<"open", "calendar">>, <<"open", "chat">>, <<"close", "cursor">>, <<"chat">>,
     <<"search", "thing">>, <<"search">>, <<"thing">>, <<"stop">>, <<"send", "thing">>,
     <<"or">>, <<"close", "chat">>, <<"note", "thing">>, <<"note">>, <<"minimize", "cursor">>,
     <<"note", "copy", "cursor">>, <<"search", "open", "calendar">>}
(* Texts that name an API and an endpoint, with a check, two or none, or    *)
(* with another command.                                                   *)
LookUps ==
    {<<"search", "api", "thing", "and", "search", "endp", "thing">>,
     <<"search", "api", "thing", "endp", "thing">>, <<"api", "thing", "search", "endp", "thing">>,
     <<"endp", "thing", "api", "thing">>, <<"endp", "thing", "and", "api", "thing">>,
     <<"open", "calendar", "and", "search", "api", "thing", "endp", "thing">>,
     <<"close", "cursor", "api", "endp">>}
Breaths ==
    Phrases \cup LookUps \cup {p \o <<"and">> \o q : p, q \in Phrases} \cup {p \o q : p, q \in Phrases}
    \cup {p \o <<"and">> \o q \o <<"and">> \o <<"chat">> : p, q \in Phrases}

(* Two catalogues of actions that share one.                               *)
Catalogued == {{"a", "b"}, {"b", "c"}}

(* Graphs of a model: none, one step, one with an unknown action, and two  *)
(* that wait for each other rightly, backwards or twice.                   *)
Step(action, after) == [action |-> action, after |-> after]
Graphs ==
    {<<>>, <<Step("a", <<>>)>>, <<Step("a", <<>>), Step("b", <<>>)>>,
     <<Step("a", <<1>>), Step("a", <<>>)>>, <<Step("a", <<>>), Step("a", <<0>>)>>,
     <<Step("a", <<>>), Step("a", <<0, 0>>)>>}

Desktop == INSTANCE DesktopActions WITH stop <- deskStop
(* What tells a window, an item and a job from there being none.           *)
ASSUME DeskAssumption ==
    /\ Nothing \notin Desktop!Lists \cup Items /\ NoWindow \notin Windows /\ NoJob \notin Desktop!Jobs
    /\ MaxMoves \in Nat /\ MaxJobs \in Nat
Commitments == INSTANCE CommitmentShadow WITH said <- heardWords, stage <- shadowStage
Listener == INSTANCE DeepgramListener
(* Each queue of callbacks holds something; what tells an utterance from   *)
(* there being none.                                                       *)
ASSUME ListenerAssumption ==
    /\ QueueSize \in Nat \ {0} /\ MaxListens \in Nat
    /\ NoUtterance \notin [from : SUBSET [conn : Nat, of : Nat], prefix : Nat, number : Nat]

Components ==
    {"listener", "turns", "routing", "capabilities", "model", "desktop", "commitments"}
RoutingState == <<index, live, measured, said, at, segmented, fast, plan>>
CapabilityState == <<catalogue, model, start, collection, points, cache, answer>>
ModelState ==
    <<slot, asksLeave, query, stage, who, given, picture, attempt, proposal, outcome, sent>>
DesktopState ==
    <<desk, front, moves, job, executing, candidates, offered, process, currentProcess,
      deskStop, touched>>
CommitmentState == <<enabled, heardWords, shadowStage, published, rows>>
ListenerState ==
    <<running, once, conversation, prefix, stream, timed, finals, lastSent, closing, channel,
      urgent, op, cancelled, listens, connection, messages, forgotten, answered, lost>>
(* Those that end with a plan, and those around them.                      *)
PlanState == <<RoutingState, CapabilityState, ModelState>>
ServiceState == <<PlanState, DesktopState, CommitmentState, ListenerState>>
serviceVars == <<turnVars, focus, ServiceState>>

(* Out of focus a component stands in one of its initial states.           *)
Pinned(component, state) == IF focus = component THEN TRUE ELSE state
ServicesInit ==
    /\ focus \in Components /\ Init
    /\ Pinned("routing", live = "shadow" /\ measured = TRUE)
    /\ Pinned("capabilities", catalogue = {"a", "b"} /\ model = "one")
    /\ Pinned("desktop", front = CHOOSE w \in Windows : TRUE)
    /\ Pinned("model", /\ slot = [k \in {"primary"} |-> [provider |-> "lm_studio", loopback |-> TRUE,
                                                         policy |-> "auto"]]
                       /\ query = CHOOSE q \in Queries : TRUE)
    /\ Pinned("commitments", /\ enabled = [shadow |-> FALSE, review |-> FALSE]
                             /\ heardWords = CHOOSE w \in Commitments!Said : TRUE)
    /\ RoutingInit /\ CatalogueInit /\ Desktop!Init /\ RouterInit /\ Commitments!Init
    /\ Listener!Init

TurnStep(A) == focus = "turns" /\ A /\ UNCHANGED <<focus, ServiceState>>
RoutingStep ==
    /\ focus = "routing" /\ RoutingNext
    /\ UNCHANGED <<turnVars, focus, CapabilityState, ModelState>>
    /\ UNCHANGED <<DesktopState, CommitmentState, ListenerState>>
CapabilityStep ==
    /\ focus = "capabilities" /\ CatalogueNext
    /\ UNCHANGED <<turnVars, focus, RoutingState, ModelState>>
    /\ UNCHANGED <<DesktopState, CommitmentState, ListenerState>>
ModelStep ==
    /\ focus = "model" /\ RouterNext
    /\ UNCHANGED <<turnVars, focus, RoutingState, CapabilityState>>
    /\ UNCHANGED <<DesktopState, CommitmentState, ListenerState>>
DesktopStep ==
    /\ focus = "desktop" /\ Desktop!Next
    /\ UNCHANGED <<turnVars, focus, PlanState, CommitmentState, ListenerState>>
CommitmentStep ==
    /\ focus = "commitments" /\ Commitments!Next
    /\ UNCHANGED <<turnVars, focus, PlanState, DesktopState, ListenerState>>
ListenerStep ==
    /\ focus = "listener" /\ Listener!Next
    /\ UNCHANGED <<turnVars, focus, PlanState, DesktopState, CommitmentState>>

ServicesNext ==
    \/ TurnStep(Next) \/ RoutingStep \/ CapabilityStep \/ ModelStep \/ DesktopStep
    \/ CommitmentStep \/ ListenerStep

(* What AssistantTurns assumes of the event loop, where it is in focus.    *)
ServicesSpec ==
    /\ ServicesInit /\ [][ServicesNext]_serviceVars
    /\ \A r \in Requests : WF_serviceVars(TurnStep(At(r) # "none" /\ TurnGoesOn(r)))

-----------------------------------------------------------------------------
(* Every component keeps state of the shape the code has. Out of focus it  *)
(* stands in an initial state, which the behaviours that move it begin in. *)
Moved(component, correct) == IF focus = component THEN correct ELSE TRUE
ServicesTypeOK ==
    /\ Moved("turns", TurnTypeOK) /\ Moved("routing", RoutingTypeOK)
    /\ Moved("capabilities", IndexTypeOK) /\ Moved("model", RouterTypeOK)
    /\ Moved("desktop", Desktop!DeskTypeOK) /\ Moved("listener", Listener!ListenerTypeOK)
    /\ Moved("commitments", Commitments!CommitmentTypeOK)

(* What is handed to the assistant was said in one stream, in this order   *)
(* and not before a stop, whoever stopped, restarted or cut the listening; *)
(* and a one-shot listening ends with words, a time-out or an error.       *)
HeardAsSaid ==
    Moved("listener", /\ Listener!WordsOfOneStream /\ Listener!NothingFromBeforeStop
                      /\ Listener!HandedInOrder /\ Listener!OneShotIsAnswered)

(* The executor gets a plan once in its window, and none from a voice that *)
(* was not understood.                                                     *)
PlansAreHandedRightly == Moved("turns", PlanRunsOnce /\ UnclearNeverActs)

(* A step of a plan comes from one part of what was said, and the steps    *)
(* together leave no command in it out, but in a text that is taken for    *)
(* one look-up of an API; of the graph a model proposed a plan holds every *)
(* step or none.                                                           *)
CommandsStayWhole ==
    Moved("routing", PlanCoversCommand) /\ Moved("model", PlanIsWhole)

(* A note, a window and an item are acted on only if they are those the    *)
(* command was bound to, and the item that a number selects has that       *)
(* number in the list that was offered last.                               *)
OnlyWhatWasMeant ==
    Moved("desktop", Desktop!OnlyTheBoundTarget /\ Desktop!SelectedWasOffered)

(* A commitment with a named day is never less urgent than the same one    *)
(* without.                                                                *)
NamedDayRaisesPriority == Moved("commitments", Commitments!NamedDayRaisesPriority)
=============================================================================
