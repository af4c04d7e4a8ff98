---------------------------- MODULE RoutingPipeline ----------------------------
(***************************************************************************)
(* From the words of one command to a plan: the deterministic router       *)
(* (router.py), and Routing V2 (routing/): segmenter, search among the     *)
(* capabilities, resolver, assembler, and what may be executed of it. A    *)
(* text is a sequence of words, a word stands for its class: a verb, a     *)
(* target, the connector "and", an ambiguous connector "or", "api" and     *)
(* "endp" for those words, "thing" for any other.                          *)
(***************************************************************************)
EXTENDS Naturals, Sequences, FiniteSets, FiniteSetsExt, SequencesExt

CONSTANTS
    Commands,       \* texts that are said, sequences of words
    MaxSubtasks

VARIABLES
    index,          \* CapabilityIndex: of the catalogue in use
    live,           \* settings: shadow, canary or execute
    measured,       \* the quality gate passed for this fingerprint
    said,           \* the text under way
    at,             \* where it is
    segmented,      \* segment_command's result
    fast,           \* deterministic_plan's result
    plan            \* what is handed on

routingVars == <<index, live, measured, said, at, segmented, fast, plan>>

Verbs == {"open", "close", "minimize", "copy", "search", "note", "stop", "send"}
FreeformArgumentOperations == {"search", "note"}
UnsupportedOperations == {"send"}
OpenCoordinationTargets == {"calendar", "chat"}
TargetOrder == <<"cursor", "calendar", "chat">>
Words == Verbs \cup ToSet(TargetOrder) \cup {"and", "or", "api", "endp", "thing"}

(* Of an empty text neither lane makes anything.                           *)
ASSUME CommandsAssumption == Commands \subseteq Seq(Words) \ {<<>>}

(* Actions of the catalogue, with what they take.                          *)
Action(id, operation, targets, risk) ==
    [id |-> id, op |-> operation, targets |-> targets, risk |-> risk]
Catalogue ==
    {Action("open_calendar", "open", {"calendar"}, "low"),
     Action("open_chat", "open", {"chat"}, "low"),
     Action("close_window_under_cursor", "close", {"cursor"}, "medium"),
     Action("minimize_window_under_cursor", "minimize", {"cursor"}, "low"),
     Action("copy_text_under_cursor", "copy", {"cursor"}, "low"),
     Action("search_web", "search", {}, "low"),
     Action("create_note", "note", {}, "medium")}
TakesText == {"search_web", "create_note"}

-----------------------------------------------------------------------------
(* segmenter.py. An interval of positions is <<first, last>>, the pieces   *)
(* of a text are a set of intervals, its segments a set that is put in     *)
(* order at the end.                                                       *)
Several(S) == \E x, y \in S : x # y
Anchors(t, a, b) == {i \in a..b : t[i] \in Verbs}

CoordinationPieces(t, a, b) ==
    {p \in (a..b) \X (a..b) :
       /\ p[1] <= p[2] /\ \A i \in p[1]..p[2] : t[i] # "and"
       /\ p[1] = a \/ t[p[1] - 1] = "and"
       /\ p[2] = b \/ t[p[2] + 1] = "and"}
First(pieces) == CHOOSE p \in pieces : \A q \in pieces : p[1] <= q[1]

DetectTarget(t, a, b) ==
    LET named == {k \in DOMAIN TargetOrder : \E i \in a..b : t[i] = TargetOrder[k]}
    IN IF named = {} THEN "none" ELSE TargetOrder[Min(named)]

InferAliasOperation(t, a, b) ==
    IF a = b /\ t[a] \in OpenCoordinationTargets THEN "open" ELSE "none"

OperationOf(t, p) ==
    LET anchors == Anchors(t, p[1], p[2])
    IN IF anchors = {} THEN InferAliasOperation(t, p[1], p[2]) ELSE t[Min(anchors)]

(* The verbs that a free text has in it are not commands, unless a         *)
(* connector stands before them.                                           *)
CollapseFreeformArgumentAnchors(t) ==
    LET anchors == Anchors(t, 1, Len(t))
    IN IF anchors # {} /\ t[Min(anchors)] \in FreeformArgumentOperations
       THEN {i \in anchors : i = Min(anchors) \/ t[i - 1] = "and"}
       ELSE anchors

Segment(t, p, op) == [from |-> p[1], to |-> p[2], op |-> op,
                      target |-> DetectTarget(t, p[1], p[2])]
Classified(t, pieces) == {Segment(t, p, OperationOf(t, p)) : p \in pieces}

Single(t, pieces) ==
    Several(pieces) /\ \A p \in pieces : ~Several(Anchors(t, p[1], p[2]))
Known(t, pieces) == {p \in pieces : OperationOf(t, p) # "none"}
Freeform(t, p) == OperationOf(t, p) \in FreeformArgumentOperations
(* A part without a verb that follows a free text.                         *)
GoesOn(t, pieces) ==
    /\ Freeform(t, First(pieces))
    /\ \E p \in pieces \ {First(pieces)} : Anchors(t, p[1], p[2]) = {}

SplitFullyClassified(t, pieces) ==
    Single(t, pieces) /\ Known(t, pieces) = pieces /\ ~GoesOn(t, pieces)

(* Mutant: what follows the commands that were understood is let go.       *)
UnclassifiedTail(t, pieces) ==
    /\ Single(t, pieces) /\ Known(t, pieces) \notin {{}, pieces}
    /\ First(pieces) \notin Known(t, pieces)

UnclassifiedCoordination(t, pieces) ==
    /\ Single(t, pieces) /\ Known(t, pieces) \notin {{}, pieces}
    /\ ~(Known(t, pieces) = {First(pieces)} /\ Freeform(t, First(pieces)))

SplitAtAnchors(t, kept) ==
    LET begins(k) == IF k = Min(kept) THEN 1 ELSE k
        later(k) == {i \in kept : i > k}
        ends(k) == IF later(k) = {} THEN Len(t)
                   ELSE Max({i \in k..Min(later(k)) : t[i] # "and"} \ {Min(later(k))})
    IN {Segment(t, <<begins(k), ends(k)>>, t[k]) : k \in kept}

ExpandOpenTargetCoordination(t, s) ==
    LET verbs == Anchors(t, s.from, s.to)
        pieces == CoordinationPieces(t, s.from, s.to)
    IN IF /\ s.op = "open" /\ Cardinality(verbs) = 1 /\ Several(pieces)
          /\ Min(verbs) \in First(pieces)[1]..First(pieces)[2]
          /\ \A p \in pieces : DetectTarget(t, p[1], p[2]) \in OpenCoordinationTargets
       THEN {Segment(t, p, "open") : p \in pieces}
       ELSE {s}

(* The segments as they follow in the text.                                *)
Before(S, s) == {r \in S : r.from < s.from}
InOrder(S) ==
    [k \in 1..Cardinality(S) |-> CHOOSE s \in S : Cardinality(Before(S, s)) = k - 1]
Segmented(decision, S) == [decision |-> decision, subtasks |-> InOrder(S)]
Ambiguous(S) == Segmented("ambiguous", S)

Counted(t, raw) ==
    LET S == UNION {ExpandOpenTargetCoordination(t, s) : s \in raw}
    IN IF Cardinality(S) > MaxSubtasks THEN Ambiguous({})
       ELSE IF \E s \in S : s.op \in UnsupportedOperations THEN Ambiguous(S)
       ELSE Segmented(IF Several(S) THEN "compound" ELSE "simple", S)

(* Several commands in a text that names an API and an endpoint are taken  *)
(* for one: the first, over the whole text.                                *)
IsAtomicApiCheck(t) ==
    Several(CollapseFreeformArgumentAnchors(t)) /\ {"api", "endp"} \subseteq ToSet(t)

SegmentCommand(t) ==
    LET pieces == CoordinationPieces(t, 1, Len(t))
        kept == CollapseFreeformArgumentAnchors(t)
    IN IF "or" \in ToSet(t) THEN Ambiguous({})
       ELSE IF IsAtomicApiCheck(t) THEN Counted(t, SplitAtAnchors(t, {Min(kept)}))
       ELSE IF SplitFullyClassified(t, pieces) THEN Counted(t, Classified(t, pieces))
       ELSE IF UnclassifiedCoordination(t, pieces)
            THEN Ambiguous(Classified(t, Known(t, pieces)))
       ELSE IF kept = {}
            THEN IF InferAliasOperation(t, 1, Len(t)) = "none" THEN Segmented("non command", {})
                 ELSE Segmented("simple", {Segment(t, <<1, Len(t)>>, "open")})
       ELSE IF \E k \in kept \ {Min(kept)} : t[k - 1] # "and" THEN Ambiguous({})
       ELSE Counted(t, SplitAtAnchors(t, kept))

-----------------------------------------------------------------------------
(* router.py: a question for a command of several parts, else the first    *)
(* recogniser that finds its markers in the text; whatever is opened and   *)
(* not known otherwise is an element of the active folder.                 *)
Question == [lane |-> "question", steps |-> <<>>]
NoPlan == [lane |-> "none", steps |-> <<>>]
StopPlan == [lane |-> "stop", steps |-> <<>>]
OneStep(t, id) == [lane |-> "fast", steps |-> <<[id |-> id, from |-> 1, to |-> Len(t)]>>]

Marked(t, verb, target) == \E i \in 1..(Len(t) - 1) : t[i] = verb /\ t[i + 1] = target
Together(t, verb, target) == {verb, target} \subseteq ToSet(t)
TextAfter(t, verb) == \E i \in 1..(Len(t) - 1) : t[i] = verb

OpensCalendar(t) == t = <<"calendar">> \/ Marked(t, "open", "calendar")
(* "api X check ... endp Y" or "endp Y ... api X", somewhere in the text.   *)
ChecksEndpoint(t) ==
    \E a, e \in DOMAIN t :
        /\ t[a] = "api" /\ t[e] = "endp"
        /\ \/ e < Len(t) /\ \E c \in (a + 2)..(e - 1) : t[c] = "search"
           \/ e + 2 <= a /\ a < Len(t)
SearchesWeb(t) == t[1] = "search" /\ Len(t) > 1
OpensChat(t) == t = <<"chat">> \/ Marked(t, "open", "chat")
OpensShellItem(t) == t[1] = "open" /\ Len(t) > 1
Recogniser(test, found) == [test |-> test, found |-> found]

Recognisers(t) ==
    <<Recogniser(OpensCalendar(t), OneStep(t, "open_calendar")),
      Recogniser(ChecksEndpoint(t), OneStep(t, "search_web")),
      Recogniser(SearchesWeb(t), OneStep(t, "search_web")),
      Recogniser(t = <<"search">>, Question),
      Recogniser(OpensChat(t), OneStep(t, "open_chat")),
      Recogniser(OpensShellItem(t), OneStep(t, "open_shell_item")),
      Recogniser(Together(t, "minimize", "cursor"), OneStep(t, "minimize_window_under_cursor")),
      Recogniser(Together(t, "close", "cursor"), OneStep(t, "close_window_under_cursor")),
      Recogniser(Together(t, "copy", "cursor"), OneStep(t, "copy_text_under_cursor")),
      Recogniser(TextAfter(t, "note"), OneStep(t, "create_note")),
      Recogniser(t = <<"note">>, Question)>>

Recognised(t) ==
    LET fits == {k \in DOMAIN Recognisers(t) : Recognisers(t)[k].test}
    IN IF fits = {} THEN NoPlan ELSE Recognisers(t)[Min(fits)].found

DeterministicPlan(t) ==
    LET s == SegmentCommand(t)
    IN IF \E k \in DOMAIN s.subtasks : s.subtasks[k].op = "stop" THEN StopPlan
       ELSE IF s.decision \in {"compound", "ambiguous"} THEN Question
       ELSE Recognised(t)

-----------------------------------------------------------------------------
(* resolver.py: the candidates of a subtask that no rule rejects; scores   *)
(* and the margin decide between them, or for a question.                  *)
Eligible(action, t, s) ==
    /\ action.op = s.op
    /\ "cursor" \in action.targets \/ s.op = "open" => s.target # "none"
    /\ s.target # "none" /\ action.targets # {} => s.target \in action.targets
    /\ action.id \in TakesText => s.from < s.to

Unresolved == [id |-> "clarify"]
Resolutions(t, s) == {Unresolved} \cup {action \in Catalogue : Eligible(action, t, s)}

(* assembler.py: all parts are resolved, none is said twice, and nothing   *)
(* is opened and closed at once.                                           *)
Arguments(t, s, id) == IF id \in TakesText THEN SubSeq(t, s.from + 1, s.to) ELSE <<>>

AssemblePlan(t, subtasks, found) ==
    IF \/ \E k \in DOMAIN found : found[k] = Unresolved
       \/ Len(subtasks) > MaxSubtasks
       \/ \E j, k \in DOMAIN found :
            j < k /\ found[j].id = found[k].id
                  /\ Arguments(t, subtasks[j], found[j].id) = Arguments(t, subtasks[k], found[k].id)
       \/ \E j, k \in DOMAIN subtasks :
            /\ subtasks[j].op = "open" /\ subtasks[k].op \in {"close", "minimize"}
            /\ subtasks[j].target = subtasks[k].target /\ subtasks[j].target # "none"
    THEN Question
    ELSE [lane |-> "v2",
          steps |-> [k \in DOMAIN found |->
                       [id |-> found[k].id, from |-> subtasks[k].from, to |-> subtasks[k].to]]]

(* service.py: only low risk goes through the canary.                      *)
RiskOf(id) == (CHOOSE action \in Catalogue : action.id = id).risk
PlanExecutionAllowed(p) ==
    /\ live # "shadow" /\ measured /\ p.steps # <<>>
    /\ live = "canary" => \A k \in DOMAIN p.steps : RiskOf(p.steps[k].id) = "low"

-----------------------------------------------------------------------------
RoutingInit ==
    /\ index = "starting" /\ live \in {"shadow", "canary", "execute"} /\ measured \in BOOLEAN
    /\ said = <<>> /\ at = "idle" /\ segmented = Segmented("non command", {})
    /\ fast = NoPlan /\ plan = NoPlan

(* The lifespan prepares the index once; a failure stays.                  *)
IndexStarted(as) ==
    /\ index = "starting" /\ index' = as
    /\ UNCHANGED <<live, measured, said, at, segmented, fast, plan>>

CommandSaid(t) ==
    /\ at = "idle" /\ said' = t
    /\ fast' = DeterministicPlan(t)
    /\ at' = IF fast'.lane = "stop" THEN "planned" ELSE "routing"
    /\ plan' = IF fast'.lane = "stop" THEN StopPlan ELSE NoPlan
    /\ UNCHANGED <<index, live, measured, segmented>>

(* evaluate(), up to the search: no command is not searched for.           *)
Evaluate ==
    /\ at = "routing" /\ segmented' = SegmentCommand(said)
    /\ at' = IF segmented'.decision \in {"simple", "compound"} THEN "searching" ELSE "decided"
    /\ plan' = IF segmented'.decision = "ambiguous" THEN Question ELSE NoPlan
    /\ UNCHANGED <<index, live, measured, said, fast>>

SearchSubtasks ==
    /\ at = "searching" /\ index = "ready" /\ at' = "decided"
    /\ \E found \in [DOMAIN segmented.subtasks -> Catalogue \cup {Unresolved}] :
         /\ \A k \in DOMAIN found : found[k] \in Resolutions(said, segmented.subtasks[k])
         /\ plan' = AssemblePlan(said, segmented.subtasks, found)
    /\ UNCHANGED <<index, live, measured, said, segmented, fast>>

(* Timeout, embeddings or Qdrant away: in shadow as if nothing was said.   *)
SearchUnavailable ==
    /\ at = "searching" /\ at' = "decided"
    /\ plan' = IF live = "shadow" THEN NoPlan ELSE Question
    /\ UNCHANGED <<index, live, measured, said, segmented, fast>>

(* The choice of _handle_request between the lanes.                        *)
Decided ==
    /\ at = "decided" /\ at' = "planned"
    /\ plan' = IF PlanExecutionAllowed(plan) THEN plan
               ELSE IF live # "shadow" /\ plan = Question THEN Question
               ELSE IF live # "shadow" /\ ~measured /\ segmented.decision # "non command"
                    THEN Question
               ELSE fast
    /\ UNCHANGED <<index, live, measured, said, segmented, fast>>

Answered ==
    /\ at = "planned" /\ at' = "idle" /\ said' = <<>> /\ plan' = NoPlan /\ fast' = NoPlan
    /\ segmented' = Segmented("non command", {})
    /\ UNCHANGED <<index, live, measured>>

RoutingNext ==
    \/ \E as \in {"ready", "failed"} : IndexStarted(as)
    \/ at = "idle" /\ \E t \in Commands : CommandSaid(t)
    \/ Evaluate \/ SearchSubtasks \/ SearchUnavailable \/ Decided \/ Answered

RoutingSpec == RoutingInit /\ [][RoutingNext]_routingVars

-----------------------------------------------------------------------------
RoutingTypeOK ==
    /\ index \in {"starting", "ready", "failed"} /\ live \in {"shadow", "canary", "execute"}
    /\ measured \in BOOLEAN /\ said \in Seq(Words)
    /\ at \in {"idle", "routing", "searching", "decided", "planned"}
    /\ segmented.decision \in {"ambiguous", "simple", "compound", "non command"}
    /\ fast.lane \in {"question", "none", "stop", "fast"}
    /\ plan.lane \in {"question", "none", "stop", "fast", "v2"}

VerbsIn(t, s) == Anchors(t, s.from, s.to)
Positions(s) == s.from..s.to
Governed(t, s) == VerbsIn(t, s) # {} /\ t[Min(VerbsIn(t, s))] \in FreeformArgumentOperations
FreeTextHasVerb(t) == CollapseFreeformArgumentAnchors(t) # Anchors(t, 1, Len(t))
FreeTextMayGoOn(t) ==
    LET pieces == CoordinationPieces(t, 1, Len(t)) IN pieces # {} /\ GoesOn(t, pieces)
TakenForLookUp(t) ==
    IsAtomicApiCheck(t) \/ (Anchors(t, 1, Len(t)) = {} /\ ChecksEndpoint(t))

(* A step is of one part: it has one command in it and a connector only at *)
(* its ends, or they are words of a free text.                             *)
OfOnePart(t, s) ==
    Governed(t, s) \/
      /\ ~Several(VerbsIn(t, s))
      /\ ~\E i, j, k \in Positions(s) :
             i < j /\ j < k /\ t[i] # "and" /\ t[j] = "and" /\ t[k] # "and"
VerbOf(t, s) == IF VerbsIn(t, s) = {} THEN "open" ELSE t[Min(VerbsIn(t, s))]

Covers(t, p) ==
    /\ \A i \in DOMAIN t : t[i] # "and" =>
         \E k \in DOMAIN p.steps : i \in Positions(p.steps[k])
    /\ \A k \in 2..Len(p.steps) : p.steps[k].from > p.steps[k - 1].to
    /\ \A k \in DOMAIN p.steps : OfOnePart(t, p.steps[k])
    /\ p.lane = "v2" => \A k \in DOMAIN p.steps :
         \E action \in Catalogue :
            action.id = p.steps[k].id /\ action.op = VerbOf(t, p.steps[k])

(* A command is done whole or asked about: the steps of a plan, one after  *)
(* another, take every word that was said but the connectors; each is of   *)
(* one part, and none of Routing V2 is of another operation than its verb. *)
(* Left out are texts with a verb in a free text, of which the recognisers *)
(* may carry out the verb, and those that go on after a free text with a   *)
(* part that has no verb: the segment of a later command takes such a part *)
(* in; and those taken for one look-up of an API and its endpoint: of      *)
(* several commands in them the first is done, and the others are not.     *)
CommandIsCovered(t, p) ==
    /\ p.lane \in {"v2", "fast"} /\ ~FreeTextHasVerb(t) /\ ~FreeTextMayGoOn(t)
    /\ ~TakenForLookUp(t)
    => Covers(t, p)
PlanCoversCommand == at = "planned" => CommandIsCovered(said, plan)
=============================================================================
