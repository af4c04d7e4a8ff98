---------------------------- MODULE CommitmentShadow ----------------------------
(***************************************************************************)
(* The commitment shadow of a turn (assistant.py, _emit_commitment_shadow; *)
(* commitments/detector.py, scoring.py; context/review.py): rules read     *)
(* what was said as a promise, a request, a command, ..., score it, and    *)
(* the turn publishes the result and may keep a row for review. A text is  *)
(* the set of the rules whose pattern it matches; scores are in            *)
(* ten-thousandths.                                                        *)
(***************************************************************************)
EXTENDS Integers, FiniteSets

CONSTANT Costs      \* what the words say of the time it takes: message, errand or other

VARIABLES
    enabled,        \* commitment_shadow_enabled, commitment_timeline_review_enabled
    said,           \* the turn's words
    stage,          \* where _emit_commitment_shadow is
    published,      \* the items of the event commitment.shadow
    rows            \* review rows of the turn in the timeline

vars == <<enabled, said, stage, published, rows>>

Signals == {"refusal", "command", "request", "promise", "cheap", "action", "deadline",
            "verification", "pressure"}

(* A turn that was spoken carries the ids the recogniser gave its speakers,*)
(* and is then nobody's the rules call the user.                           *)
Said == [signals : SUBSET Signals, spoken : BOOLEAN, cost : Costs]

-----------------------------------------------------------------------------
(* The rules                                                               *)
CommitmentType(signals) ==
    IF "refusal" \in signals THEN "refusal"
    ELSE IF "command" \in signals THEN "command"
    ELSE IF "request" \in signals THEN "request"
    ELSE IF "promise" \in signals THEN "promise"
    ELSE IF "cheap" \in signals THEN "cheap_signal"
    ELSE IF "action" \in signals THEN "intention" ELSE "none"

Direction(type, byUser) ==
    IF byUser THEN "user_to_other"
    ELSE IF type \in {"request", "command", "refusal"} THEN "other_to_user"
    ELSE "other_to_user_commitment"

MissingElements(type, signals) ==
    {e \in {"action", "deadline", "verification_method"} :
        CASE e = "action" -> type = "cheap_signal" \/ "action" \notin signals
          [] e = "deadline" -> "deadline" \notin signals /\ type # "refusal"
          [] OTHER -> "verification" \notin signals /\ type \notin {"request", "command"}}

Status(type, direction, missing) ==
    IF direction = "other_to_user" THEN "needs_user_review"
    ELSE IF type = "cheap_signal" \/ missing # {} THEN "needs_clarification" ELSE "captured"

DetectChunk(words) ==
    LET type == CommitmentType(words.signals)
        direction == Direction(type, ~words.spoken)
        missing == MissingElements(type, words.signals)
    IN [type |-> type, direction |-> direction, missing |-> missing,
        status |-> Status(type, direction, missing)]

-----------------------------------------------------------------------------
(* The scores                                                              *)
AtLeast(x, y) == IF x < y THEN y ELSE x
AtMost(x, y) == IF x < y THEN x ELSE y

ActionClarity(type, signals) ==
    IF "action" \in signals THEN 8000 ELSE IF type = "cheap_signal" THEN 2000 ELSE 1500

DeadlineClarity(type, signals) ==
    IF "deadline" \in signals THEN 8500
    ELSE IF "deadline" \in MissingElements(type, signals) THEN 1000 ELSE 5000

PressureLevel(type, signals) ==
    LET level == IF "pressure" \in signals THEN 7500 ELSE 1500
    IN CASE type = "command" -> AtLeast(level, 8000)
         [] type = "request" -> AtLeast(level, 4000)
         [] type = "cheap_signal" -> AtLeast(level, 2500)
         [] OTHER -> level

AutonomyLevel(type, pressure) ==
    CASE type = "command" -> AtMost(10000 - pressure, 2000)
      [] type = "request" -> AtMost(10000 - pressure, 6500)
      [] type \in {"promise", "intention"} -> AtLeast(10000 - pressure, 6500)
      [] OTHER -> 10000 - pressure

TimeCost(cost) == CASE cost = "message" -> 2500 [] cost = "errand" -> 6000 [] OTHER -> 3500

CognitiveCost(type, missing) ==
    IF type = "cheap_signal" THEN 7500 ELSE AtMost(3500 + 1500 * Cardinality(missing), 9000)

EmotionalCost(type, pressure) ==
    CASE type = "command" -> AtLeast(5500, (pressure * 85) \div 100)
      [] type = "request" -> AtLeast(3500, (pressure * 75) \div 100)
      [] OTHER -> AtLeast(2000, (pressure * 70) \div 100)

BenefitLevel(type) ==
    CASE type \in {"promise", "intention"} -> 6500
      [] type \in {"request", "command"} -> 4500
      [] type = "cheap_signal" -> 3500
      [] OTHER -> 4000

(* The sum in units of 1/300 of a ten-thousandth, of which Whole is one; the owner of an item is  *)
(* always one of two, so that his clarity is 7500.                         *)
Whole == 300 * 10000
Priority(words) ==
    LET type == CommitmentType(words.signals)
        missing == MissingElements(type, words.signals)
        pressure == PressureLevel(type, words.signals)
        deadline == DeadlineClarity(type, words.signals)
        clarity == ActionClarity(type, words.signals) + deadline + 7500
        cost == TimeCost(words.cost) + CognitiveCost(type, missing) + EmotionalCost(type, pressure)
    IN 3 * (30 * deadline + 25 * BenefitLevel(type) + 15 * pressure
            - 5 * (10000 - AutonomyLevel(type, pressure)))
       + 20 * clarity + 10 * cost

-----------------------------------------------------------------------------
(* _emit_commitment_shadow: the event first, then the row for review; what *)
(* is redacted as a secret keeps no row, a STOP ends the turn at any of    *)
(* the awaits, and an error of the store is logged and leaves the event    *)
(* without a row.                                                          *)
Init ==
    /\ enabled \in [shadow : BOOLEAN, review : BOOLEAN] /\ said \in Said
    /\ stage = "heard" /\ published = {} /\ rows = {}

Publishes ==
    /\ stage = "heard" /\ enabled.shadow
    /\ LET item == DetectChunk(said)
           items == IF item.type = "none" THEN {} ELSE {item}
       IN /\ published' = items
          /\ stage' = IF enabled.review /\ items # {} THEN "reviewing" ELSE "over"
    /\ UNCHANGED <<enabled, said, rows>>

(* Text alone names the row; it is never executable and never a vector.    *)
KeepsForReview(secret) ==
    /\ stage = "reviewing" /\ stage' = "over"
    /\ rows' = IF secret THEN {} ELSE {<<i.type, i.status>> : i \in published}
    /\ UNCHANGED <<enabled, said, published>>

Ends == /\ stage # "over" /\ stage' = "over" /\ UNCHANGED <<enabled, said, published, rows>>

Next == Publishes \/ (\E secret \in BOOLEAN : KeepsForReview(secret)) \/ Ends

Spec == Init /\ [][Next]_vars

-----------------------------------------------------------------------------
(* The variables have the shape of the code's state.                       *)
CommitmentTypeOK ==
    /\ said \in Said /\ enabled \in [shadow : BOOLEAN, review : BOOLEAN]
    /\ stage \in {"heard", "reviewing", "over"} /\ Cardinality(published) <= 1
    /\ \A i \in published : i.status \in {"captured", "needs_clarification", "needs_user_review"}
    /\ Cardinality(rows) <= 1

(* Of the same words with a day named, none scores lower: the clarity the  *)
(* day adds outweighs the cost its absence added (scoring.py:168-192),     *)
(* whatever else the words say; and no score leaves the unit interval, so  *)
(* that the clamp of scoring.py:192 never makes two of them equal.         *)
NamedDayRaisesPriority ==
    published # {} =>
        LET dated == [said EXCEPT !.signals = @ \cup {"deadline"}]
        IN /\ said # dated => Priority(said) < Priority(dated)
           /\ 0 < Priority(said) /\ Priority(said) < Whole

=============================================================================
