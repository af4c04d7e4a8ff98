------------------------- MODULE MCCommandExecutor -------------------------
(* Instances of CommandExecutor for TLC.                                    *)
EXTENDS ExecutorRefinement, TLC

CONSTANTS r1, r2, r3, c1, c2

Confirmed2 == [kind |-> "confirm", deps |-> <<{}, {1}>>]
Confirmed == [kind |-> "confirm", deps |-> <<{}>>]
Direct == [kind |-> "direct", deps |-> <<{}>>]
\* its first step depends on its second: it can only be skipped
Inverted == [kind |-> "direct", deps |-> <<{2}, {}>>]
Clarified == [kind |-> "clarify", deps |-> <<{}>>]
NoSteps == [kind |-> "empty", deps |-> <<>>]

\* a yes, a clarification and a plan without steps, across a restart
RestartPlans == (r1 :> Confirmed2) @@ (r2 :> Clarified) @@ (r3 :> NoSteps)
\* two plans that compete for the user's yes
RivalPlans == (r1 :> Confirmed2) @@ (r2 :> Confirmed)
\* plans that compete for the queue
QueuePlans == (r1 :> Direct) @@ (r2 :> Inverted)
OneConfirmed == r1 :> Confirmed
OneDirect == r1 :> Direct

Makes(confirms, cancels, waits, stops) ==
  ("confirm" :> confirms) @@ ("cancel" :> cancels) @@ ("wait" :> waits) @@ ("stop" :> stops)
RestartCalls == (c1 :> Makes(1, 0, 0, 0)) @@ (c2 :> Makes(1, 1, 0, 0))
RivalCalls == (c1 :> Makes(0, 0, 0, 2)) @@ (c2 :> Makes(1, 1, 0, 0))
StopAndWait == (c1 :> Makes(0, 0, 0, 1)) @@ (c2 :> Makes(0, 0, 1, 0))
JustCancel == c1 :> Makes(0, 1, 0, 0)
JustStop == c1 :> Makes(0, 0, 0, 1)
=============================================================================
