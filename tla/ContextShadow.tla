----------------------------- MODULE ContextShadow -----------------------------
(***************************************************************************)
(* The two shadows of a turn that asks about a time (assistant.py,         *)
(* context/dual_track.py, context/retrieval.py): the cascade shadow, begun *)
(* when the context of a turn is gathered, and the dual track, begun when  *)
(* a turn without steps was answered. The dual track runs two searches     *)
(* side by side within a slot and a time limit, and writes a trace;        *)
(* whoever of the two is responsible writes the statement of the turn. A   *)
(* STOP cancels the turn and both shadows at whatever await they are.      *)
(***************************************************************************)
EXTENDS Naturals, FiniteSets, SequencesExt

CONSTANTS
    Requests,
    Items,          \* items of context, up to their content hash
    QMax,           \* axes the cascade may search
    WaveSize,       \* axes of one wave
    MinEvidence,    \* items after which no further wave is sent
    Limit,          \* items of a pack
    MaxInflight,    \* dual tracks at a time
    MaxStops,       \* bound on calls of interrupt()
    MaxFailures     \* bound on failing writes of the store

VARIABLES
    query,          \* what the words of the turn ask for
    cascadeOn,      \* _context_cascade_shadow_available
    turn,           \* handle() of the request
    shadow,         \* the task _run_context_cascade_shadow
    run,            \* the task _run_context_dual_track
    tracks,         \* its two retrievers
    inflight,       \* DualTrackRunner._inflight
    lost,           \* history: slots a second cancellation took along
    traces,         \* context_dual_track_traces
    statements,     \* context_cascade_shadow_telemetry
    stops, failures

vars == <<query, cascadeOn, turn, shadow, run, tracks, inflight, lost, traces, statements,
          stops, failures>>
rows == <<traces, statements>>
setting == <<query, cascadeOn>>
bounds == <<stops, failures>>

TrackNames == {"baseline", "cascade"}
Off == [at |-> "off", wave |-> 0, got |-> <<>>]
IdleRun == [at |-> "none", verdict |-> "none", cut |-> FALSE]
Verdicts == {"none", "uncertain", "agreement", "conflict"}
Packs == {s \in UNION {[1..n -> Items] : n \in 0..Limit} : IsInjective(s)}

ShadowTypeOK ==
    /\ query \in [Requests -> {"plain", "bounded", "statement"}] /\ cascadeOn \in BOOLEAN
    /\ turn \in [Requests -> {"open", "over"}]
    /\ shadow \in [Requests -> {"none", "scheduled", "stating", "searching", "done", "failed", "cut"}]
    /\ \A r \in Requests :
         /\ run[r].at \in {"none", "scheduled", "inside", "cutting", "closing", "tracing",
                           "stating", "done", "failed", "cut"}
         /\ run[r].verdict \in Verdicts /\ run[r].cut \in BOOLEAN
         /\ \A n \in TrackNames : /\ tracks[r][n].at \in {"off", "runs", "ended", "raised"}
                             /\ tracks[r][n].got \in Packs
    /\ traces \in [Requests -> Verdicts]
    /\ inflight \in 0..MaxInflight /\ lost \subseteq Requests /\ statements \subseteq Requests
    /\ stops \in 0..MaxStops /\ failures \in 0..MaxFailures

(* What the words name: no time, a time, a time that is only about right;  *)
(* and whether they foretell something or hold an opinion. Only an opinion *)
(* or a prediction about such a vague time is a statement.                 *)
Whens == {"no time", "exact", "approximate"}

AnalyzeTemporalStatementShadow(when, epistemic) == when = "approximate" /\ epistemic

BuildTemporalShadowContext(when, epistemic) ==
    IF when = "no time" THEN "plain"
    ELSE IF AnalyzeTemporalStatementShadow(when, epistemic) THEN "statement" ELSE "bounded"

Queries == {BuildTemporalShadowContext(when, epistemic) : when \in Whens, epistemic \in BOOLEAN}

Init ==
    /\ query \in [Requests -> Queries] /\ cascadeOn \in BOOLEAN
    /\ turn = [r \in Requests |-> "open"] /\ shadow = [r \in Requests |-> "none"]
    /\ run = [r \in Requests |-> IdleRun]
    /\ tracks = [r \in Requests |-> [n \in TrackNames |-> Off]]
    /\ inflight = 0 /\ lost = {} /\ stops = 0 /\ failures = 0
    /\ traces = [r \in Requests |-> "none"] /\ statements = {}

-----------------------------------------------------------------------------
(* The turn. Only one that reaches the context schedules the cascade; one  *)
(* answered by the deterministic router does not.                          *)
ScheduleContextCascadeShadow(r) ==
    /\ turn[r] = "open" /\ shadow[r] = "none" /\ cascadeOn /\ query[r] # "plain"
    /\ shadow' = [shadow EXCEPT ![r] = "scheduled"]
    /\ UNCHANGED <<setting, turn, run, tracks, inflight, lost, rows, bounds>>

ScheduleContextDualTrack(r, steps) ==
    /\ turn[r] = "open" /\ turn' = [turn EXCEPT ![r] = "over"]
    /\ run' = IF ~steps /\ query[r] # "plain" THEN [run EXCEPT ![r].at = "scheduled"] ELSE run
    /\ UNCHANGED <<setting, shadow, tracks, inflight, lost, rows, bounds>>

-----------------------------------------------------------------------------
(* The cascade shadow: the statement first, then the search within its     *)
(* time limit; a timeout and an error are its end like an answer is.       *)
Stands(r, at) == shadow[r] = at

ShadowBegins(r) ==
    /\ Stands(r, "scheduled")
    /\ shadow' = [shadow EXCEPT ![r] = IF query[r] = "statement" THEN "stating" ELSE "searching"]
    /\ UNCHANGED <<setting, turn, run, tracks, inflight, lost, rows, bounds>>

ShadowSaves(r) ==
    /\ Stands(r, "stating") /\ shadow' = [shadow EXCEPT ![r] = "searching"]
    /\ statements' = statements \cup {r}
    /\ UNCHANGED <<setting, turn, run, tracks, inflight, lost, traces, bounds>>

ShadowFails(r) ==
    /\ Stands(r, "stating") /\ failures < MaxFailures /\ failures' = failures + 1
    /\ shadow' = [shadow EXCEPT ![r] = "failed"]
    /\ UNCHANGED <<setting, turn, run, tracks, inflight, lost, rows, stops>>

ShadowEnds(r) ==
    /\ Stands(r, "searching") /\ shadow' = [shadow EXCEPT ![r] = "done"]
    /\ UNCHANGED <<setting, turn, run, tracks, inflight, lost, rows, bounds>>

-----------------------------------------------------------------------------
(* TimeFirstRetriever.retrieve_vector_candidates, one step per answered    *)
(* embedding and search. rrf5 is a single wave over all axes; a hit counts *)
(* once SQLite has confirmed it and its content is new to the pack.        *)
Waves == (QMax + WaveSize - 1) \div WaveSize

Admit(pack, hit) ==
    IF Contains(pack, hit) \/ Len(pack) >= Limit THEN pack ELSE Append(pack, hit)
Admitted(got, hits) ==
    LET pack[k \in 0..Len(hits)] == IF k = 0 THEN got ELSE Admit(pack[k - 1], hits[k])
    IN pack[Len(hits)]

(* limit_reached, rrf_complete, enough_evidence or axes_exhausted.         *)
SearchIsOver(n, wave, got) ==
    n = "baseline" \/ Len(got) >= (IF MinEvidence < Limit THEN MinEvidence ELSE Limit)
    \/ wave = Waves

Searches(r, n) == run[r].at = "inside" /\ tracks[r][n].at = "runs"
TurnsTo(r, n, track) ==
    /\ tracks' = [tracks EXCEPT ![r][n] = track]
    /\ UNCHANGED <<setting, turn, shadow, run, inflight, lost, rows, bounds>>

WaveAnswers(r, n, hits) ==
    /\ Searches(r, n)
    /\ LET got == Admitted(tracks[r][n].got, hits)
           wave == tracks[r][n].wave
       IN TurnsTo(r, n, IF SearchIsOver(n, wave, got)
                      THEN [at |-> "ended", wave |-> 0, got |-> got]
                      ELSE [at |-> "runs", wave |-> wave + 1, got |-> got])

(* The absence of a provider empties the pack, a wrong number of vectors   *)
(* keeps it, and neither is an error of the track; anything else is.       *)
WaveUnanswered(r, n, got) ==
    /\ Searches(r, n) /\ got \in {<<>>, tracks[r][n].got}
    /\ TurnsTo(r, n, [at |-> "ended", wave |-> 0, got |-> got])

TrackRaises(r, n) ==
    /\ Searches(r, n) /\ TurnsTo(r, n, [Off EXCEPT !.at = "raised"])

-----------------------------------------------------------------------------
(* DualTrackRunner.run                                                     *)
DualEnters(r) ==
    /\ run[r].at = "scheduled"
    /\ IF inflight >= MaxInflight
       THEN /\ run' = [run EXCEPT ![r].at = "tracing", ![r].verdict = "uncertain"]
            /\ UNCHANGED <<tracks, inflight>>
       ELSE /\ run' = [run EXCEPT ![r].at = "inside"] /\ inflight' = inflight + 1
            /\ tracks' = [tracks EXCEPT ![r] = [n \in TrackNames |-> [Off EXCEPT !.at = "runs", !.wave = 1]]]
    /\ UNCHANGED <<setting, turn, shadow, lost, rows, bounds>>

ArbitrateContextPacks(baseline, cascade) ==
    IF <<>> \in {baseline, cascade} THEN "uncertain"
    ELSE IF Head(baseline) = Head(cascade) THEN "agreement"
    ELSE IF ToSet(baseline) \cap ToSet(cascade) = {} THEN "conflict" ELSE "uncertain"

Decides(r, at, verdict) ==
    /\ run' = [run EXCEPT ![r].at = at, ![r].verdict = verdict]
    /\ tracks' = [tracks EXCEPT ![r] = [n \in TrackNames |-> Off]]
    /\ UNCHANGED <<setting, turn, shadow, inflight, lost, rows, bounds>>

(* asyncio.wait: both ended (a track that raised overrides the arbiter),   *)
(* or the time is up and the rest is cut. Then, in the finally, the gather *)
(* of both, which yields even when there is nothing to wait for.           *)
DualWaited(r) ==
    /\ run[r].at = "inside" /\ \A n \in TrackNames : tracks[r][n].at # "runs"
    /\ Decides(r, "closing",
               IF \E n \in TrackNames : tracks[r][n].at = "raised" THEN "uncertain"
               ELSE ArbitrateContextPacks(tracks[r]["baseline"].got, tracks[r]["cascade"].got))

DualTimesOut(r) ==
    /\ run[r].at = "inside" /\ \E n \in TrackNames : tracks[r][n].at = "runs"
    /\ Decides(r, "cutting", "uncertain")

DualCloses(r) ==
    /\ run[r].at = "cutting" /\ run' = [run EXCEPT ![r].at = "closing"]
    /\ UNCHANGED <<setting, turn, shadow, tracks, inflight, lost, rows, bounds>>

(* Mutant: the slot is given back after the try, not in its finally.       *)
DualLeavesAfter(r) ==
    /\ run[r].at = "closing" /\ inflight' = IF run[r].cut THEN inflight ELSE inflight - 1
    /\ run' = [run EXCEPT ![r].at = IF run[r].cut THEN "cut" ELSE "tracing"]
    /\ UNCHANGED <<setting, turn, shadow, tracks, lost, rows, bounds>>

DualLeaves(r) ==
    /\ run[r].at = "closing" /\ inflight' = inflight - 1
    /\ run' = [run EXCEPT ![r].at = IF run[r].cut THEN "cut" ELSE "tracing"]
    /\ UNCHANGED <<setting, turn, shadow, tracks, lost, rows, bounds>>

(* persist_statement: not when the cascade shadow has to do it.            *)
States(r) == query[r] = "statement" /\ ~cascadeOn

SavesTrace(r) ==
    /\ run[r].at = "tracing" /\ traces' = [traces EXCEPT ![r] = run[r].verdict]
    /\ run' = [run EXCEPT ![r] = [IdleRun EXCEPT !.at = IF States(r) THEN "stating" ELSE "done"]]
    /\ UNCHANGED <<setting, turn, shadow, tracks, inflight, lost, statements, bounds>>

SavesStatement(r) ==
    /\ run[r].at = "stating" /\ statements' = statements \cup {r}
    /\ run' = [run EXCEPT ![r].at = "done"]
    /\ UNCHANGED <<setting, turn, shadow, tracks, inflight, lost, traces, bounds>>

RunFails(r) ==
    /\ run[r].at \in {"tracing", "stating"} /\ failures < MaxFailures /\ failures' = failures + 1
    /\ run' = [run EXCEPT ![r] = [IdleRun EXCEPT !.at = "failed"]]
    /\ UNCHANGED <<setting, turn, shadow, tracks, inflight, lost, rows, stops>>

-----------------------------------------------------------------------------
(* interrupt(): every task is cancelled. A first cancellation reaches the  *)
(* finally of a run inside its slot; one that finds it in the finally cuts *)
(* the gather there, and the slot is not given back. A write in a thread   *)
(* may have begun already (written).                                       *)
InSlot == {r \in Requests : run[r].at \in {"inside", "cutting", "closing"}}
Closing == {r \in Requests : run[r].at = "closing"}

StopRun(one) ==
    IF one.at \in {"inside", "cutting"} THEN [at |-> "closing", verdict |-> "none", cut |-> TRUE]
    ELSE IF one.at \in {"scheduled", "closing", "tracing", "stating"}
    THEN [IdleRun EXCEPT !.at = "cut"] ELSE one

Stop(written) ==
    /\ stops < MaxStops /\ stops' = stops + 1
    /\ written \subseteq {r \in Requests : "stating" \in {run[r].at, shadow[r]}}
    /\ statements' = statements \cup written
    /\ turn' = [r \in Requests |-> "over"]
    /\ shadow' = [r \in Requests |->
                    IF shadow[r] \in {"scheduled", "stating", "searching"} THEN "cut" ELSE shadow[r]]
    /\ run' = [r \in Requests |-> StopRun(run[r])]
    /\ tracks' = [r \in Requests |-> [n \in TrackNames |-> Off]]
    /\ lost' = lost \cup Closing
    /\ UNCHANGED <<setting, inflight, traces, failures>>

-----------------------------------------------------------------------------
Handling == \E r \in Requests :
    ScheduleContextCascadeShadow(r)
    \/ \E steps \in BOOLEAN : ScheduleContextDualTrack(r, steps)

Shadows == \E r \in Requests : ShadowBegins(r) \/ ShadowSaves(r) \/ ShadowFails(r) \/ ShadowEnds(r)

Tracks == \E r \in Requests, n \in TrackNames :
    \/ \E hits \in Packs : WaveAnswers(r, n, hits)
    \/ \E got \in Packs : WaveUnanswered(r, n, got)
    \/ TrackRaises(r, n)

Runs == \E r \in Requests :
    DualEnters(r) \/ DualWaited(r) \/ DualTimesOut(r) \/ DualCloses(r) \/ DualLeaves(r)
    \/ SavesTrace(r) \/ SavesStatement(r) \/ RunFails(r)

Stopping == \E written \in SUBSET Requests : Stop(written)

Next == Handling \/ Shadows \/ Tracks \/ Runs \/ Stopping

Spec == Init /\ [][Next]_vars

-----------------------------------------------------------------------------
(* A slot is taken by a run that is inside it, or was lost with a run that *)
(* a STOP found in the finally of dual_track.py:332-337; no other way out  *)
(* of a run (a refusal, a timeout, an error of a track, a STOP before)     *)
(* keeps one or gives one back twice.                                      *)
SlotsComeBack == inflight = Cardinality(InSlot) + Cardinality(lost)
=============================================================================
