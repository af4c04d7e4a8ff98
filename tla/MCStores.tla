------------------------------- MODULE MCStores -------------------------------
(***************************************************************************)
(* The components that keep something, each in small: they share no state  *)
(* of the models, so that a behaviour moves the one it chose at the start  *)
(* and leaves the others where they are. The state space is their sum, not *)
(* their product. Those whose theorems are proved are extended, and the    *)
(* others are instances.                                                   *)
(***************************************************************************)
EXTENDS MeetingRecorder, RetentionRollout, ContextEntities

CONSTANTS
    Events, Episodes, EpisodeOf, MaxTime, MaxIngests, MaxFailures, MaxDisturbed,
    Meetings, MeetingOf, Blocked, ScreenChunks, Buckets, Contents, DualWrite, MaxMishaps, None,
    MaxMemories, MaxTroubles,
    Texts, Talks, Releases, MaxObserved, QueueLimit, NoRun,
    Requests, Items, QMax, WaveSize, MinEvidence, Limit, MaxInflight, MaxStops,
    OldTables, OldColumns, OldRows,
    Ids, Offered, Promotions, MaxEvents, MaxRefs

VARIABLES
    focus,
    events, episodes, found, crossed, points, clock, ingest, index, life, retain, recall,
    withdrawn, ingests, failures,
    ended, epoch, early, transcripts, meetingJobs, sent, lost, scribe, meetingPoints,
    bucketPoints, bank, due, worker, migrated, copied, bucket, screen, mishaps,
    memories, vectors, indexing, deleting, created, available, syncing, excused, troubles,
    release, batches, keeper, observations, labels, observed, accepted, dropped, lostBatches,
    artifact, loaded, given,
    query, cascadeOn, turn, shadow, run, tracks, inflight, lostSlots, traces, statements,
    stops, broken,
    database, seen, open, at, kept, before,
    ledger

(* One episode for all events, one meeting that is not blocked for all chunks. *)
OneEpisode == [e \in Events |-> CHOOSE g \in Episodes : TRUE]
OneMeeting == [c \in ScreenChunks |-> CHOOSE m \in Meetings : m \notin Blocked]

(* All spellings of a name have one normal form.                           *)
SameNormal == [s \in Spellings |-> CHOOSE t \in Spellings : TRUE]

(* Two halves of a candidate that is ready for review, and the second half *)
(* under another spelling.                                                 *)
Halves ==
    LET w == CHOOSE x \in Spellings : TRUE
        a == CHOOSE x \in Sources : TRUE
    IN {[written |-> {w}, sources |-> {a}, strong |-> 0]}
       \cup {[written |-> {x}, sources |-> Sources \ {a}, strong |-> 1] : x \in Spellings}

Timeline == INSTANCE ContextTimeline
Screen == INSTANCE ScreenMemory WITH Chunks <- ScreenChunks
Manual == INSTANCE ManualMemory
Calibration == INSTANCE RoutingCalibration
    WITH Sessions <- Talks, queue <- batches, worker <- keeper, rows <- observations, failed <- lostBatches
Shadow == INSTANCE ContextShadow
    WITH lost <- lostSlots, failures <- broken


Schema == INSTANCE SchemaMigration
    WITH Rows <- OldRows, disk <- database, copied <- kept, given <- before
Ledger == INSTANCE SituationLedger WITH events <- ledger

(* What a release of the store may have left: nothing, the first tables    *)
(* with the shadow table, those with the meetings; and none of the later   *)
(* columns, or those for the expiry.                                       *)
FirstTables == {"commands", "command_events", "command_transcripts", "conversation", "shadow"}
LaterTables == FirstTables \cup {"traces", "meeting_sessions", "meeting_transcript_segments",
                                 "meeting_audio_files"}
TablesLeft == {{}, FirstTables, LaterTables}
ColumnsLeft == {{}, {<<t, "expires_at">> : t \in LaterTables \ {"shadow", "traces"}}}

(* Evidence of the user, of a model that says the user said so or that     *)
(* claims to have observed it, of a memory, of a memory that is not trusted. *)
Brought == [model : {FALSE}, trust : {"user_asserted", "derived", "untrusted_external"}]
           \cup [model : {TRUE}, trust : {"user_asserted", "observed"}]
Asked == {<<"hypothesis", "fact">>, <<"request", "commitment">>, <<"intention", "decision">>,
          <<"request", "decision">>}

-----------------------------------------------------------------------------
(* The two sorts of rows of the timeline are kept in one projection, and   *)
(* NoRow is none of them.                                                  *)
ASSUME TimelineAssumption ==
    /\ MaxTime \in Nat /\ MaxIngests \in Nat /\ MaxFailures \in Nat /\ MaxDisturbed \in Nat
    /\ Events \cap Episodes = {}
    /\ NoRow \notin Timeline!EventRow \cup Timeline!EpisodeRow \cup Timeline!Point

(* The buckets of time follow one another without a gap.                   *)
ASSUME ScreenAssumption ==
    /\ MeetingOf \in [ScreenChunks -> Meetings] /\ MaxMishaps \in Nat
    /\ Buckets \subseteq Nat /\ Buckets # {}
    /\ \A b \in Buckets : b + 1 \in Buckets \/ \A c \in Buckets : c <= b

ASSUME ShadowAssumption ==
    /\ IsFiniteSet(Requests) /\ Limit \in Nat /\ MaxInflight \in Nat /\ MaxStops \in Nat

ASSUME CalibrationAssumption == MaxObserved \in Nat /\ 1 \in Releases /\ QueueLimit \in Nat

(* What a caller brings and asks for is of the kinds there are.            *)
ASSUME LedgerAssumption ==
    /\ Offered \subseteq Ledger!Evidence /\ MaxEvents \in Nat
    /\ Promotions \subseteq Ledger!Kinds \X Ledger!Kinds

ASSUME MemoryAssumption == MaxMemories \in Nat /\ MaxTroubles \in Nat

(* What an earlier release left is of the tables and the columns there are. *)
ASSUME SchemaAssumption ==
    /\ \A tables \in OldTables : tables \subseteq Schema!Tables
    /\ \A columns \in OldColumns : columns \subseteq Schema!Late

Components == {"recorder", "timeline", "screen", "manual", "rollout", "calibration", "shadow",
               "entities", "schema", "ledger"}
TimelineState ==
    <<events, episodes, found, crossed, points, clock, ingest, index, life, retain, recall,
      withdrawn, ingests, failures>>
ScreenState ==
    <<ended, epoch, early, transcripts, meetingJobs, sent, lost, scribe, meetingPoints,
      bucketPoints, bank, due, worker, migrated, copied, bucket, screen, mishaps>>
ManualState ==
    <<memories, vectors, indexing, deleting, created, available, syncing, excused, troubles>>
RolloutState ==
    <<mode, savedMode, savedAnchor, anchor, startup, day, starts, agreed, deletions>>
CalibrationState ==
    <<release, batches, keeper, observations, labels, observed, accepted, dropped, lostBatches,
      artifact, loaded, given>>
ShadowState ==
    <<query, cascadeOn, turn, shadow, run, tracks, inflight, lostSlots, traces, statements,
      stops, broken>>
EntitiesState == <<candidates, entities, aliasRows, submit, review, brought>>
SchemaState == <<database, seen, open, at, kept, before>>
KnowledgeState == <<CalibrationState, ShadowState, EntitiesState, SchemaState, ledger>>
storeVars ==
    <<vars, focus, TimelineState, ScreenState, ManualState, RolloutState, KnowledgeState>>

(* Out of focus a component stands in one of its initial states.           *)
StoresInit ==
    /\ focus \in Components
    /\ Init /\ Timeline!Init /\ RolloutStart /\ (focus # "rollout" => mode = "disabled")
    /\ Screen!Init /\ (focus # "screen" => screen = CHOOSE x \in Contents : TRUE)
    /\ Manual!Init /\ (focus # "manual" => ~available)
    /\ Calibration!Init /\ RegistryInit /\ Ledger!Init
    /\ Shadow!Init /\ (focus # "shadow" => ~cascadeOn /\ \A r \in Requests : query[r] = "plain")
    /\ Schema!Init /\ (focus # "schema" => database.tables = {})

RecorderStep ==
    /\ focus = "recorder" /\ Next
    /\ UNCHANGED <<focus, TimelineState, ScreenState, ManualState, RolloutState, KnowledgeState>>
TimelineStep(A) ==
    /\ focus = "timeline" /\ A
    /\ UNCHANGED <<vars, focus, ScreenState, ManualState, RolloutState, KnowledgeState>>
ScreenStep(A) ==
    /\ focus = "screen" /\ A
    /\ UNCHANGED <<vars, focus, TimelineState, ManualState, RolloutState, KnowledgeState>>
ManualStep ==
    /\ focus = "manual" /\ Manual!Next
    /\ UNCHANGED <<vars, focus, TimelineState, ScreenState, RolloutState, KnowledgeState>>
RolloutStep ==
    /\ focus = "rollout" /\ RolloutNext
    /\ UNCHANGED <<vars, focus, TimelineState, ScreenState, ManualState, KnowledgeState>>

KnowledgeStep ==
    /\ \/ /\ focus = "calibration" /\ Calibration!Next
          /\ UNCHANGED <<ShadowState, EntitiesState, SchemaState, ledger>>
       \/ /\ focus = "shadow" /\ Shadow!Next
          /\ UNCHANGED <<CalibrationState, EntitiesState, SchemaState, ledger>>
       \/ /\ focus = "entities" /\ RegistryNext
          /\ UNCHANGED <<CalibrationState, ShadowState, SchemaState, ledger>>
       \/ /\ focus = "schema" /\ Schema!Next
          /\ UNCHANGED <<CalibrationState, ShadowState, EntitiesState, ledger>>
       \/ /\ focus = "ledger" /\ Ledger!Next
          /\ UNCHANGED <<CalibrationState, ShadowState, EntitiesState, SchemaState>>
    /\ UNCHANGED <<vars, focus, TimelineState, ScreenState, ManualState, RolloutState>>

(* Bound: a retrieval and a failure are looked at up to this many calls of *)
(* an ingestor; the later calls meet the indexer and the clean-ups alone.  *)
Undisturbed == recall' = Timeline!Idle /\ failures' = 0
InBounds == ingests' <= MaxDisturbed \/ Undisturbed

StoresNext ==
    \/ RecorderStep \/ TimelineStep(Timeline!Next /\ InBounds) \/ ScreenStep(Screen!Next)
    \/ ManualStep \/ RolloutStep \/ KnowledgeStep

(* What Timeline and Screen assume of their tasks, where they are in focus. *)
StoresSpec ==
    /\ StoresInit /\ [][StoresNext]_storeVars
    /\ WF_retain(focus = "timeline" /\ Timeline!RetainActs)
    /\ WF_ScreenState(focus = "screen" /\ Screen!ScribeActs)

-----------------------------------------------------------------------------
(* Every component keeps state of the shape the code has. Out of focus it  *)
(* stands in an initial state, which the behaviours that move it begin in. *)
Moved(component, correct) == IF focus = component THEN correct ELSE TRUE
StoresTypeOK ==
    /\ Moved("recorder", TypeOK) /\ Moved("timeline", Timeline!TypeOK)
    /\ Moved("screen", Screen!TypeOK) /\ Moved("manual", Manual!MemoryTypeOK)
    /\ Moved("rollout", RolloutTypeOK) /\ Moved("entities", EntitiesTypeOK)
    /\ Moved("calibration", Calibration!CalibrationTypeOK)
    /\ Moved("shadow", Shadow!ShadowTypeOK) /\ Moved("schema", Schema!SchemaTypeOK)
    /\ Moved("ledger", Ledger!LedgerTypeOK)

(* A retrieval answers with no episode that was removed or tombstoned      *)
(* before it began and not written again, although its point may be found. *)
WithdrawnIsNotServed == Moved("timeline", Timeline!WithdrawnIsNotServed)

(* A point of the timeline whose time has passed is removed in the end.    *)
ExpiredPointsGo == Timeline!ExpiredPointsGo

(* Audio is sent to the paid service once, however many rounds fail or are *)
(* cut: only an answer cut before it was stored is asked for again.        *)
PaidOnce == Moved("screen", Screen!PaidOnce)

(* Every meeting of Screenpipe that ends while the transcriber is in use   *)
(* is completed or blocked in the end, whatever failed on the way.         *)
MeetingsGetDone == Screen!MeetingsGetDone

(* What a search may find follows the rows: the full text projections hold *)
(* exactly the rows that may be answered with, whichever of the ingestors, *)
(* the indexer and the clean-ups of the timeline wrote last, but for a row *)
(* that was written last while a clean-up held the list it deletes by; and *)
(* a point of a written memory never outlives the row that leads to it,    *)
(* but for a deletion while the memory was being indexed, or with the      *)
(* vector store switched off.                                              *)
SearchFollowsRows ==
    Moved("timeline", Timeline!SearchMatchesRows) /\ Moved("manual", Manual!PointsHaveRows)

(* A probability of the routing is told only on the word of rows that were *)
(* held out from the fit.                                                  *)
ProbabilityIsHeldOut == Moved("calibration", Calibration!ProbabilityIsHeldOut)

(* A slot of the dual track is taken by a run inside it, or was lost with  *)
(* one that a STOP found in its finally.                                   *)
SlotsComeBack == Moved("shadow", Shadow!SlotsComeBack)

(* No crash of a start loses a row of the old shadow table, and a start    *)
(* that comes up has the whole present schema.                             *)
UpgradesAreSound == Moved("schema", Schema!NoRowIsLost /\ Schema!StartsAreCurrent)

(* What the ledger of the situation holds rests on evidence of its kind.   *)
LedgerStandsOnEvidence == Moved("ledger", Ledger!LedgerStandsOnEvidence)
=============================================================================
