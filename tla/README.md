# VoiceLoop, specified

TLA+ models of VoiceLoop, the TLC configurations that check them on small
instances, and theorems about them that the TLA+ proof system (TLAPS) checks for
every instance.  The program is `src/listener/voiceloop/` (Python, one asyncio
event loop): a local voice assistant for Windows that turns speech or typed text
into a plan, checks the plan against an allow-list and a policy, and executes it
on a single queue, with confirmation by the user where the policy asks for it.

Contents: 1 the system; 2 the modules; 3 the runs; 4 fairness; 5 the proofs; 6 what
the checks found; 7 what is not modelled; 8 what is left.

## 1. The system

    microphone -> DeepgramListener -> VoiceConversation --+
    panel, VoiceAttack, n8n -> HTTP API (app.py) ---------+-> AssistantService.handle
                                                          |      router / routing V2
                                                          |      retrieval of context
                                                          v
                          MemoryStore (SQLite) <---> CommandExecutor --> ActionRegistry
                               |                          |                (Windows, files)
                     Qdrant (derived index)               +--> WindowsTTS, EventBus

Everything runs on one asyncio loop: a coroutine runs alone between two awaits, and
the interleavings that matter are the orders of awaits.  SQLite writes and blocking
calls go to threads (`asyncio.to_thread`), which a cancelled coroutine does not take
back.

| component | its state | its operations | correct when |
|---|---|---|---|
| command executor, `executor.py` | `pending_confirmation`, the queue, `_completion_futures`, `_state_lock`, `_current_request_id`, `_current_execution`, the rows of `commands` | `submit`, `confirm`, `cancel`, `stop_all`, `wait_for_completion`, the worker `_run` | a plan runs once, with consent where needed, never after STOP or cancel; results stand; callers are answered |
| assistant turns, `assistant.py` | `_turn_lock`, the active turn, recent texts (dedupe of 2 s) | `handle`, `interrupt`, spoken yes and no, retrieval, commitments | one turn at a time; a spoken yes is about the plan the user heard |
| voice conversation, `voice_conversation.py` | one of five states, the turn counter, barge-in and pause flags | interim and final transcripts, timeouts, speech, pause countdown | it never listens to its own voice; it never falls silent for good; a pause lets nothing but resumption through |
| speech recognition, `deepgram.py`, `audio_capture.py` | the socket, bounded audio queues, the pieces of an utterance | start, stop, reconnect, assembly of final pieces, flush | words are handed over in order, none twice, and none from before a stop |
| speech output, `tts.py` | the process or synthesizer that speaks | `speak`, `stop` | `stop` silences what speaks |
| HTTP API, `app.py` | none of its own besides tokens | routes that call the components, event stream | a route does what the component promises |
| action registry, `actions.py` | allow-list, trash and undo on disk | `enforce_policy`, `bind_execution_targets`, `execute` | no action outside the list; no medium or high action without consent |
| command table and store, `memory.py` | SQLite tables: commands, messages, memories, context events, episodes, meetings | upserts, tombstones, prunes, queries | dedupe by id; what is expired or tombstoned is never returned |
| meeting recorder, `meeting_recorder.py`, `context/meeting_ingest.py` | a session in SQLite, capture tasks, processed files | start, stop, live segments, poll loop, finalise | each chunk is transcribed at most once; a stop loses no tail |
| event bus, `events.py` | bounded queues of subscribers | publish, subscribe | the latest events reach every subscriber |
| intent router, `router.py`, `model_router.py` | provider cooldowns | deterministic rules, planner with fallbacks | a rule decides before a model does; STOP needs no model |
| routing service, `routing/` | fingerprints, calibration | segment, resolve, assemble, validate | dependencies are acyclic; an unsure segment is clarified or left to V1 |
| capability index, `capability_index.py`, `embeddings.py` | a Qdrant collection | sync, rank | it follows the registry |
| context timeline, `context/` | events, episodes, entities and their vectors | ingest, expire, retrieve, two-track arbiter, vectorise | evidence that expired or was deleted is not used |
| situation state, `situation/` | a ledger in memory | propose, review, append | facts enter only as local code decides |
| commitments, `commitments/` | rows for review | detect, score | never executable |
| vector store, `qdrant_memory.py`, `memory_vectorization.py`, `manual_memory.py` | Qdrant points | upsert, search, prune | SQLite is the truth, Qdrant follows |
| screen memory, `screenpipe*.py`, `screen.py`, `behavior_digest.py` | watermark, cooldowns | index recent activity, digest, store | an activity is stored once; private apps are not |
| document and shell tools, n8n, web, emotion, telemetry, settings, evaluation, corpus tools | adapters and offline tools | | not part of the core |

Components interact by direct calls (conversation -> assistant -> executor ->
registry), through the row of the `commands` table (executor, cancelled turns and
waiters read and write it, not all under the executor's lock), and through STOP,
which reaches into all of them.

What is hard here, and where each instance of it bites, is the list `hazards` of
`PROJECT.json`: state read before an await and used after it (submit's snapshot of
stale confirmations, `_mark_request_cancelled`), cancellation that lands at any
await, the order of a FIFO lock that STOP silently relies on, a queue at its limit,
confirmations that expire or race each other, a restart that keeps rows and loses
memory, and waiters that must be told.

## 2. The modules

### CommandExecutor

Models `executor.py` whole, with what its neighbours do to it: `AssistantService.handle`
as far as it creates the row, submits and replies, `interrupt`,
`_mark_request_cancelled`, `MemoryStore.create_command` and `update_command`.

| in the model | in the code |
|---|---|
| `status`, `fresh` | `commands.status`; whether `updated_at` is younger than `CONFIRMATION_TTL_SECONDS` |
| `pending`, `queue`, `futures`, `current` | `pending_confirmation`, `_queue`, `_completion_futures`, `_current_request_id` |
| `lock` | `_state_lock`: its holder at the head, then the waiters, first come first served |
| `exec` | `_current_execution`: the task, its step, whether `cancel()` was called on it, how it ended |
| `worker` | where `_run` is: get, claim, await, finish, clean up |
| `turn` | the turn in progress and how far into `submit` it is; `cancelled` when `interrupt` cancelled it |
| `caller[c]` | a coroutine in `confirm`, `cancel`, `wait_for_completion` or STOP (`interrupt` + `stop_all`) |
| `Plan[r]` | the plan planning yields: one to clarify, one without steps, one that needs consent, one that does not, with the dependencies of its steps |

One action is one stretch of code without a point where another coroutine could
change what it uses: a critical section of `_state_lock` is one action; what the
code does without the lock is a step of its own (the snapshot of the pending plans
in `submit` and in `stop_all`; `_mark_request_cancelled`, which reads the row and
writes it later; `wait_for_completion`, which reads the row and registers its future
later).  A section that `interrupt` cuts is `StopCutsSection`: the await of
`update_command` raises, the thread writes the row all the same, and what follows the
await is skipped.

`consent`, `runs` and `halted` are histories that no guard reads: the user's last
word on each request, how often it was claimed, and what a finished cancel or STOP
promised to have ended.  A STOP promises (`doomed`) what is pending, queued, running or
being submitted when it is called; it no longer promises what the user confirms before it
returns, nor a clarification that a second STOP leaves open (`MarkAborted`, see 6).
`ConfirmAnyStatus`, `FinishAnyStatus` and the other
definitions whose comment begins with `Mutant` are faulty versions of the action they precede and
belong to no specification: each shows that a property can fail.

### CommandLifecycle, ExecutorRefinement

`CommandLifecycle` is what the executor promises of a request, with no lock, queue,
task or caller in it: the phase of each request, which are still being decided, which the
user agreed to, which were started and which one runs.  `ExecutorRefinement` instantiates
it with what `CommandExecutor` does: phase and consent are the executor's own, `Asking` is
read off the plans, `Undecided` off the turn (its request is being submitted), `Claimed`
off the claims, `Performing` off `_current_execution` (the request whose task is alive and
not cancelled).  `Implements` is the lifecycle's specification under that mapping.

### The proof modules

`CommandExecutorProofs`, `CommandLifecycleProofs` and `ExecutorRefinementProofs` hold the
theorems about CommandExecutor, CommandLifecycle and the refinement;
`VoiceConversationProofs` those about VoiceConversation; `ServicesProofs` and `DesktopProofs` those about the components of MCServices,
`MeetingRecorderProofs` and `StoresProofs` those about the components of MCStores; see 5.

### MCCommandExecutor

Plans and call budgets for TLC.

### VoiceConversation, MCVoiceConversation

Models `voice_conversation.py` with `deepgram.py` as far as it opens and closes the
microphone and runs callbacks, the routes of `app.py` that call them, the watcher of
listen timeouts, and `assistant.interrupt`, `tts.speak` and `tts.stop` as the
conversation uses them.

Every coroutine is a process: one for each utterance (a control phrase gets a task of
its own, the others are run one after another by the worker of the final callbacks), one
for each call of the API, the watcher, the countdown of a pause, and the task that arms
barge-in.

| in the model | in the code |
|---|---|
| `conv.state`, `turn`, `active`, `accept`, `interrupt`, `armed`, `barge` | `state`, `_turn_id`, `_turn_active`, `_accept_final`, `_interrupt_requested`, `_barge_in_armed`, `_pending_barge_in` |
| `conv.asking`, `until`, `blocked`, `session` | `_pending_pause` is set, `_pause_until` is set, `_blocked`, `assistant.conversation_active` |
| `co[p].at`, `next` | the await the coroutine is in, and where it goes on after the microphone |
| `co[p].turn`, `job`, `owner` | its `turn_id`, what it says, whose words its turn is about |
| `co[p].dying`, `opened`, `holds`, `waits` | cancelled while it spoke; `barge_listener_started`; it holds `_pause_lock`; whom a gather waits for |
| `mic`, `queue`, `worker` | the socket, `_final_queue`, `_final_worker_task` |
| `scene` | bounds: what is said and called, whether the stream is kept (`stream_reuse_enabled`), how many failures |

Between two awaits that let another coroutine act, a coroutine moves in one action.  A
coroutine that comes to the free lock of the microphone has it before any other runs
(`MicLocked`, `Yielded`): acquiring a free asyncio lock does not yield.  What an utterance
says is one of eight classes; `noise` is what the filters (echo, ambient voice,
several speakers) may discard.  A voice in the room that is no echo is not
discarded during speech, in the model as in the code.  `stale` is a history: a turn that
had been superseded came to `_resume_listening`, or to the end of `_enter_pause`.

### The services: from what was said to what is done

`MCServices` composes these seven modules.

| module | models | its state and steps |
|---|---|---|
| `DeepgramListener` | `deepgram.py` | where `_run_forever` is (`stream`), the parts of an utterance (`finals`), per kind of callback its bounded queue, its worker and the call that runs (`channel`), the holder of the lifecycle lock (`op`). A stop waits twice: for the stream, then for the callbacks it cancelled |
| `AssistantTurns` | `assistant.py` without what it gathers | where each request is (duplicate test, lock, lanes, gates, submit, the spoken yes or no), the row it has, the signatures remembered, who holds the lock; a STOP cuts a turn at any await, joins it and marks its row |
| `RoutingPipeline` | `router.py` (the order of the recognisers), `routing/segmenter.py`, `resolver.py`, `assembler.py`, `service.py` | a text is a sequence of classes of words; segmentation, resolution and assembly are operators, and the steps are those of `RoutingService` with its modes, the index that may not be there, the fallback to the router |
| `CapabilityIndex` | `capability_index.py`, `embeddings.py` | one point per action under an id that does not depend on the catalogue or the model; a start with its awaits, any of which may fail, over what earlier processes left; the cache of query vectors |
| `ModelRouter` | `model_router.py` | one request: the slot asked, what its planner keeps of the context, the post, the judgement of the answer, the second attempts, the fallback |
| `DesktopActions` | `actions.py`, `notepad_document.py`, `windows_shell.py` | windows with what is behind them, commands bound to a target, the thread that looks again and acts a moment later, numbered items, the macro runner and STOP |
| `CommitmentShadow` | `_emit_commitment_shadow`, `commitments/`, `context/review.py` | a text is the set of rules it matches; the score is computed in ten-thousandths, as the code computes it in decimals |

### The stores: what is kept, and what follows it

`MCStores` composes these ten modules.

| module | models | its state and steps |
|---|---|---|
| `MeetingRecorder` | `meeting_recorder.py`, `audio_capture.py`, the meeting tables, the removal of recordings | sessions and their status, the files and rows of chunks, the workers (poll task, capture of input and output, finalizer) between their awaits, start, stop and close, a crash that empties memory, retention |
| `ContextTimeline` | events, episodes, their full text and vectors; `context/ingest.py`, `vectorization.py`, `lifecycle.py`, `retrieval.py`, the retention worker | tasks without a common lock; each await is a step boundary, and so is each SELECT of a clean-up before its transaction; every task may fail or be killed there. `crossed` is a history: the rows written last while a clean-up held its list |
| `ScreenMemory` | `screenpipe_deepgram.py`, `screenpipe_memory.py` | the transcriber of finished meetings and the worker that vectorises, two loops that an exception sends back to the start; a restart empties both |
| `ManualMemory` | `manual_memory.py` | a row and a point without a common transaction, with create, delete and the sync of a start |
| `RetentionRollout` | the start and the retention worker of `app.py` | the mode and the anchor saved one after the other, the process ending between |
| `RoutingCalibration` | `routing/calibration.py`, `corpus/routing_calibration.py` | observations in the background through a bounded queue, labels, a fit on an earlier part and a judgement on a held out part, the artifact a later start reads. The statistics are a choice, which rows they see is not |
| `ContextShadow` | the cascade shadow and the dual track (`assistant.py`, `context/dual_track.py`) | two searches side by side within a slot and a time limit, the writes of trace and statement, a STOP at any await |
| `ContextEntities` | `context/entity_registry.py` and its tables | submissions that read a candidate, merge and write what they merged (`submit`), reviews of three calls of the store each (`review`), rejections, the import of a lexicon. `brought` is a history: the offers written for a name |
| `SchemaMigration` | `initialize` of `memory.py` | the statements of a start over what an earlier release or a start that died left; what is on disk at once and what waits for a commit |
| `SituationLedger` | `situation/` | proposals, the policy over their evidence, the ledger |

Operators whose comment begins with `Mutant` are faulty versions of the definition they
precede, as in CommandExecutor.

### MCServices, MCStores

The components of each composition share no state of the models (the code joins them
through calls that the modules see as inputs), so that their product would only multiply
them.  `focus` is chosen at the start; a behaviour moves the component in focus, the
others stand in an initial state of theirs.  The state space is the sum of the
components', and a property of a component is evaluated where it is in focus
(`Moved`), or everywhere when the component's own definition is checked.  What is
lost: nothing that a component's module can say, and any interplay the modules do not
model.  Where components share state in the code (executor and turn; conversation and
microphone; retention, indexer and ingestors) they are together in one module.

## 3. The runs

A passing run explores every reachable state of its instance.

| run | instance | shows |
|---|---|---|
| `executor_restart` | three requests (two steps with consent, a clarification, an empty plan), two confirmations, a cancel, one restart, a queue of one place; 805 000 states | `AtMostOnce`: no request is claimed twice; `ResultOnlyCancelled`: a result is not rewritten |
| `executor_rivals` | two plans that both need consent, a confirmation, a cancel and two STOPs, the second of which may cut what the first does; 990 000 states | `ConsentGoverns`: the task runs on a yes in time that was not withdrawn; `OnePending`; `HaltedStaysDown`: after a cancel or a STOP nothing of the request runs; `Implements`: the executor is a lifecycle |
| `executor_live` | two plans without consent, one whose step depends on a later one, a queue of one place, a STOP and a waiter; 151 000 states | `QueuedEnds`, `CallsReturn`, `WaiterToldResult` under `FairSpec` |
| `conversation` | a turn with a rival turn, a spoken stop, an interrupt, a hard stop and an interim that cuts speech; a pause that is asked for, confirmed, denied, unconfirmable, left by voice, by the API and by its countdown, or stopped; a microphone or an assistant that fails once; each with a kept and a one-shot microphone; 573 000 states | `TypeOK`; `AnsweredOnce`; `KeptStreamIsFree`; `PauseCanBeLeft`; `KeptStreamListens` |
| `conversation_ends` | a kept stream, two utterances, an interrupt or a resume; 28 500 states | `TurnsEnd` under `FairSpec` |
| `services` | the seven components of MCServices; 448 000 states | see below |
| `stores` | the ten components of MCStores; 535 000 states | see below |
| `conversation_interrupted` | the same instance | `ListensUntilStopped` fails (6.4) |
| `desktop_macro` | DesktopActions: two commands, a STOP | `StopEndsMacro` fails (6.5) |
| `executor_resurrection` | one plan, one cancel | `CancelledIsAnEnd` fails (6.1) |
| `executor_unanswered` | one plan, a STOP, a waiter | `WaiterAnswered` fails (6.2) |
| `executor_restored` | one plan, a restart, a STOP | `StopVoidsConfirmation` fails (6.3) |

What `services` shows:

| property | says |
|---|---|
| `HeardAsSaid` | the words of an utterance were said in one connection; nothing said before a stop that ended is handed over after it; order is kept; a one-shot ends with words, a time-out or an error |
| `PlansAreHandedRightly` | a plan is handed to the executor once in the window of its signature, and none comes from a voice that was not understood, whichever lane made it |
| `NothingRunsAfterStop` | once a STOP has drained the executor no turn that was under way before it brings a command in, and no spoken yes finds one |
| `EveryTurnEnds` | the turn lock comes free, again and again, also after exceptions and cuts |
| `CommandsStayWhole` | a command is done whole or asked about: the steps of a plan cover every word but the connectors, in order, each from one part; of a graph a model proposed every step or none. Except texts with a verb inside a free text, texts that go on after one (see 6), and those taken for a look-up of an API (see 6) |
| `IndexIsWhole` | a ready index holds its own catalogue whole and nothing else, embedded by the model that embeds the queries |
| `ContextStaysWhereAllowed` | private context reaches only an endpoint whose policy accepts it, by fallback, repair, free form and reply |
| `OnlyWhatWasMeant` | a note, window or item is acted on only if it is the one the command was bound to, unless it changed after the thread had looked; a number selects from the list that was told last |

What `stores` shows:

| property | says |
|---|---|
| `TailBelongsToActive`, `EndedStaysEnded`, `PruneLeavesNoFile` | a stop of a meeting loses no tail; an ended session never records again, whoever writes last; retention removes no row whose file it left |
| `SearchFollowsRows` | the full text holds exactly the rows that may be answered with, whoever wrote last, except rows written last while a clean-up held its list (see 6); a point of a written memory does not outlive its row, except where a deletion met an indexing (see 6), or with the vector store switched off |
| `WithdrawnIsNotServed`, `ExpiredPointsGo` | a retrieval does not answer with an episode that was removed before it began, although its point is found; a point whose time has passed goes in the end |
| `PaidOnce`, `MeetingsGetDone` | audio goes to the paid service once, save an answer that was cut before it was stored; every meeting is completed or blocked in the end |
| `FreshGrace` | the retention worker of `app.py` prunes nothing before the grace period of the present series of destructive starts is over. What the worker of the screen memory prunes on its own (`screenpipe_memory.py:180`) has no grace period |
| `ProbabilityIsHeldOut` | a probability is told only by a fit of this runtime, judged on later rows that no chain of texts or sessions ties to its training |
| `SlotsComeBack` | a slot of the dual track is held by a run inside it, or was lost with one that a STOP found in its `finally` (see 6) |
| `UpgradesAreSound` | no crash of a start loses a row of the old shadow table; a start that comes up has the whole schema |
| `CanonicalIsBacked` | an entity a review made has two sources and a strong signal, each source and spelling was submitted for it, whatever a concurrent submission has taken out of its candidate since; a word resolves by a spelling of the entity; a candidate that is called approved has its entity |
| `DecisionsStand` | a candidate that was approved or rejected does not come back for review, also not by a submission that read it before and writes it after |
| `LedgerStandsOnEvidence` | no commitment rests on words of a model or an untrusted source, no fact and no decision on less than observation |

`ServicesTypeOK` and `StoresTypeOK` are the type invariants of all these modules.

Bounds.  `MaxCalls` bounds the calls of each kind by each caller, `MaxRestarts` the
restarts; both are in the guards of the calls.  Two requests are what it takes for
one to make the other stale or to fill the queue (`QueueLimit` is 1: a queue at its
limit is then reached at once, where the program has 10); two callers what it takes
for two confirmations, or a confirmation and a STOP, to race.  A plan of two steps
can be cancelled before, between and after its steps.  The theorems of 5 lift every
one of these bounds for the invariants they cover.

`ScenesDef` bounds a conversation: two or three utterances of given classes, at most two
calls, one failure, one cut.  Two utterances and a call are what it takes for a turn to
be superseded while it plans, executes or speaks; three for words that come during a
confirmed pause.  `PauseCanBeLeft` and `KeptStreamListens` are about behaviours without
failures, since the code gives up a conversation whose microphone does not come back;
`KeptStreamListens` also excepts what 6.4 shows, `PauseCanBeLeft` what a superseded
acknowledgement does to a one-shot microphone (see 6).

In `services` and `stores` the bounds of a module are constants whose comment says
"bound": pieces of audio, listens, messages, ingests, failures, moves of the user, events
of a ledger.  The least at which the cases happen: two requests or submitters to
race; one failure or crash, which may fall at every await; queues of one place, so that
they are full; two texts, two sessions and two rows of calibration, tied or not (for chains of rows see 5);
two catalogues that share an action and models of two sizes for an index made by another
process; texts of up to three commands of at most three words (`Breaths`) for the
segmenter; a clock of two values for the timeline (before and after expiry), of four
days for a grace period of one.  In `stores` two calls of
an ingestor race the indexer and the two clean-ups, so that a row that was tombstoned or removed
is written again; a retrieval and a failure are looked at up to the first of them
(`MaxDisturbed`): what overlaps them is there with one call.  The registry has two submitters, whose reads and
writes interleave with each other's and with the three calls of one reviewer.  The theorems of 5
hold for any number of each.  Each bound was tried with mutants of the code: every
property of a passing run is violated by one under the same bounds.

Deadlock is not checked: once the bounded calls are spent and everything has ended
the model stops, as the program idles.  That nothing waits for ever is what the
liveness properties say.

## 4. Fairness

`FairSpec` adds weak fairness of each coroutine's own steps: of the turn, of the
worker, of the task, and of each caller once it has called.  asyncio runs every ready
coroutine, the lock is FIFO, handlers of actions have timeouts or return, and a turn
that has begun ends its planning (the planner has timeouts).  Nothing obliges a user to
call, a confirmation to expire or the core to restart, so the actions `TurnStarts`, `Call`,
`StopCall`, `StopCutsSection`, `Expires` and `Restart` have none.

`FairSpec` of VoiceConversation adds that the event loop goes on while anything but a user
or a timer of a pause can act: the recogniser connects (its reconnect has no end of
tries), speech ends, the assistant answers (the planner has timeouts) and an executed plan
answers, save when an interrupt cut it (`unanswered`, see 6.2).

In `services` each turn of AssistantTurns that has begun goes on (`TurnGoesOn`): the
planner and the retrieval have timeouts, and the event loop runs every ready coroutine.
In `stores` the retention worker is fair in its own steps (`RetainActs`: it is a loop
that survives its exceptions and comes round at its interval), and so is the transcriber of
meetings (`ScribeActs`), which comes back after a backoff; exceptions are bounded.  A
chunk that raises for ever is outside that assumption (see 6).  Nothing is assumed of
users, of the recogniser, of ingestors or of crashes.

## 5. The proofs

Assumption: `ExecutorAssumption` (processes are distinct, `NoReq` is no request,
an empty plan has no steps, the limit of the queue is positive, bounds are numbers).
Nothing is assumed of the number of requests, callers, steps, calls or restarts.

- `TypeCorrect`: `Spec => []TypeOK`, which no run checks: the theorem does.
- `ExecutesAtMostOnce`: `Spec => []AtMostOnce`.  `AtMostOnce` is not inductive: that
  the second claim never comes depends on what may still write QUEUED.  `RowRule`
  (`MayBeWritten`) says which changes of a row an action may make, proved once for
  every action; `RunsInv` says that a row that was claimed is executing or has ended,
  or that the turn that may revive it is past, so that no later claim finds it queued.
- `ResultsStand`: `ResultOnlyCancelled`, an action property, from `RowRule`.
- `PendingIsUnique`: `Spec => []OnePending`.  The map is filled after an await in
  which others may act; `OnePendingInv` says that while the turn works off its
  snapshot, what is pending is what is left of the snapshot, and that only the turn adds to it.
- `ConsentIsKept`: `Spec => []ConsentGoverns`.  `QueueInv` (what is queued, taken by
  the worker or executing is in one place only, and its row is past the point where a
  turn could submit it), `ExecInv` (what runs is what the worker awaits, and it is the
  current request until it has ended) and `ConsentInv` (whatever needs consent and is
  queued or on its way to execution has it, or its row is no longer queued and the
  claim will find that).  The hard case is a cancel or STOP that comes between the
  worker's `get` and its claim.

- `ExecutorImplementsLifecycle`: `Spec => Implements`.  Every step of the executor is one
  step of the lifecycle under the mapping, or changes nothing of it.  The invariants above
  are what the steps need: that what the worker claims is asked and consented (`ConsentInv`),
  is not being performed already (`ExecInv`, `QueueInv`) and was not started before
  (`RunsInv`).
- `LifecyclePromises`: in every lifecycle nothing runs without the consent it needs
  (`Agreement`), and nothing is started twice (`StartsOnce`), by `LifecycleInv`.
  `CommandLifecycle` has no assumption of its own; the theorem assumes that `NoReq` is no
  request and that `Asks` are requests.

- `HaltedIsKept`: `Spec => []HaltedStaysDown`.  Two invariants carry it.  `LockInv`: the queue
  of the lock holds exactly the coroutines that are before or in a critical section, each
  once, so that whoever is before STOP in it leaves before STOP and nobody comes between.
  `HaltInv` says of every request that a STOP still promises how far STOP has got
  (`Covered`): the turn that submits it has been struck; it is pending only until what was
  pending has been cancelled; while it awaits, whoever is about to confirm it is before
  STOP in that queue; after the drain it is queued nowhere, and a worker about to claim
  it is before STOP, so that the last section finds it as the current request.  What a
  cancel or a STOP has finished with is down (`IsDown`): no row, queue, turn, worker or task
  can bring it to execution, and nothing undoes that (`DownStays`).  The rules of the steps it
  uses are lemmas of their own: who may let a row await or be queued (`EntryRule`), become
  pending (`PendingRule`), enter the queue (`QueueRule`) or run (`RunRule`), and how a turn
  goes on (`TurnRule`).  The attempt to prove it found the behaviour of a second STOP that 6
  describes; without it the invariant is not inductive.

Each invariant was first checked with TLC on the instances of the runs.  The layout:
the row and the lock (lemmas per action), then the three facts Init, step, implication
for each invariant, then the theorem by PTL.

The other components.  Each theorem is stated of the specification a run checks, for every
value of the constants.  Those of `ServicesProofs`, `DesktopProofs` and `StoresProofs`
are about `ServicesSpec` and `StoresSpec`: the invariant of the component under its own
next-state relation, and that it stands still while another one is in focus
(`TurnsMove`, `TimelineMoves`, `StoresMove`...).  The assumptions on the constants of
MCStores, `DeskAssumption` of MCServices, `TurnAssumption` of AssistantTurns,
`CommandsAssumption` of RoutingPipeline, `CacheAssumption` of CapabilityIndex,
`ListenerAssumption` of MCServices and those of
MeetingRecorder are ASSUMEs, which TLC evaluates in the runs `services` and `stores`.  They
are of three kinds: limits and bounds are natural numbers; what a caller brings is of the
kinds there are (`LedgerAssumption`, `SchemaAssumption`); the buckets of time of
the screen follow one another without a gap (`ScreenAssumption`).  Where a theorem has an assumption of its own, its statement shows it.

VoiceConversationProofs:

- `ConversationTypeCorrect`, `AnsweredAtMostOnce`, `KeptStreamStaysFree`, from
  `ConversationAssumption` (the processes are apart, an utterance is spoken once, `None` is
  no class of utterance), for any utterances, calls and scenes.  `WordsOnce`: the words of
  an utterance are unserved, kept for after the assistant's speech, with the one turn that
  is about them, or told, and never in two of these places.  `WaitsForDoomed`: whoever
  gathers with a kept stream waits for callbacks that were cancelled, and nothing calls one of these
  back; it needs `SilentUnsaid`, that nobody speaks before being heard.  Most
  actions are `Calm` (a coroutine goes on without taking words, `Follows`); the other nine
  are those that close the microphone, hear, or hand words on, looked at one by one.
- `KeptStreamStaysListening`, from the same assumptions, for a kept stream without faults and
  before a superseded turn comes to `_resume_listening` (6.4), the cases the property
  itself is about.  At rest the property speaks of one state; on the way there it is a debt, and `KeptFacts`
  says who owes: a session that is not over listens, is paused, has a hard stop on its
  way (`Stopping`) or somebody who still has a step to take (`Busy`); where the microphone
  is off, a hard stop is on its way or somebody is about to open it (`Opening`); whoever
  gives up the current turn is awaited by the one who cancelled it (`ExpiryAwaited`); a
  microphone that is blocked has a stop on its way.  Most actions are `Advances` (one coroutine
  goes on and the others stay where they are); those that close or open the microphone, `Heard`, `Cuts`
  and `CallStop` are looked at one by one.
- `KeptStreamPauseCanBeLeft`, from the same assumptions: with a kept stream `PauseCanBeLeft`.
  A pause begins in one step, which arms the listening that ends it, or leaves that to a
  hard stop on its way.  `PauseHeld` says what it then holds: its end (`conv.until`), and somebody who
  opens the microphone or a microphone that is open.  `Stands` says of a step that it begins no
  pause and leaves one as it is or ends it; the actions are, save those
  in which a pause begins or its coroutine goes on to listen and those of the
  microphone, looked at one by one.

ServicesProofs and DesktopProofs:

- `StopLeavesNothing`, `PlansHandedRightly` (AssistantTurns).  `TurnInv`: whoever holds
  the turn lock is past the gates and nobody else is; a turn a STOP hit is active; a plan
  in hand came from words that were understood; what was handed has its signature
  remembered; once a STOP has drained the executor, every turn from before it is cut
  or has ended (`StoppedIsCut`).
- `DayNeverLowersPriority` (CommitmentShadow): the score of the words without the day and
  of those with it, as sums in ten-thousandths, each bounded so that no clamp applies.
  It is of one function and of no order of steps, so that no run repeats what is proved.
- `OnlyTheMeant` (DesktopActions).  `DeskInv`: a thread that has looked saw what its
  command was bound to; the list remembered is the one told last, or the one whose
  telling is under way; the task the executor awaits has begun.
- `IndexStaysWhole` (CapabilityIndex).  Assumption `NoPointIsNone`: `NoPoint` is no point.
  `PointsAreGenuine`: a point stands under an action of the catalogue that made it, in a
  vector of the size of its model; `StartHasReached`: what each step of a start has
  established for the next.
- `HeardIsAsSaid` (DeepgramListener).  Assumption `ListenerAssumption`: the queues hold something.  `ListenerInv`: the
  parts that have not been flushed are of this connection and this listening
  (`PartsAreOfThisStream`); what a one-shot holds while it closes its socket was said last
  (`HeldIsLast`); every channel hands over in order what was said after the last stop that
  ended and before the held utterance (`HandsOver`, `Ceiling`); a stream that is there began after that
  stop, and none is there while a stop gathers (`StreamIsLive`).  `OneShotInv`: whoever
  holds the lifecycle lock has settled what becomes of the one-shot.
- `CommandsAreWhole` (RoutingPipeline, and `PlansStayWhole` for the model lane), for texts of
  any length and number but those the property excepts; assumption `CommandsAssumption`: a text
  has a word.  A text with the words of a look-up that is not taken for one has one
  verb, and its anchors are that one.  The pieces
  between connectors lie apart and hold every word but the connectors (`PiecesApart`,
  `PieceOf`); when each piece is classified the segments are the pieces
  (`SplitDissects`), and under the anchors a command is of one part, so that its segment
  is the whole text (`AnchoredIsOne`).  The order of the steps is the number of segments
  before each, which grows from left to right (`RanksGrow`, `InOrderIs`).  A rule of the
  router covers the whole text because it answers only where the segmenter finds
  one part (`FastCovers`).
- `ContextStays`, `PlansStayWhole` (ModelRouter), without assumptions.
  `KeepsOnlyAllowed`: at an endpoint a planner holds what its policy lets it keep, and
  the fallback is asked with leave only.
- `ServicesTypeCorrect`: `ServicesTypeOK`, of all seven components.  What is not a matter of
  shape in it: the cache of query vectors never outgrows its size (`CacheStaysBounded`;
  `CacheAssumption`, that it holds one, is the `max(1, ...)` of the code); a queue of callbacks
  never outgrows its own (`QueuesFit`); a collection of the index is there before the points
  are written; a list of parts comes from a connection of a listening
  (`PartsWereHeard`, for which a start that holds the lifecycle lock is one that may still
  begin, `StartsAreLeft`); a planner's outcome is one it can settle on (`SettledIsOutcome`).
  It uses `ListenerInv`, `TurnInv` and `DeskInv`.

MeetingRecorderProofs:

- `TailIsKept`, `EndedSessionsStay`, `PruneLeavesNothing`, `RecorderTypeCorrect`.
  `RecorderInv`: a worker works for a session that was inserted (`JobsAreOfSessions`), a
  capture for the active one (`TasksOfActive`); what a call to start or stop holds is
  as far as it has come (`OpIsAt`); what a worker recorded is in the files or the rows
  (`KeptIsRecorded`); an expired session has no worker (`ExpiredIsQuiet`), and the sweep
  holds only rows whose file it has unlinked (`SweepHasUnlinked`).  The hard steps are those
  in which a stop, a poll and a capture hold the same chunk.

StoresProofs:

- `SearchFollows` (ContextTimeline, ManualMemory).  An upsert writes the row and its entry
  together; a clean-up deletes entries by a list it read before.  `SearchIsRight` is what makes the
  property inductive: of a row that was not written since (`crossed` is the
  complement), the list of a clean-up holds the key exactly if its transaction is going to mark or
  remove it (`ListsAreRight`).  What one clean-up does to the list of the other is the hard
  case: a row the retention worker removed may still be in the list of the lifecycle
  service, and its entry has gone already.  A point of
  a written memory: what is being indexed has a row or is excused, and a deletion begins only when the sync of
  the start is over.  That the excused are memories that were created was found to be
  missing when the proof of the step that creates one failed.
- `WithdrawnStaysUnserved` (ContextTimeline).  `TimelineInv`: `WithdrawnIsDead`, no row of
  an episode that was withdrawn is live (an upsert revives one, and it is then no longer
  withdrawn); `ServedWasCurrent`, what a retrieval has checked was not withdrawn
  before it began.
- `AudioIsPaidOnce` (ScreenMemory).  `ScreenInv`: a chunk without a transcript in a meeting
  that is not done has been paid for as often as an answer to it was cut, except the one
  the transcriber holds.
- `SlotsAreAccountedFor` (ContextShadow).  The slots taken are as many as the runs inside
  one and those whose `finally` a STOP cut, by the cardinality of two disjoint finite sets.
- `LedgerIsBacked` (SituationLedger).  `LedgerStandsOnEvidence` is kept by an append, and
  what `promote` lets through has it: the rank of the best evidence is a minimum over
  what is cited (`BestEvidence`, by the well-foundedness of the numbers).
- `ProbabilitiesAreHeldOut` (RoutingCalibration).  Assumption `CalibrationAssumption`: a
  first release runs, and observations are bounded by a number.  A component is a least set of rows
  that shares no token with the rows outside, so that a union of components is tied to
  nothing outside it; there is a cutoff wherever there are components, by the greatest of
  their ends (`CutoffIs`); and one context of the representative rows is one release for
  all that are labelled (`OneContext`).  `HeldOut` then goes with the artifact from the fit
  over a restart to the probability.
- `UpgradesStaySound` (SchemaMigration).  What the 35 statements of the script are, by
  position (`ScriptIs`), is derived from their concatenation.  `SchemaInv`: outside a
  transaction what the connection sees is on disk; the rows are in the table or the one
  put aside, on disk and for the connection, and in memory between the rename and the
  drop, which finds the copies made (`RowsAreSomewhere`); every statement before the present one has
  had its effect (`MadeBy`).
- `CanonicalStaysBacked`, `DecisionsAreKept`, `EntitiesTypeCorrect` (ContextEntities).
  Assumption `Rows`: `NoRow` is no row.  Nothing is left of the idea that a row grows: a submission
  writes what it read earlier.  `Within` ties every row that stands in the table, in the
  hands of a submitter or in those of a reviewer to the offers written for its name
  (`brought`), which only grow; merging two rows that are within them gives one that is
  (`MergedIsWithin`).  A reviewer holds besides that a row that was ready, and what has been
  marked has been stored (`ApprovedIsCanonical`), for which a reviewer who has stored finds the entity
  there.  `DecisionsAreKept` is an action property of the same steps: the UPDATE does not write the
  status, and an INSERT finds no row.
- `GraceIsFresh`, `RolloutTypeCorrect` (RetentionRollout).  Assumption `RolloutBounds`: grace
  and bound are natural numbers.  `SeriesIsOlder`: the series of destructive starts is older
  than any anchor a start may take, also between the two writes.
- `StoresTypeCorrect`: `StoresTypeOK`, of all ten components, from `RolloutBounds` and
  `Rows`.  It takes the invariants above with one on the fields of each component that has
  no other theorem on its types (`FieldsInv`): a transcriber, a fit, a request for context or an append holds
  between its awaits what it took from the state before.  A pack holds no entry twice and
  at most as many as its limit: `Admitted` is a recursive function over the ranked
  candidates; there is no least number of candidates for which the function fails to exist,
  and none at which it leaves the packs (`AdmittedIsPack`, by the well-foundedness of the numbers).

Each inductive invariant was first checked with TLC as an invariant of its run.

Only model-checked, and why:

- Liveness: `QueuedEnds`, `CallsReturn`, `WaiterToldResult`, `TurnsEnd`, `EveryTurnEnds`,
  `ExpiredPointsGo`, `MeetingsGetDone`.  Fairness needs ENABLED, which these provers do not have.
- `PauseCanBeLeft` with a one-shot microphone: an induction needs, for every coroutine a
  stop may cancel, what it will still do for the pause.

## 6. What the checks found

1. `executor_resurrection`: `submit` and `_enqueue_locked` write QUEUED without
   reading the row, so a request cancelled while its turn still plans is queued and
   runs, whereas `docs/ARCHITECTURE_CURRENT.md:300` lists `cancelled` as an end.
2. `executor_unanswered`: `stop_all` writes CANCELLED for the current request
   without resolving its completion future, and `_finish_execution` returns early
   on a cancelled row: the coroutine in `wait_for_completion` is never answered
   (`voice_conversation.py:938` has a branch for that very answer).
3. `executor_restored`: STOP cancels the confirmations in memory; one that survived a
   restart is only in the table, stays open, and can be confirmed after STOP
   (`README.md:335` of the repository says STOP cancels pending confirmation).

4. `conversation_interrupted`: `interrupt_speech` opens the microphone for its new turn;
   the coroutine whose speech it cut comes to `_resume_listening` afterwards with its old
   turn id, and the branch for superseded turns sets the state to idle and stops
   accepting transcripts.  The docstring promises to "cut TTS/model work, keep session,
   listen immediately" (`voice_conversation.py:660`).

5. `desktop_macro`: `docs/ARCHITECTURE_CURRENT.md:104` sends a STOP on to UI.Vision.
   `stop_all` awaits the cancelled execution before it calls `actions.stop()`; the
   `finally` of `_invoke_uivision` has forgotten the process by then, so that the macro
   goes on.

Behaviours of the code that no run reports, most of them because the repository states nothing
against them.  They are in the models, and where a property would not hold because of one its
comment says what it leaves out.

- Two STOPs: the second cancels the turn in its handler of the first
  (`assistant.py:333`), before it has marked the request.  A clarification that has just
  been put to the user then goes on awaiting and is in no map; if the plan has steps it can
  still be confirmed, and runs.  `HaltedStaysDown` leaves that request out.
- Conversation: with a one-shot microphone `stop()` can wait under the lifecycle lock for
  a callback whose `finally` waits for that lock; words kept during the greeting become a
  second turn with the current id.  There too the acknowledgement of a pause is spoken by
  the call that greeted; when a stop cuts it and a later pause is being left, that call comes
  to its branch for superseded turns late: the pause then stands with the microphone off and no
  countdown.  The attempt to prove `PauseCanBeLeft` showed it; `PauseCanBeLeft` leaves it out.
- Listener: the words of a one-shot are lost when its sender is held up in `send()` while
  the socket closes (`SenderReturns`); an utterance repeated in one connection is dropped;
  final words that were not flushed are lost with their connection; a stop that is
  cancelled while it gathers leaves old words in the queue.
- Routing: the recognisers look for their words in all of a text and may carry out a verb
  of the text of a note or a search; after a free text a part without a verb is taken into
  the segment before it (`routing/segmenter.py:305`).  A text of several
  commands with "api" and a word "endp..." in it skips the tests for coordination and
  unclassified parts and keeps its first anchor (`routing/segmenter.py:119`), so that the
  router does not ask and carries out one of the commands, where
  `docs/SAFE_USER_CORPUS.md:48` says that a compound command can not be carried out by its first
  fragment only.  That the check of one API and its endpoint is one command is meant
  (`tests/test_routing_v2.py:274`).  `CommandsStayWhole` leaves these texts out.
- Model lane: a local plan of low confidence is thrown away when the fallback fails
  (`model_router.py:1159-1200`).
- Dual track: a STOP that comes while the `finally` of `context/dual_track.py:332-337`
  awaits loses the slot for the life of the process.
- Timeline: both clean-ups list the ids before their transaction (`memory.py:1299`, `:3348`), which
  changes the rows by the predicate and the full text by the list: a row that comes due in
  between is tombstoned and stays in the full text, where `docs/CONTEXT_TIMELINE_V1.md:206` has a
  tombstone followed by the end of the projection; one that is written again in between may lose its
  entry.  A search joins the rows, so that nobody is answered with the former.
  `SearchFollowsRows` leaves out the rows written last while a clean-up held its list.
- Written memories: one that is deleted while `create()` awaits its embeddings gets its point
  afterwards (`manual_memory.py:39`) and keeps it; `tests/test_memory.py:629`
  ("deleted_consistently") deletes after the indexing.  `SearchFollowsRows` leaves it out.
- Entities: `upsert_context_entity_candidate` reads in autocommit, merges in Python and writes
  (`memory.py:1467`); of two submissions at once the sources of one go, also sources a
  reviewer has approved, although `tests/test_context_phase2.py:139` has the sources of two
  submissions add up.  `CanonicalIsBacked` says what holds all the same.
- Timeline: upserts revive tombstoned rows; the screen memory's check for duplicates looks
  at the contents before awaiting, a failing search keeps the list that was told before,
  the migration of old rows looks at the first memory only
  (a row the clean-up left behind is copied back by the next migration).
- Entities and situation: a rejection after an approval leaves the entity canonical;
  `propose` takes an observation as evidence for a decision that `promote` refuses; the
  expiry of evidence is not consulted; only tests apply a proposal.
- Schema: after a crash between the rename of the old shadow table and the commit the
  rows stay in the table put aside, which no later start looks at.
- Transcriber: a chunk that raises every time is met first in every round, and no meeting
  behind it is reached.

Hazards of the code that no run has a property for:

| where | what |
|---|---|
| `events.py:25` | a subscriber a hundred events behind loses the oldest, `command.completed` perhaps among them |
| `executor.py:53` | an exception while a plan is bound or judged leaves the row in planning |
| `executor.py:285` | an exception of the store in the claim ends the worker, and nothing restarts it |
| `executor.py:186` | a write that a thread finishes after a later section has written |
| `assistant.py:333` | a second STOP cancels the handler of the first, and cuts a turn inside its enqueueing |
| `assistant.py:1220` | a spoken yes is bound before the targets are revalidated; a newer plan may have taken the place |
| `assistant.py:1367` | two shadows share the duty to store the statement of a turn: one that the router answers is stored by neither |
| `assistant.py:276` | a spoken turn names its speaker by number: the user's own promise is recorded as the other side's |
| `app.py:720` | an exception of the listen timeout ends its watcher |
| `voice_conversation.py:377` | words kept during the greeting become a turn under the id of the moment |
| `voice_conversation.py:1353`, `:1336` | words kept while the end of a pause is announced; a cancellation between the end of a pause and the next state |
| `voice_conversation.py:494` | a spoken stop leaves a pause that waits to be confirmed: a later yes to something else confirms it |
| `tts.py:44` | a stop does not reach a speaker that still waits for the lock of `speak` |
| `audio_capture.py:93` | with a dead archive task and a full queue a stop waits for ever to put its end mark (`InputClogs` has the state) |
| `actions.py:1887` | a paste goes to whatever window is in front, and replaces a whole note |
| `memory.py:1410` | two aliases of one normal form break the transaction of an approval or an import for good |
| `context/lifecycle.py:57` | the list of expired episodes is capped at 5000, the tombstoning is not |
| `screenpipe_memory.py:180`, `:695` | points are pruned before rows; contents are compared before an await |
| `corpus/cli.py:1350` | a fit asks for one fingerprint in all rows of a store that is never pruned: after an update none succeeds again |

## 7. What is not modelled, and why

- The components with status `not_modelled` in `PROJECT.json`: the event bus (only the
  panel reads it), emotion analysis and telemetry (they decide nothing), threshold tools
  and context evaluation (offline measurement), settings (their values are constants).
- Of the components that are `partly` modelled, what their notes name: adapters to
  Windows, the web and n8n, whose promises are made elsewhere; numeric ranking and the
  patterns of the recognisers, which tests cover and of which the models keep the outcome;
  prompts, texts and views.
- In the modules of MCServices and MCStores: scores, embeddings and transcripts are
  choices over the outcomes the code distinguishes; the content of a row is what
  identifies it; a transaction of a store is one step, except in SchemaMigration.  A SELECT is
  no part of the transaction that follows it (`memory.py:179`: the driver begins one with the first
  statement that writes): where a call reads first and writes what it computed, the read
  is a step of its own (SubmitReads, PruneListsEvents, RetainListsEvents...).
- In CommandExecutor: handlers of actions (a step succeeds, fails or is cancelled),
  telemetry, events, texts.  An exception of the store inside the worker (it ends the
  worker) and a write that lands after the write of a later section are left out.  A
  second STOP during the handler of the first is modelled, but `QueuedEnds` is checked
  with one STOP: with two, a row can be left QUEUED that is in no queue.

- In VoiceConversation: transcribe-only mode and meetings, which route transcripts
  elsewhere; the address window, echo scores and stability of interims (their outcome is a
  class of utterance, or whether an interim cuts); telemetry after the await a turn begins
  with; an exception of speech (it falls back to the Windows voice); cooldowns (part of
  the step before); the time a cancelled arming task takes to end; the task of a one-shot
  listen that has delivered its utterance is taken to be done.

## 8. What is left

Modelled and checked so far: everything of section 2, in the order executor, conversation,
turns and listener, recorder, stores, routing, rollout, migration.  Next, in this order:

1. A proof of `PauseCanBeLeft` for a one-shot microphone.
2. What a pause lets through, and recovery from failures of speech.
3. The hazards of section 6 without a property: the event bus and the exceptions that end
   a worker first.
4. AssistantTurns over CommandExecutor: that its one step per call is what the executor
   does, as a refinement.
