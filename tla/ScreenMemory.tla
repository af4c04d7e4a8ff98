------------------------------ MODULE ScreenMemory ------------------------------
(***************************************************************************)
(* Two background tasks that remember what Screenpipe saw: the transcriber *)
(* of finished meetings (screenpipe_deepgram.py) and the worker that turns *)
(* activity and transcripts into vectors (screenpipe_memory.py). They meet *)
(* in the tables of memory.py and in the vector store (qdrant_memory.py).  *)
(* Each is a loop that an exception sends back to its start, after a       *)
(* backoff; the restart of the process empties both.                       *)
(***************************************************************************)
EXTENDS Naturals, FiniteSets, FiniteSetsExt

CONSTANTS
    Meetings,       \* meetings of Screenpipe
    Chunks,         \* their pieces of audio
    MeetingOf,      \* the meeting a chunk belongs to
    Blocked,        \* the meetings with a YouTube window in their range
    Buckets,        \* ten-minute buckets of activity, oldest first
    Contents,       \* what the screen may show during one
    DualWrite,      \* settings.qdrant_dual_write
    MaxMishaps,     \* bound on calls that raise and on restarts
    None

VARIABLES
    ended,          \* meetings that are over, and over for the grace period
    epoch,          \* app_state: when the transcriber was first started
    early,          \* meetings that were over before that
    transcripts,    \* screenpipe_transcripts
    meetingJobs,           \* screenpipe_meeting_jobs
    sent,           \* how often a chunk was given to Deepgram
    lost,           \* how often the answer was cut before it was stored
    scribe,         \* the transcriber between two awaits
    meetingPoints,         \* vectors of meetings: what each was made of
    bucketPoints,   \* vectors of activity: the content of each bucket
    bank,           \* vector_memories of SQLite, of meetings
    due,            \* meetings whose vectors are past their TTL
    worker,         \* the vector worker between two awaits
    migrated,       \* _migration_done of this process
    copied,         \* app_state: a migration went through to its end
    bucket, screen, \* the present: the bucket of time and what is shown
    mishaps

transcribing == <<ended, epoch, early, transcripts, meetingJobs, sent, lost, scribe>>
remembering == <<meetingPoints, bucketPoints, bank, due, worker, migrated, copied>>
present == <<bucket, screen>>
vars == <<transcribing, remembering, present, mishaps>>

Idle == [at |-> "idle"]
Memories == [kind : {"digest", "legacy"}, made : SUBSET Chunks]
ChunksOf(m) == {c \in Chunks : MeetingOf[c] = m}

TypeOK ==
    /\ ended \subseteq Meetings /\ early \subseteq ended /\ epoch \in BOOLEAN
    /\ transcripts \subseteq Chunks
    /\ meetingJobs \in [Meetings -> {"none", "blocked", "completed"}]
    /\ sent \in [Chunks -> 0..MaxMishaps + 1] /\ lost \in [Chunks -> 0..MaxMishaps]
    /\ scribe.at \in {"idle", "listed", "chunks", "saving"}
    /\ meetingPoints \in [Meetings -> Memories \cup {None}]
    /\ bucketPoints \in [Buckets -> Contents \cup {None}]
    /\ bank \subseteq Meetings /\ due \subseteq Meetings /\ {migrated, copied} \subseteq BOOLEAN
    /\ worker.at \in {"idle", "migrating", "pruning", "bank", "activity", "digesting",
                      "meetings", "storing"}
    /\ bucket \in Buckets /\ screen \in Contents
    /\ mishaps \in 0..MaxMishaps

Init ==
    /\ ended = {} /\ early = {} /\ epoch = FALSE
    /\ transcripts = {} /\ meetingJobs = [m \in Meetings |-> "none"]
    /\ sent = [c \in Chunks |-> 0] /\ lost = sent
    /\ scribe = Idle /\ worker = Idle /\ migrated = FALSE /\ copied = FALSE
    /\ meetingPoints = [m \in Meetings |-> None] /\ bank = {} /\ due = {}
    /\ bucketPoints = [b \in Buckets |-> None]
    /\ bucket = Min(Buckets) /\ screen \in Contents
    /\ mishaps = 0

Mishap == mishaps < MaxMishaps /\ mishaps' = mishaps + 1

-----------------------------------------------------------------------------
(* ScreenpipeMeetingTranscriber.                                           *)

MeetingEnds(m) ==
    /\ m \notin ended /\ ended' = ended \cup {m}
    /\ early' = IF epoch THEN early ELSE early \cup {m}
    /\ UNCHANGED <<epoch, transcripts, meetingJobs, sent, lost, scribe, remembering,
                   present, mishaps>>

(* The first round only notes the moment from which meetings count.        *)
EpochNoted ==
    /\ scribe = Idle /\ ~epoch /\ epoch' = TRUE
    /\ UNCHANGED <<ended, early, transcripts, meetingJobs, sent, lost, scribe,
                   remembering, present,
                   mishaps>>

MeetingsListed ==
    /\ scribe = Idle /\ epoch
    /\ LET open == {m \in ended \ early : meetingJobs[m] = "none"}
       IN /\ open # {}
          /\ scribe' = [at |-> "listed", todo |-> open]
    /\ UNCHANGED <<ended, epoch, early, transcripts, meetingJobs, sent, lost,
                   remembering, present,
                   mishaps>>

Rest(m) == IF scribe.todo = {m} THEN Idle ELSE [at |-> "listed", todo |-> scribe.todo \ {m}]

(* DeepgramAudioPolicy: YouTube is a hard deny, whatever else is true.     *)
Allowed(m) == m \notin Blocked

MeetingDenied(m) ==
    /\ scribe.at = "listed" /\ m \in scribe.todo /\ ~Allowed(m)
    /\ meetingJobs' = [meetingJobs EXCEPT ![m] = "blocked"]
    /\ scribe' = Rest(m)
    /\ UNCHANGED <<ended, epoch, early, transcripts, sent, lost, remembering,
                   present, mishaps>>

MeetingOpened(m) ==
    /\ scribe.at = "listed" /\ m \in scribe.todo /\ Allowed(m)
    /\ scribe' = [at |-> "chunks", todo |-> scribe.todo, meeting |-> m, left |-> ChunksOf(m)]
    /\ UNCHANGED <<ended, epoch, early, transcripts, meetingJobs, sent, lost,
                   remembering, present,
                   mishaps>>

(* A chunk whose transcript is stored, or whose file is not there.         *)
ChunkPassed(c, missing) ==
    /\ scribe.at = "chunks" /\ c \in scribe.left
    /\ c \in transcripts \/ missing
    /\ scribe' = [scribe EXCEPT !.left = @ \ {c}]
    /\ UNCHANGED <<ended, epoch, early, transcripts, meetingJobs, sent, lost,
                   remembering, present,
                   mishaps>>

(* The transcript of c is there and not stored yet.                        *)
Holding(c) == [at |-> "saving", todo |-> scribe.todo, meeting |-> scribe.meeting,
               left |-> scribe.left \ {c}, chunk |-> c]

(* Mutant: a repeated round does not ask for the stored transcripts.       *)
ChunkHeardAgain(c, byDeepgram) ==
    /\ scribe.at = "chunks" /\ c \in scribe.left
    /\ sent' = IF byDeepgram THEN [sent EXCEPT ![c] = @ + 1] ELSE sent
    /\ scribe' = Holding(c)
    /\ UNCHANGED <<ended, epoch, early, transcripts, meetingJobs, lost, remembering,
                   present, mishaps>>

(* Screenpipe's own text, or the answer of Deepgram.                       *)
ChunkHeard(c, byDeepgram) ==
    /\ scribe.at = "chunks" /\ c \in scribe.left \ transcripts
    /\ sent' = IF byDeepgram THEN [sent EXCEPT ![c] = @ + 1] ELSE sent
    /\ scribe' = Holding(c)
    /\ UNCHANGED <<ended, epoch, early, transcripts, meetingJobs, lost, remembering,
                   present, mishaps>>

ChunkSaved ==
    /\ scribe.at = "saving"
    /\ transcripts' = transcripts \cup {scribe.chunk}
    /\ scribe' = [at |-> "chunks", todo |-> scribe.todo, meeting |-> scribe.meeting,
                  left |-> scribe.left]
    /\ UNCHANGED <<ended, epoch, early, meetingJobs, sent, lost, remembering,
                   present, mishaps>>

MeetingCompleted ==
    /\ scribe.at = "chunks" /\ scribe.left = {}
    /\ meetingJobs' = [meetingJobs EXCEPT ![scribe.meeting] = "completed"]
    /\ scribe' = Rest(scribe.meeting)
    /\ UNCHANGED <<ended, epoch, early, transcripts, sent, lost, remembering,
                   present, mishaps>>

(* Screenpipe, Deepgram or SQLite raises: the round is over, the meetings  *)
(* behind this one wait for the next.                                      *)
LostNow ==
    [c \in Chunks |-> IF scribe.at = "saving" /\ scribe.chunk = c /\ sent[c] > lost[c]
                      THEN lost[c] + 1 ELSE lost[c]]

(* Mutant: the exception ends the task, nothing starts it again.           *)
ScribeGivesUp ==
    /\ scribe # Idle /\ Mishap
    /\ scribe' = [at |-> "listed", todo |-> {}] /\ lost' = LostNow
    /\ UNCHANGED <<ended, epoch, early, transcripts, meetingJobs, sent,
                   remembering, present>>

ScribeFails ==
    /\ scribe # Idle /\ Mishap
    /\ scribe' = Idle /\ lost' = LostNow
    /\ UNCHANGED <<ended, epoch, early, transcripts, meetingJobs, sent,
                   remembering, present>>

(* prune_screenpipe_transcripts, here or in the retention worker: days     *)
(* later, when the meeting has its job.                                    *)
TranscriptExpires(c) ==
    /\ c \in transcripts /\ meetingJobs[MeetingOf[c]] # "none"
    /\ transcripts' = transcripts \ {c}
    /\ UNCHANGED <<ended, epoch, early, meetingJobs, sent, lost, scribe, remembering,
                   present, mishaps>>

-----------------------------------------------------------------------------
(* ScreenpipeVectorMemoryWorker._run.                                      *)

BucketPasses ==
    /\ bucket < Max(Buckets) /\ bucket' = bucket + 1
    /\ screen' \in Contents
    /\ UNCHANGED <<transcribing, remembering, mishaps>>

(* migrate_legacy_memories, once per process: the rows of SQLite whose     *)
(* point is missing, or is a copy made by an earlier migration. After one  *)
(* that went through, a point of the first row is taken for all of them.   *)
RoundBegins(first) ==
    /\ worker = Idle /\ (bank = {} \/ first \in bank)
    /\ migrated' = (migrated \/ (copied /\ (bank = {} \/ meetingPoints[first] # None)))
    /\ worker' = IF migrated' THEN [at |-> "pruning"] ELSE [at |-> "migrating", todo |-> bank]
    /\ UNCHANGED <<transcribing, meetingPoints, bucketPoints, bank, due, copied, present,
                   mishaps>>

Replaceable(m) == meetingPoints[m] = None \/ meetingPoints[m].kind = "legacy"

RowMigrated(m) ==
    /\ worker.at = "migrating" /\ m \in worker.todo
    /\ meetingPoints' = IF Replaceable(m)
                 THEN [meetingPoints EXCEPT ![m] = [kind |-> "legacy", made |-> {}]]
                 ELSE meetingPoints
    /\ worker' = [worker EXCEPT !.todo = @ \ {m}]
    /\ UNCHANGED <<transcribing, bucketPoints, bank, due, migrated, copied, present,
                   mishaps>>

MigrationDone ==
    /\ worker.at = "migrating" /\ worker.todo = {}
    /\ migrated' = TRUE /\ copied' = TRUE
    /\ worker' = [at |-> "pruning"]
    /\ UNCHANGED <<transcribing, meetingPoints, bucketPoints, bank, due, present, mishaps>>

(* The TTL was written into both copies with the same time.                *)
MemoryExpires(m) ==
    /\ meetingPoints[m] # None /\ m \notin due /\ due' = due \cup {m}
    /\ UNCHANGED <<transcribing, meetingPoints, bucketPoints, bank, worker,
                   migrated, copied, present,
                   mishaps>>

PointsPruned ==
    /\ worker.at = "pruning"
    /\ meetingPoints' = [m \in Meetings |-> IF m \in due THEN None ELSE meetingPoints[m]]
    /\ worker' = [at |-> "bank"]
    /\ UNCHANGED <<transcribing, bucketPoints, bank, due, migrated, copied, present,
                   mishaps>>

BankPruned ==
    /\ worker.at = "bank"
    /\ bank' = bank \ due
    /\ due' = {m \in due : meetingPoints[m] # None}
    /\ worker' = [at |-> "activity"]
    /\ UNCHANGED <<transcribing, meetingPoints, bucketPoints, migrated, copied,
                   present, mishaps>>

(* index_recent_activity: the same content is not stored a second time     *)
(* under another bucket; a store that cannot be asked ends the round.      *)
Known(x) == x \in {bucketPoints[b] : b \in Buckets}

ActivitySeen ==
    /\ worker.at = "activity"
    /\ worker' = IF Known(screen) THEN [at |-> "meetings", todo |-> {}, read |-> FALSE]
                 ELSE [at |-> "digesting", bucket |-> bucket, content |-> screen]
    /\ UNCHANGED <<transcribing, meetingPoints, bucketPoints, bank, due,
                   migrated, copied, present, mishaps>>

(* Digest and embeddings, then the upsert; a digest of low confidence and  *)
(* one that means the same as a stored one are dropped.                    *)
ActivityStored(dropped) ==
    /\ worker.at = "digesting"
    /\ bucketPoints' = IF dropped THEN bucketPoints
                       ELSE [bucketPoints EXCEPT ![worker.bucket] = worker.content]
    /\ worker' = [at |-> "meetings", todo |-> {}, read |-> FALSE]
    /\ UNCHANGED <<transcribing, meetingPoints, bank, due, migrated, copied, present,
                   mishaps>>

(* _index_meeting_transcripts: one point per meeting, made of the chunks   *)
(* that are stored now; the same set of chunks is passed over.             *)
TranscriptsListed ==
    /\ worker.at = "meetings" /\ ~worker.read
    /\ worker' = [at |-> "meetings", read |-> TRUE,
                  todo |-> {<<m, ChunksOf(m) \cap transcripts>> :
                              m \in {MeetingOf[c] : c \in transcripts}}]
    /\ UNCHANGED <<transcribing, meetingPoints, bucketPoints, bank, due,
                   migrated, copied, present, mishaps>>

Unchanged(m, made) == meetingPoints[m] # None /\ meetingPoints[m].kind = "digest" /\ meetingPoints[m].made = made

MeetingLooked(m, made) ==
    /\ worker.at = "meetings" /\ <<m, made>> \in worker.todo
    /\ worker' = IF Unchanged(m, made) THEN [worker EXCEPT !.todo = @ \ {<<m, made>>}]
                 ELSE [at |-> "storing", meeting |-> m, made |-> made,
                       todo |-> worker.todo \ {<<m, made>>}]
    /\ UNCHANGED <<transcribing, meetingPoints, bucketPoints, bank, due,
                   migrated, copied, present, mishaps>>

MeetingStored(dropped) ==
    /\ worker.at = "storing"
    /\ meetingPoints' = IF dropped THEN meetingPoints
                 ELSE [meetingPoints EXCEPT ![worker.meeting] =
                         [kind |-> "digest", made |-> worker.made]]
    /\ bank' = IF DualWrite /\ ~dropped THEN bank \cup {worker.meeting} ELSE bank
    /\ due' = IF dropped THEN due ELSE due \ {worker.meeting}
    /\ worker' = [at |-> "meetings", read |-> TRUE, todo |-> worker.todo]
    /\ UNCHANGED <<transcribing, bucketPoints, migrated, copied, present, mishaps>>

RoundEnds ==
    /\ worker.at = "meetings" /\ worker.read /\ worker.todo = {}
    /\ worker' = Idle
    /\ UNCHANGED <<transcribing, meetingPoints, bucketPoints, bank, due,
                   migrated, copied, present, mishaps>>

WorkerFails ==
    /\ worker # Idle /\ Mishap
    /\ worker' = Idle
    /\ UNCHANGED <<transcribing, meetingPoints, bucketPoints, bank, due,
                   migrated, copied, present>>

Restarted ==
    /\ Mishap
    /\ scribe' = Idle /\ lost' = LostNow
    /\ worker' = Idle /\ migrated' = FALSE
    /\ UNCHANGED <<ended, epoch, early, transcripts, meetingJobs, sent, meetingPoints,
                   bucketPoints, bank, due, copied, present>>

-----------------------------------------------------------------------------
ScribeActs ==
    \/ EpochNoted \/ MeetingsListed \/ ChunkSaved \/ MeetingCompleted
    \/ \E m \in Meetings : MeetingDenied(m) \/ MeetingOpened(m)
    \/ \E c \in Chunks, b \in BOOLEAN : ChunkPassed(c, b) \/ ChunkHeard(c, b)

WorkerActs ==
    \/ MigrationDone \/ PointsPruned \/ BankPruned \/ ActivitySeen
    \/ TranscriptsListed \/ RoundEnds
    \/ \E m \in Meetings : RoundBegins(m) \/ RowMigrated(m)
    \/ \E m \in Meetings, made \in SUBSET Chunks : MeetingLooked(m, made)
    \/ \E dropped \in BOOLEAN : ActivityStored(dropped) \/ MeetingStored(dropped)

Next ==
    \/ ScribeActs \/ ScribeFails \/ WorkerActs \/ WorkerFails \/ Restarted \/ BucketPasses
    \/ \E m \in Meetings : MeetingEnds(m) \/ MemoryExpires(m)
    \/ \E c \in Chunks : TranscriptExpires(c)

(* Both tasks are polled by the event loop for as long as the process runs *)
(* and come back after an exception.                                       *)
Fairness == WF_vars(ScribeActs) /\ WF_vars(WorkerActs)

Spec == Init /\ [][Next]_vars /\ Fairness

-----------------------------------------------------------------------------
(* Audio is sent to the paid service once, however many rounds fail or    *)
(* are cut: only an answer cut before it was stored is asked for again.    *)
PaidOnce == \A c \in Chunks : sent[c] <= 1 + lost[c]

(* Every meeting that ends while the transcriber is in use is dealt with,  *)
(* completed or blocked, whatever failed on the way: again and again none  *)
(* is left to do.                                                          *)
MeetingsGetDone ==
    []<>(\A m \in ended \ early : meetingJobs[m] # "none")
=============================================================================
