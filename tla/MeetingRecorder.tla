---------------------------- MODULE MeetingRecorder ----------------------------
(***************************************************************************)
(* Meeting mode: meeting_recorder.py, its direct capture audio_capture.py, *)
(* the meeting tables of memory.py and the retention worker of app.py that *)
(* removes expired recordings.                                             *)
(*                                                                         *)
(* A piece of audio is a chunk: an Imported one is a file Screenpipe wrote *)
(* and the poll task or a finalizer copies; a Captured one is recorded     *)
(* here, by the microphone archive (input) or the loopback (output).       *)
(* Audio, words, time stamps and paths are left out; a file of a session   *)
(* is the pair <<session, chunk>>.                                         *)
(***************************************************************************)
EXTENDS Naturals, Sequences, FiniteSets, SequencesExt

CONSTANTS
    Sessions,       \* ids of meeting_sessions
    Imported,       \* audio files of Screenpipe, of an output device
    CapturedIn,     \* chunks of the microphone archive
    CapturedOut,    \* chunks of the speaker loopback
    ArchiveAudio,   \* settings.meeting_recording_archive_audio
    MaxAudio,       \* bound on the pieces of audio of a behaviour
    MaxFaults,      \* bound on crashes and on calls that raise
    NoSession,
    NoChunk

ASSUME SessionAssumption ==
    /\ NoSession \notin Sessions
    /\ Sessions \cap {"poll", "input", "output"} = {}
ASSUME ChunkAssumption ==
    /\ NoChunk \notin Imported \cup CapturedIn \cup CapturedOut
    /\ Imported \cap (CapturedIn \cup CapturedOut) = {}
    /\ CapturedIn \cap CapturedOut = {}
    /\ ArchiveAudio \in BOOLEAN
ASSUME BoundAssumption == MaxAudio \in Nat /\ MaxFaults \in Nat

VARIABLES
    status,         \* meeting_sessions.status, "none" before the insert
    rows,           \* meeting_audio_files
    expired,        \* the rows whose expires_at has passed
    segments,       \* meeting_transcript_segments of recorded files
    files,          \* files in the audio directories of the sessions
    aged,           \* the files older than the orphan grace period
    visible,        \* Screenpipe files in the range of a session
    recorded,       \* chunks captured so far: each gets a name of its own
    active,         \* MeetingRecorder._active
    op,             \* the start, stop or close in progress
    stale,          \* the session start() found unfinished, or stop() is ending
    jobs,           \* the tasks that persist chunks
    processed,      \* _processed_chunks
    capturing,      \* MeetingChannelCapture.active
    queue,          \* _output_queue
    clogged,        \* _input_queue is full
    sweep,          \* the retention worker: where it is
    marked,         \* what its last read selected
    faults          \* crashes and exceptions so far

disk == <<status, rows, expired, segments, files, aged>>
memory == <<active, op, stale, jobs, processed, capturing, queue, clogged>>
retention == <<sweep, marked>>
env == <<visible, recorded, faults>>
vars == <<disk, env, memory, retention>>

Chunks == Imported \cup CapturedIn \cup CapturedOut
Pairs == Sessions \X Chunks

(* The poll task, the two capture tasks and one finalizer per session.     *)
Workers == {"poll", "input", "output"} \cup Sessions

(* Where a task is: no task, waiting for a chunk, with the file written    *)
(* and the row being inserted, with the row inserted and the transcription *)
(* awaited; "dead" is the microphone archive ended by an exception.        *)
Places == {"none", "waiting", "saving", "hearing", "dead"}
Job == [at : Places, session : Sessions \cup {NoSession},
        chunk : Chunks \cup {NoChunk}, made : BOOLEAN]
NoJob == [at |-> "none", session |-> NoSession, chunk |-> NoChunk, made |-> FALSE]
Waiting(s) == [NoJob EXCEPT !.at = "waiting", !.session = s]
Holding(s, c, made) == [at |-> "saving", session |-> s, chunk |-> c, made |-> made]

Ended == {"completed", "interrupted", "error"}
Statuses == {"none", "active", "finalizing"} \cup Ended
Idle == <<"none", "none">>
Ops == {Idle}
       \cup ({"start"} \X {"read", "mark", "create"})
       \cup ({"stop", "close"} \X {"poll", "input", "recorder", "consumer", "mark"})
       \cup {<<"close", "finalizers">>}

TypeOK ==
    /\ status \in [Sessions -> Statuses]
    /\ rows \subseteq Pairs /\ segments \subseteq Pairs /\ files \subseteq Pairs
    /\ expired \subseteq rows /\ aged \subseteq files
    /\ visible \subseteq Sessions \X Imported
    /\ recorded \subseteq CapturedIn \cup CapturedOut
    /\ active \in Sessions \cup {NoSession}
    /\ op \in Ops
    /\ stale \in Sessions \cup {NoSession}
    /\ jobs \in [Workers -> Job]
    /\ processed \subseteq Pairs
    /\ capturing \in BOOLEAN /\ clogged \in BOOLEAN
    /\ queue \in Seq(CapturedOut)
    /\ sweep \in {"idle", "unlinking", "deleting", "reconciling"}
    /\ marked \subseteq Pairs
    /\ faults \in 0..MaxFaults

(* MeetingRecorder.__init__ and MeetingChannelCapture.__init__.            *)
Fresh ==
    /\ active = NoSession /\ op = Idle /\ stale = NoSession
    /\ jobs = [w \in Workers |-> NoJob]
    /\ processed = {}
    /\ capturing = FALSE /\ queue = <<>> /\ clogged = FALSE
    /\ sweep = "idle" /\ marked = {}

(* A new process: what the old one kept in memory is gone.                 *)
MemoryLost ==
    /\ active' = NoSession /\ op' = Idle /\ stale' = NoSession
    /\ jobs' = [w \in Workers |-> NoJob]
    /\ processed' = {}
    /\ capturing' = FALSE /\ queue' = <<>> /\ clogged' = FALSE
    /\ sweep' = "idle" /\ marked' = {}

Init ==
    /\ status = [s \in Sessions |-> "none"]
    /\ rows = {} /\ expired = {} /\ segments = {} /\ files = {} /\ aged = {}
    /\ visible = {} /\ recorded = {}
    /\ faults = 0
    /\ Fresh

Output(c) == c \in Imported \cup CapturedOut
Finished(w) == [jobs EXCEPT ![w] = Waiting(@.session)]

(* _secure_copy_audio_file never overwrites: an existing copy is kept.     *)
Copied(p) == IF ArchiveAudio THEN files \cup {p} ELSE files
(* _safe_unlink_managed_file, of the copy a failed call made itself.       *)
Discarded(p, made) == IF made THEN files \ {p} ELSE files

-----------------------------------------------------------------------------
(* start(): an active session answers at once; otherwise the session left  *)
(* unfinished by an earlier process, or one still being finalized, is      *)
(* marked interrupted, a new one inserted, the capture and poll started.   *)

StartReads ==
    /\ op = Idle /\ active = NoSession
    /\ \E s \in Sessions : status[s] = "none"
    /\ LET open == {s \in Sessions : status[s] \in {"active", "finalizing"}}
       IN \/ /\ open = {} /\ stale' = NoSession /\ op' = <<"start", "create">>
          \/ /\ stale' \in open /\ op' = <<"start", "mark">>
    /\ UNCHANGED <<disk, env, active, jobs, processed, capturing,
                   queue, clogged, retention>>

(* Mutant: the session found unfinished is resumed.                        *)
StartResumesStale ==
    /\ op = <<"start", "mark">>
    /\ status' = [status EXCEPT ![stale] = "active"]
    /\ op' = <<"start", "create">>
    /\ UNCHANGED <<rows, expired, segments, files, aged, env, active, stale, jobs,
                   processed, capturing, queue, clogged, retention>>

StartMarksStale ==
    /\ op = <<"start", "mark">>
    /\ status' = [status EXCEPT ![stale] = "interrupted"]
    /\ op' = <<"start", "create">>
    /\ UNCHANGED <<rows, expired, segments, files, aged, env, active, stale, jobs,
                   processed, capturing, queue, clogged, retention>>

(* channel_capture.start may raise: the session is then active without a   *)
(* capture and without a poll task.                                        *)
StartCreates(s, captureStarts) ==
    /\ op = <<"start", "create">> /\ status[s] = "none"
    /\ status' = [status EXCEPT ![s] = "active"]
    /\ active' = s /\ op' = Idle /\ stale' = NoSession
    /\ processed' = {}
    /\ faults' = IF captureStarts THEN faults ELSE faults + 1
    /\ faults' <= MaxFaults
    /\ capturing' = captureStarts
    /\ jobs' = IF captureStarts
               THEN [w \in Workers |->
                       IF w \in {"poll", "input", "output"} THEN Waiting(s) ELSE jobs[w]]
               ELSE jobs
    /\ UNCHANGED <<rows, expired, segments, files, aged, visible, recorded, queue, clogged,
                   retention>>

-----------------------------------------------------------------------------
(* stop() and close(): the poll task is cancelled, the capture drained     *)
(* while _active still names the session, and only then is it given up.    *)

(* Mutant: the session is given up before its capture is drained.          *)
StopForgetsSession(kind) ==
    /\ op = Idle /\ kind \in {"stop", "close"}
    /\ kind = "stop" => active # NoSession
    /\ op' = <<kind, "poll">>
    /\ active' = IF kind = "stop" THEN NoSession ELSE active
    /\ UNCHANGED <<disk, env, stale, jobs, processed,
                   capturing, queue, clogged, retention>>

StopBegins(kind) ==
    /\ op = Idle /\ kind \in {"stop", "close"}
    /\ kind = "stop" => active # NoSession
    /\ op' = <<kind, "poll">>
    /\ UNCHANGED <<disk, env, active, stale, jobs, processed,
                   capturing, queue, clogged, retention>>

(* A task cancelled at an await leaves its thread running: the insert may  *)
(* still happen, while the handler of the exception removes the copy it    *)
(* made. A copy cancelled before its insert stays without a row.           *)
CancelledAt(w) ==
    LET j == jobs[w]
        p == <<j.session, j.chunk>>
    IN IF j.at # "saving" THEN UNCHANGED <<rows, files, aged>>
       ELSE \/ UNCHANGED <<rows, files, aged>>
            \/ /\ rows' \in {rows, rows \cup {p}}
               /\ files' = Discarded(p, j.made)
               /\ aged' = aged \cap files'

Cancelled(w) ==
    /\ jobs[w].at \in {"waiting", "saving", "hearing"}
    /\ CancelledAt(w)
    /\ jobs' = [jobs EXCEPT ![w] = NoJob]
    /\ UNCHANGED <<status, expired, segments, env, active, op, stale, processed,
                   capturing, queue, clogged, retention>>

PollCancelled == op[2] = "poll" /\ Cancelled("poll")
FinalizerCancelled == op = <<"close", "finalizers">> /\ \E s \in Sessions : Cancelled(s)

Step(here, there) == op[2] = here /\ op' = <<op[1], there>>

PollGone ==
    /\ jobs["poll"].at = "none"
    /\ Step("poll", "input")
    /\ UNCHANGED <<disk, env, active, stale, jobs, processed,
                   capturing, queue, clogged, retention>>

(* The end marker must fit into the microphone queue; an archive task that *)
(* died no longer empties it.                                              *)
InputJoined ==
    /\ op[2] = "input" /\ jobs["input"].at \in {"none", "waiting", "dead"}
    /\ ~(jobs["input"].at = "dead" /\ clogged)
    /\ Step("input", "recorder")
    /\ capturing' = FALSE /\ clogged' = FALSE
    /\ jobs' = [jobs EXCEPT !["input"] = NoJob]
    /\ UNCHANGED <<disk, env, active, stale, processed, queue,
                   retention>>

RecorderJoined ==
    /\ Step("recorder", "consumer")
    /\ UNCHANGED <<disk, env, active, stale, jobs, processed,
                   capturing, queue, clogged, retention>>

ConsumerJoined ==
    /\ queue = <<>> /\ jobs["output"].at \in {"none", "waiting"}
    /\ Step("consumer", IF op[1] = "close" THEN "finalizers" ELSE "mark")
    /\ jobs' = [jobs EXCEPT !["output"] = NoJob]
    /\ active' = IF op[1] = "stop" THEN NoSession ELSE active
    /\ stale' = IF op[1] = "stop" THEN active ELSE stale
    /\ UNCHANGED <<disk, env, processed, capturing, queue, clogged,
                   retention>>

(* stop() marks the session and leaves the rest to a finalizer.            *)
StopMarks ==
    /\ op = <<"stop", "mark">>
    /\ status' = [status EXCEPT ![stale] = "finalizing"]
    /\ jobs' = [jobs EXCEPT ![stale] = Waiting(stale)]
    /\ stale' = NoSession /\ op' = Idle
    /\ UNCHANGED <<rows, expired, segments, files, aged, env, active, processed,
                   capturing, queue, clogged, retention>>

(* The end of close() and of the process; the next one starts afresh.      *)
CloseEnds ==
    /\ op = <<"close", "finalizers">>
    /\ \A s \in Sessions : jobs[s].at = "none"
    /\ status' = IF active = NoSession THEN status
                 ELSE [status EXCEPT ![active] = "interrupted"]
    /\ MemoryLost
    /\ UNCHANGED <<rows, expired, segments, files, aged, env>>

(* The process dies: the tables and the files stay.                        *)
Crash ==
    /\ active # NoSession \/ op # Idle \/ \E w \in Workers : jobs[w].at # "none"
    /\ faults < MaxFaults /\ faults' = faults + 1
    /\ MemoryLost
    /\ UNCHANGED <<disk, visible, recorded>>

-----------------------------------------------------------------------------
(* Audio arrives.                                                          *)

MoreAudio == Cardinality(visible) + Cardinality(recorded) < MaxAudio

ScreenpipeWrites(c) ==
    /\ MoreAudio
    /\ active # NoSession /\ <<active, c>> \notin visible
    /\ visible' = visible \cup {<<active, c>>}
    /\ UNCHANGED <<disk, recorded, faults, memory, retention>>

(* _archive_input_loop: a full chunk, or on the end marker what is left.   *)
InputRecorded(c) ==
    /\ jobs["input"].at = "waiting" /\ c \notin recorded
    /\ MoreAudio /\ recorded' = recorded \cup {c}
    /\ op[2] \in {"none", "poll", "input"}
    /\ LET s == jobs["input"].session
       IN /\ files' = files \cup {<<s, c>>}
          /\ jobs' = [jobs EXCEPT !["input"] = Holding(s, c, TRUE)]
    /\ UNCHANGED <<status, rows, expired, segments, aged, visible, faults, active, op, stale,
                   processed, capturing, queue, clogged, retention>>

(* The blocks of a microphone whose archive died pile up.                  *)
InputClogs ==
    /\ capturing /\ jobs["input"].at = "dead" /\ ~clogged
    /\ op[2] \in {"none", "poll"}
    /\ clogged' = TRUE
    /\ UNCHANGED <<disk, env, active, op, stale, jobs, processed,
                   capturing, queue, retention>>

(* _record_output_loop, in its thread until _output_stop is seen.          *)
OutputRecorded(c) ==
    /\ jobs["output"].at \in {"waiting", "saving", "hearing"} /\ c \notin recorded
    /\ MoreAudio /\ recorded' = recorded \cup {c}
    /\ op[2] \in {"none", "poll", "input", "recorder"}
    /\ LET s == jobs["output"].session
       IN files' = files \cup {<<s, c>>}
    /\ queue' = Append(queue, c)
    /\ UNCHANGED <<status, rows, expired, segments, aged, visible, faults, active, op, stale,
                   jobs, processed, capturing, clogged, retention>>

(* _consume_output_chunks, _handle_direct_chunk: without an active session *)
(* the chunk is passed over.                                               *)
OutputTaken ==
    /\ jobs["output"].at = "waiting" /\ queue # <<>>
    /\ queue' = Tail(queue)
    /\ jobs' = IF active = NoSession THEN jobs
               ELSE [jobs EXCEPT !["output"] = Holding(active, Head(queue), TRUE)]
    /\ UNCHANGED <<disk, env, active, op, stale, processed, capturing,
                   clogged, retention>>

(* _process_chunk of the poll task or of a finalizer: the copy, or the     *)
(* existing copy; without the archive the row names Screenpipe's own file. *)
ImportBegins(w, c) ==
    /\ w \in {"poll"} \cup Sessions /\ jobs[w].at = "waiting"
    /\ LET s == jobs[w].session
           p == <<s, c>>
       IN /\ p \in visible /\ p \notin processed
          /\ files' = Copied(p)
          /\ jobs' = [jobs EXCEPT ![w] = Holding(s, c, ArchiveAudio /\ p \notin files)]
    /\ UNCHANGED <<status, rows, expired, segments, aged, env, active, op, stale,
                   processed, capturing, queue, clogged, retention>>

-----------------------------------------------------------------------------
(* _persist_audio_chunk, shared by all of them.                            *)

(* The insert: ON CONFLICT DO NOTHING. A row that was there already makes  *)
(* the call return False after removing the copy it made, so that the      *)
(* chunk is neither transcribed nor counted as processed.                  *)
RowInserted(w) ==
    LET j == jobs[w]
        p == <<j.session, j.chunk>>
    IN
    /\ j.at = "saving"
    /\ IF p \in rows
       THEN /\ files' = Discarded(p, j.made)
            /\ aged' = aged \cap files'
            /\ jobs' = Finished(w)
            /\ UNCHANGED <<rows, processed>>
       ELSE /\ rows' = rows \cup {p}
            /\ IF Output(j.chunk)
               THEN jobs' = [jobs EXCEPT ![w].at = "hearing"] /\ UNCHANGED processed
               ELSE jobs' = Finished(w) /\ processed' = processed
            /\ UNCHANGED <<files, aged>>
    /\ UNCHANGED <<status, expired, segments, env, active, op, stale,
                   capturing, queue, clogged, retention>>

(* The insert raises: the copy is removed. The archive of the microphone   *)
(* ends with its exception, a finalizer puts its session into error, the   *)
(* poll and the consumer go on.                                            *)
InsertFails(w) ==
    LET j == jobs[w]
        p == <<j.session, j.chunk>>
    IN
    /\ j.at = "saving"
    /\ faults < MaxFaults /\ faults' = faults + 1
    /\ files' = Discarded(p, j.made)
    /\ aged' = aged \cap files'
    /\ jobs' = [jobs EXCEPT ![w] =
                  IF w = "input" THEN [NoJob EXCEPT !.at = "dead", !.session = j.session]
                  ELSE IF w \in Sessions THEN NoJob
                  ELSE Waiting(j.session)]
    /\ status' = IF w \in Sessions THEN [status EXCEPT ![w] = "error"] ELSE status
    /\ UNCHANGED <<rows, expired, segments, visible, recorded, active, op, stale, processed,
                   capturing, queue, clogged, retention>>

Transcribed(w) ==
    LET j == jobs[w]
        p == <<j.session, j.chunk>>
    IN
    /\ j.at = "hearing"
    /\ segments' = segments \cup {p}
    /\ processed' = IF j.chunk \in Imported THEN processed \cup {p} ELSE processed
    /\ jobs' = Finished(w)
    /\ UNCHANGED <<status, rows, expired, files, aged, env, active, op, stale,
                   capturing, queue, clogged, retention>>

(* The transcriber raises after the row was inserted. The importers call   *)
(* the chunk not ready; the consumer of the loopback discards the file.    *)
TranscriptionFails(w) ==
    LET j == jobs[w]
        p == <<j.session, j.chunk>>
    IN
    /\ j.at = "hearing"
    /\ faults < MaxFaults /\ faults' = faults + 1
    /\ files' = Discarded(p, w = "output")
    /\ aged' = aged \cap files'
    /\ jobs' = Finished(w)
    /\ UNCHANGED <<status, rows, expired, segments, visible, recorded, active, op, stale,
                   processed, capturing, queue, clogged, retention>>

(* _finalize: after finalize_seconds of looking for late files.            *)
Finalized(s) ==
    /\ jobs[s].at = "waiting"
    /\ status' = [status EXCEPT ![s] = "completed"]
    /\ jobs' = [jobs EXCEPT ![s] = NoJob]
    /\ UNCHANGED <<rows, expired, segments, files, aged, env, active, op, stale,
                   processed, capturing, queue, clogged, retention>>

Persist(w) == RowInserted(w) \/ InsertFails(w) \/ Transcribed(w) \/ TranscriptionFails(w)

-----------------------------------------------------------------------------
(* The retention worker: rows past their seven days, then orphaned files.  *)

(* Days pass before a row expires: nothing works on its session by then.   *)
Quiet(s) == s \notin {active, stale} /\ \A w \in Workers : jobs[w].session # s

RowExpires(p) ==
    /\ p \in rows \ expired /\ Quiet(p[1])
    /\ expired' = expired \cup {p}
    /\ UNCHANGED <<status, rows, segments, files, aged, env, memory, retention>>

(* A copy being inserted is younger than the grace period; a chunk in the  *)
(* queue of the loopback need not be. The age of a file that has a row     *)
(* says nothing.                                                           *)
FileAges(p) ==
    /\ p \in files \ (aged \cup rows)
    /\ \A w \in Workers : jobs[w].at = "saving" => <<jobs[w].session, jobs[w].chunk>> # p
    /\ aged' = aged \cup {p}
    /\ UNCHANGED <<status, rows, expired, segments, files, env, memory, retention>>

(* prune_expired_private_data: reads, unlinks outside the transaction,     *)
(* deletes the rows whose file is gone. A file in use cannot be unlinked   *)
(* and its row stays.                                                      *)
PruneReads ==
    /\ sweep = "idle" /\ expired # {}
    /\ sweep' = "unlinking" /\ marked' = expired
    /\ UNCHANGED <<disk, env, memory>>

PruneUnlinks(locked) ==
    /\ sweep = "unlinking" /\ locked \subseteq marked \cap files
    /\ files' = files \ (marked \ locked) /\ aged' = aged \cap files'
    /\ marked' = marked \ locked /\ sweep' = "deleting"
    /\ UNCHANGED <<status, rows, expired, segments, env, memory>>

(* Mutant: the rows whose file is in use go as well.                       *)
PruneDeletesExpired ==
    /\ sweep = "deleting"
    /\ rows' = rows \ expired /\ expired' = {}
    /\ sweep' = "idle" /\ marked' = {}
    /\ UNCHANGED <<status, segments, files, aged, env, memory>>

PruneDeletes ==
    /\ sweep = "deleting"
    /\ rows' = rows \ marked /\ expired' = expired \ marked
    /\ sweep' = "idle" /\ marked' = {}
    /\ UNCHANGED <<status, segments, files, aged, env, memory>>

(* reconcile_orphaned_meeting_audio: reads which files have a row, then    *)
(* walks the directories and removes the aged ones that had none.          *)
ReconcileReads ==
    /\ sweep = "idle" /\ aged # {}
    /\ sweep' = "reconciling" /\ marked' = rows
    /\ UNCHANGED <<disk, env, memory>>

ReconcileRemoves ==
    /\ sweep = "reconciling"
    /\ files' = files \ (aged \ marked) /\ aged' = aged \cap files'
    /\ sweep' = "idle" /\ marked' = {}
    /\ UNCHANGED <<status, rows, expired, segments, env, memory>>

-----------------------------------------------------------------------------
Stopping ==
    \/ \E kind \in {"stop", "close"} : StopBegins(kind)
    \/ PollCancelled \/ PollGone \/ InputJoined \/ RecorderJoined \/ ConsumerJoined
    \/ StopMarks \/ FinalizerCancelled \/ CloseEnds

Next ==
    \/ StartReads \/ StartMarksStale
    \/ \E s \in Sessions, ok \in BOOLEAN : StartCreates(s, ok)
    \/ Stopping \/ Crash
    \/ \E c \in Imported : ScreenpipeWrites(c)
    \/ \E c \in CapturedIn : InputRecorded(c)
    \/ InputClogs
    \/ \E c \in CapturedOut : OutputRecorded(c)
    \/ OutputTaken
    \/ \E w \in Workers, c \in Imported : ImportBegins(w, c)
    \/ \E w \in Workers : Persist(w)
    \/ \E s \in Sessions : Finalized(s)
    \/ \E p \in Pairs : RowExpires(p) \/ FileAges(p)
    \/ PruneReads \/ PruneDeletes \/ ReconcileReads \/ ReconcileRemoves
    \/ \E locked \in SUBSET files : PruneUnlinks(locked)

Spec == Init /\ [][Next]_vars

-----------------------------------------------------------------------------
(* A stop loses no tail: while the loopback still holds recorded audio, or *)
(* a task is inserting some, the session it belongs to is the active one,  *)
(* so that _handle_direct_chunk does not pass it over in silence.          *)
TailBelongsToActive ==
    /\ queue # <<>> => active # NoSession
    /\ \A w \in {"input", "output"} :
          jobs[w].at \in {"saving", "hearing"} => jobs[w].session = active

(* A session that ended never records again: whichever of start(), stop(), *)
(* close() and a finalizer writes its status last, it is an ended one.     *)
EndedStaysEnded ==
    [][\A s \in Sessions : status[s] \in Ended => status'[s] \in Ended]_vars

(* Retention removes no row whose audio it left on the disk, where nothing *)
(* would list it any more.                                                 *)
PruneLeavesNoFile ==
    [][\A p \in rows \ rows' : p \notin files]_vars
=============================================================================
