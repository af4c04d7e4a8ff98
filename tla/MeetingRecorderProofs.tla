------------------------- MODULE MeetingRecorderProofs -------------------------
(***************************************************************************)
(* MeetingRecorder for any sessions, chunks and bounds: what its session,  *)
(* its tasks, its files and its retention keep of each other.              *)
(***************************************************************************)
EXTENDS MeetingRecorder, TLAPS

Captured == CapturedIn \cup CapturedOut

(* A task that is there has a session that was inserted, and one that      *)
(* holds a chunk holds one; a captured chunk was counted.                  *)
JobsAreOfSessions ==
    \A w \in Workers :
      /\ jobs[w].at # "none" => jobs[w].session \in Sessions
      /\ jobs[w].session \in Sessions => status[jobs[w].session] # "none"
      /\ jobs[w].at \in {"saving", "hearing"} =>
           /\ jobs[w].chunk \in Chunks
           /\ jobs[w].chunk \in Captured => jobs[w].chunk \in recorded

(* A task of the capture is of the active session; a finalizer is of a     *)
(* session that was marked.                                                *)
TasksOfActive ==
    /\ \A w \in {"input", "output"} : jobs[w].at # "none" => jobs[w].session = active
    /\ \A s \in Sessions : jobs[s].at # "none" => status[s] \in {"finalizing"} \cup Ended
    /\ active # NoSession => status[active] = "active"
    /\ queue # <<>> => active # NoSession

(* Where start(), stop() and close() are.                                  *)
OpIsAt ==
    /\ op[1] = "start" => active = NoSession
    /\ op = <<"start", "mark">> => stale \in Sessions
    /\ op[1] = "stop" /\ op[2] # "mark" => active # NoSession
    /\ op = <<"stop", "mark">> => stale \in Sessions /\ status[stale] = "active" /\ active = NoSession
    /\ op[2] \in {"recorder", "consumer", "finalizers"} \/ op = <<"stop", "mark">> =>
         jobs["input"].at = "none"

(* What is in the tables and the queue has been recorded.                  *)
KeptIsRecorded ==
    /\ \A p \in rows : /\ p[2] \in Captured => p[2] \in recorded
                       /\ status[p[1]] # "none"
    /\ \A n \in 1..Len(queue) : queue[n] \in recorded

(* Nobody works on the session of an expired row again, and what the sweep *)
(* has unlinked has no file any more.                                      *)
ExpiredIsQuiet ==
    \A p \in expired :
      /\ p[1] # active /\ (p[1] = stale => op[1] = "start")
      /\ \A w \in Workers : jobs[w].session # p[1]
SweepHasUnlinked ==
    /\ sweep \in {"unlinking", "deleting"} => marked \subseteq expired
    /\ sweep = "deleting" => marked \cap files = {}

RecorderInv ==
    /\ TypeOK /\ JobsAreOfSessions /\ TasksOfActive /\ OpIsAt /\ KeptIsRecorded /\ ExpiredIsQuiet
    /\ SweepHasUnlinked

-----------------------------------------------------------------------------
LEMMA JobValues ==
    /\ NoJob \in Job /\ NoJob.at = "none" /\ NoJob.session = NoSession
    /\ \A s \in Sessions \cup {NoSession} :
         /\ Waiting(s) \in Job /\ Waiting(s).at = "waiting" /\ Waiting(s).session = s
         /\ LET dead == [NoJob EXCEPT !.at = "dead", !.session = s]
            IN dead \in Job /\ dead.at = "dead" /\ dead.session = s
BY DEF NoJob, Job, Waiting, Places

LEMMA RecorderInit == Init => RecorderInv
<1>. SUFFICES ASSUME Init PROVE RecorderInv
  OBVIOUS
<1>1. \A w \in Workers : jobs[w] = NoJob
  BY DEF Init, Fresh
<1>2. TypeOK
  <2>1. jobs \in [Workers -> Job]
    BY JobValues DEF Init, Fresh
  <2>2. queue \in Seq(CapturedOut) /\ op \in Ops
    BY DEF Init, Fresh, Ops
  <2>3. 0 \in 0..MaxFaults
    BY BoundAssumption
  <2>. QED BY <2>1, <2>2, <2>3 DEF Init, Fresh, TypeOK, Statuses
<1>3. JobsAreOfSessions /\ TasksOfActive /\ OpIsAt
  BY <1>1, JobValues, SessionAssumption
     DEF JobsAreOfSessions, TasksOfActive, OpIsAt, Init, Fresh, Workers, Idle
<1>4. KeptIsRecorded /\ ExpiredIsQuiet /\ SweepHasUnlinked
  BY DEF KeptIsRecorded, ExpiredIsQuiet, SweepHasUnlinked, Init, Fresh
<1>. QED BY <1>2, <1>3, <1>4 DEF RecorderInv

(* A task that is there goes on with its session, or ends.                 *)
LEMMA TaskGoesOn ==
    ASSUME RecorderInv, NEW w \in Workers, NEW new \in Job, jobs' = [jobs EXCEPT ![w] = new],
           jobs[w].at # "none", new = NoJob \/ new.session = jobs[w].session,
           new.at \in {"saving", "hearing"} => new.chunk \in Chunks
                                               /\ (new.chunk \in Captured => new.chunk \in recorded'),
           recorded \subseteq recorded', UNCHANGED <<active, op, stale, expired>>,
           queue' # <<>> => active # NoSession,
           status' = status \/ (w \in Sessions /\ \E end \in Ended : status' = [status EXCEPT ![w] = end])
    PROVE  /\ jobs' \in [Workers -> Job] /\ status' \in [Sessions -> Statuses]
           /\ JobsAreOfSessions' /\ TasksOfActive' /\ OpIsAt' /\ ExpiredIsQuiet'
           /\ \A s \in Sessions : status[s] # "none" => status'[s] # "none"
<1>. USE DEF RecorderInv
<1>0. NoJob.at = "none" /\ NoJob.session = NoSession /\ NoSession \notin Sessions
  BY JobValues, SessionAssumption
<1>1. jobs' \in [Workers -> Job] /\ \A x \in Workers : jobs'[x] = IF x = w THEN new ELSE jobs[x]
  BY DEF TypeOK
<1>2. /\ status' \in [Sessions -> Statuses]
      /\ \A s \in Sessions : status'[s] = status[s] \/ (s = w /\ status'[s] \in Ended)
  BY DEF TypeOK, Statuses
<1>3. \A s \in Sessions : /\ status[s] # "none" => status'[s] # "none"
                          /\ status[s] = "active" => status'[s] = "active"
  BY <1>2 DEF TasksOfActive, Ended
<1>4. JobsAreOfSessions'
  <2>. SUFFICES ASSUME NEW x \in Workers
                PROVE  /\ jobs'[x].at # "none" => jobs'[x].session \in Sessions
                       /\ jobs'[x].session \in Sessions => status'[jobs'[x].session] # "none"
                       /\ jobs'[x].at \in {"saving", "hearing"} =>
                            /\ jobs'[x].chunk \in Chunks
                            /\ jobs'[x].chunk \in Captured => jobs'[x].chunk \in recorded'
    BY DEF JobsAreOfSessions
  <2>1. CASE x = w
    BY <1>0, <1>1, <1>3, <2>1 DEF JobsAreOfSessions
  <2>2. CASE x # w
    BY <1>1, <1>3, <2>2 DEF JobsAreOfSessions
  <2>. QED BY <2>1, <2>2
<1>5. TasksOfActive'
  <2>1. \A x \in {"input", "output"} : jobs'[x].at # "none" => jobs'[x].session = active
    BY <1>0, <1>1 DEF TasksOfActive, Workers
  <2>2. \A s \in Sessions : jobs'[s].at # "none" => status'[s] \in {"finalizing"} \cup Ended
    BY <1>1, <1>2 DEF TasksOfActive, Workers
  <2>3. active # NoSession => status'[active] = "active"
    BY <1>3 DEF TasksOfActive, TypeOK
  <2>. QED BY <2>1, <2>2, <2>3 DEF TasksOfActive
<1>6. OpIsAt'
  <2>1. jobs["input"].at = "none" => jobs'["input"].at = "none"
    BY <1>1 DEF Workers
  <2>. QED BY <1>3, <2>1 DEF OpIsAt
<1>7. ExpiredIsQuiet'
  <2>. SUFFICES ASSUME NEW p \in expired
                PROVE  /\ p[1] # active /\ (p[1] = stale => op[1] = "start")
                       /\ \A x \in Workers : jobs'[x].session # p[1]
    BY DEF ExpiredIsQuiet
  <2>1. p[1] \in Sessions
    BY DEF TypeOK, Pairs
  <2>. QED BY <1>0, <1>1, <2>1 DEF ExpiredIsQuiet
<1>. QED BY <1>1, <1>2, <1>3, <1>4, <1>5, <1>6, <1>7

(* Files that go, and one that comes for a session whose rows have not     *)
(* expired.                                                                *)
LEMMA SweepStays ==
    ASSUME RecorderInv, UNCHANGED <<sweep, marked, expired>>, NEW p,
           files' \subseteq files \/ (files' \subseteq files \cup {p} /\ p \notin expired)
    PROVE  SweepHasUnlinked'
BY DEF RecorderInv, SweepHasUnlinked

LEMMA RowIsKept ==
    ASSUME RecorderInv, NEW w \in Workers, jobs[w].at \in {"saving", "hearing"},
           rows' \subseteq rows \cup {<<jobs[w].session, jobs[w].chunk>>},
           UNCHANGED <<recorded, queue>>, \A s \in Sessions : status[s] # "none" => status'[s] # "none"
    PROVE  /\ KeptIsRecorded' /\ <<jobs[w].session, jobs[w].chunk>> \in Pairs
           /\ jobs[w].session \in Sessions /\ jobs[w].chunk \in Chunks
<1>1. /\ jobs[w].session \in Sessions /\ status[jobs[w].session] # "none" /\ jobs[w].chunk \in Chunks
      /\ jobs[w].chunk \in Captured => jobs[w].chunk \in recorded
  BY DEF RecorderInv, JobsAreOfSessions
<1>2. \A p \in rows : p[1] \in Sessions
  BY DEF RecorderInv, TypeOK, Pairs
<1>. QED BY <1>1, <1>2 DEF RecorderInv, KeptIsRecorded, Pairs

LEMMA RowInsertedKeeps == ASSUME RecorderInv, NEW w \in Workers, RowInserted(w) PROVE RecorderInv'
<1>. DEFINE j == jobs[w]
            p == <<j.session, j.chunk>>
<1>1. /\ j \in Job /\ j.at = "saving" /\ rows' \subseteq rows \cup {p} /\ files' \subseteq files
      /\ aged' \subseteq files' /\ processed' = processed
      /\ UNCHANGED <<status, expired, segments, env, active, op, stale, capturing, queue, clogged, retention>>
  BY DEF RowInserted, Discarded, RecorderInv, TypeOK
<1>2. rows \subseteq rows'
  BY DEF RowInserted
<1>3. PICK new \in Job : /\ jobs' = [jobs EXCEPT ![w] = new] /\ new.session = j.session
                         /\ new.at \in {"hearing", "waiting"}
                         /\ new.at = "hearing" => new.chunk = j.chunk
  <2>1. [j EXCEPT !.at = "hearing"] \in Job /\ [j EXCEPT !.at = "hearing"].session = j.session
        /\ [j EXCEPT !.at = "hearing"].chunk = j.chunk /\ [j EXCEPT !.at = "hearing"].at = "hearing"
    BY <1>1 DEF Job, Places
  <2>2. j.session \in Sessions \cup {NoSession}
    BY <1>1 DEF Job
  <2>3. Waiting(j.session) \in Job /\ Waiting(j.session).session = j.session
        /\ Waiting(j.session).at = "waiting"
    BY <2>2, JobValues
  <2>4. jobs' = [jobs EXCEPT ![w] = [j EXCEPT !.at = "hearing"]]
        \/ jobs' = [jobs EXCEPT ![w] = Waiting(j.session)]
    BY DEF RowInserted, Finished
  <2>. QED BY <2>1, <2>3, <2>4
<1>4. j.chunk \in Chunks /\ (j.chunk \in Captured => j.chunk \in recorded)
  BY <1>1 DEF RecorderInv, JobsAreOfSessions
<1>5. queue' # <<>> => active # NoSession
  BY <1>1 DEF RecorderInv, TasksOfActive
<1>6. /\ jobs' \in [Workers -> Job] /\ JobsAreOfSessions' /\ TasksOfActive' /\ OpIsAt' /\ ExpiredIsQuiet'
  BY <1>1, <1>3, <1>4, <1>5, TaskGoesOn DEF env
<1>7. KeptIsRecorded' /\ p \in Pairs
  BY <1>1, RowIsKept DEF env
<1>8. TypeOK'
  BY <1>1, <1>2, <1>6, <1>7 DEF RecorderInv, TypeOK, env, retention
<1>9. SweepHasUnlinked'
  BY <1>1, SweepStays DEF retention
<1>. QED BY <1>6, <1>7, <1>8, <1>9 DEF RecorderInv

LEMMA InsertFailsKeeps == ASSUME RecorderInv, NEW w \in Workers, InsertFails(w) PROVE RecorderInv'
<1>. DEFINE j == jobs[w]
<1>1. /\ j \in Job /\ j.at = "saving" /\ files' \subseteq files
      /\ aged' \subseteq files' /\ faults' \in 0..MaxFaults
      /\ UNCHANGED <<rows, expired, segments, visible, recorded, active, op, stale, processed,
                     capturing, queue, clogged, retention>>
  BY BoundAssumption DEF InsertFails, Discarded, RecorderInv, TypeOK
<1>2. PICK new \in Job : /\ jobs' = [jobs EXCEPT ![w] = new] /\ (new = NoJob \/ new.session = j.session)
                         /\ new.at \notin {"saving", "hearing"}
  <2>1. j.session \in Sessions \cup {NoSession}
    BY <1>1 DEF Job
  <2>2. /\ Waiting(j.session) \in Job /\ Waiting(j.session).session = j.session
        /\ Waiting(j.session).at = "waiting" /\ NoJob \in Job /\ NoJob.at = "none"
    BY <2>1, JobValues
  <2>. DEFINE dead == [NoJob EXCEPT !.at = "dead", !.session = j.session]
  <2>3. dead \in Job /\ dead.at = "dead" /\ dead.session = j.session
    BY <2>1, JobValues
  <2>4. \/ jobs' = [jobs EXCEPT ![w] = dead] \/ jobs' = [jobs EXCEPT ![w] = NoJob]
        \/ jobs' = [jobs EXCEPT ![w] = Waiting(j.session)]
    BY DEF InsertFails
  <2>. HIDE DEF dead
  <2>. QED BY <2>2, <2>3, <2>4
<1>3. status' = status \/ (w \in Sessions /\ \E end \in Ended : status' = [status EXCEPT ![w] = end])
  BY DEF InsertFails, Ended
<1>4. queue' # <<>> => active # NoSession
  BY <1>1 DEF RecorderInv, TasksOfActive
<1>5. /\ jobs' \in [Workers -> Job] /\ status' \in [Sessions -> Statuses]
      /\ JobsAreOfSessions' /\ TasksOfActive' /\ OpIsAt' /\ ExpiredIsQuiet'
      /\ \A s \in Sessions : status[s] # "none" => status'[s] # "none"
  BY <1>1, <1>2, <1>3, <1>4, TaskGoesOn
<1>6. KeptIsRecorded'
  BY <1>1, <1>5, RowIsKept
<1>7. TypeOK'
  BY <1>1, <1>5 DEF RecorderInv, TypeOK, retention
<1>8. SweepHasUnlinked'
  BY <1>1, SweepStays DEF retention
<1>. QED BY <1>5, <1>6, <1>7, <1>8 DEF RecorderInv

(* The end of a transcription, whatever it ends with.                      *)
LEMMA HeardKeeps ==
    ASSUME RecorderInv, NEW w \in Workers, Transcribed(w) \/ TranscriptionFails(w) PROVE RecorderInv'
<1>. DEFINE j == jobs[w]
            p == <<j.session, j.chunk>>
<1>1. /\ j \in Job /\ j.at = "hearing" /\ files' \subseteq files /\ jobs' = Finished(w)
      /\ aged' \subseteq files' /\ faults' \in 0..MaxFaults
      /\ segments' \subseteq segments \cup {p} /\ processed' \subseteq processed \cup {p}
      /\ UNCHANGED <<status, rows, expired, visible, recorded, active, op, stale,
                     capturing, queue, clogged, retention>>
  BY BoundAssumption DEF Transcribed, TranscriptionFails, Discarded, RecorderInv, TypeOK, env
<1>2. PICK new \in Job : /\ jobs' = [jobs EXCEPT ![w] = new] /\ new.session = j.session
                         /\ new.at = "waiting"
  <2>1. j.session \in Sessions \cup {NoSession} /\ jobs' = [jobs EXCEPT ![w] = Waiting(j.session)]
    BY <1>1 DEF Finished, Job
  <2>. QED BY <2>1, JobValues
<1>3. queue' # <<>> => active # NoSession
  BY <1>1 DEF RecorderInv, TasksOfActive
<1>4. /\ jobs' \in [Workers -> Job]
      /\ JobsAreOfSessions' /\ TasksOfActive' /\ OpIsAt' /\ ExpiredIsQuiet'
  BY <1>1, <1>2, <1>3, TaskGoesOn
<1>5. KeptIsRecorded' /\ p \in Pairs
  BY <1>1, RowIsKept
<1>6. TypeOK'
  BY <1>1, <1>4, <1>5 DEF RecorderInv, TypeOK, retention
<1>7. SweepHasUnlinked'
  BY <1>1, SweepStays DEF retention
<1>. QED BY <1>4, <1>5, <1>6, <1>7 DEF RecorderInv

LEMMA CancelledKeeps == ASSUME RecorderInv, NEW w \in Workers, Cancelled(w) PROVE RecorderInv'
<1>. DEFINE j == jobs[w]
            p == <<j.session, j.chunk>>
<1>1. /\ j \in Job /\ j.at # "none" /\ jobs' = [jobs EXCEPT ![w] = NoJob]
      /\ UNCHANGED <<status, expired, segments, env, active, op, stale, processed,
                     capturing, queue, clogged, retention>>
  BY DEF Cancelled, RecorderInv, TypeOK
<1>2. /\ files' \subseteq files /\ aged' \subseteq files' /\ rows \subseteq rows'
      /\ rows' = rows \/ (j.at = "saving" /\ rows' \subseteq rows \cup {p})
  BY DEF Cancelled, CancelledAt, Discarded, RecorderInv, TypeOK
<1>3. queue' # <<>> => active # NoSession
  BY <1>1 DEF RecorderInv, TasksOfActive
<1>4. /\ jobs' \in [Workers -> Job]
      /\ JobsAreOfSessions' /\ TasksOfActive' /\ OpIsAt' /\ ExpiredIsQuiet'
  BY <1>1, <1>3, JobValues, TaskGoesOn DEF env
<1>5. KeptIsRecorded' /\ rows' \subseteq Pairs
  <2>1. CASE j.at = "saving"
    BY <1>1, <1>2, <2>1, RowIsKept DEF env, RecorderInv, TypeOK
  <2>2. CASE j.at # "saving"
    BY <1>1, <1>2, <2>2 DEF env, RecorderInv, TypeOK, KeptIsRecorded
  <2>. QED BY <2>1, <2>2
<1>6. TypeOK'
  BY <1>1, <1>2, <1>4, <1>5 DEF RecorderInv, TypeOK, env, retention
<1>7. SweepHasUnlinked'
  BY <1>1, <1>2, SweepStays DEF retention
<1>. QED BY <1>4, <1>5, <1>6, <1>7 DEF RecorderInv

(* A chunk is recorded, taken from the queue or copied.                    *)
LEMMA InputRecordedKeeps ==
    ASSUME RecorderInv, NEW c \in CapturedIn, InputRecorded(c) PROVE RecorderInv'
<1>. DEFINE j == jobs["input"]
            new == Holding(j.session, c, TRUE)
            p == <<j.session, c>>
<1>1. /\ "input" \in Workers /\ c \in Chunks /\ c \in Captured /\ c \notin recorded
      /\ recorded' = recorded \cup {c}
      /\ j \in Job /\ j.at = "waiting" /\ jobs' = [jobs EXCEPT !["input"] = new]
      /\ files' = files \cup {p}
      /\ UNCHANGED <<status, rows, expired, segments, aged, visible, faults, active, op, stale,
                     processed, capturing, queue, clogged, retention>>
  BY DEF InputRecorded, RecorderInv, TypeOK, Workers, Chunks, Captured
<1>2. j.session \in Sessions
  BY <1>1 DEF RecorderInv, JobsAreOfSessions
<1>3. new \in Job /\ new.session = j.session /\ new.at = "saving" /\ new.chunk = c
  BY <1>1, <1>2 DEF Holding, Job, Places
<1>4. queue' # <<>> => active # NoSession
  BY <1>1 DEF RecorderInv, TasksOfActive
<1>. HIDE DEF new
<1>5. /\ jobs' \in [Workers -> Job]
      /\ JobsAreOfSessions' /\ TasksOfActive' /\ OpIsAt' /\ ExpiredIsQuiet'
  BY <1>1, <1>3, <1>4, TaskGoesOn
<1>6. TypeOK'
  BY <1>1, <1>2, <1>5 DEF RecorderInv, TypeOK, retention, Pairs
<1>7. KeptIsRecorded'
  BY <1>1 DEF RecorderInv, KeptIsRecorded
<1>8. p \notin expired
  BY <1>1 DEF RecorderInv, TypeOK, KeptIsRecorded
<1>9. SweepHasUnlinked'
  BY <1>1, <1>8, SweepStays DEF retention
<1>. QED BY <1>5, <1>6, <1>7, <1>9 DEF RecorderInv

LEMMA OutputTakenKeeps == ASSUME RecorderInv, OutputTaken PROVE RecorderInv'
<1>. DEFINE j == jobs["output"]
            new == Holding(active, Head(queue), TRUE)
<1>1. /\ "output" \in Workers /\ j \in Job /\ j.at = "waiting" /\ queue # <<>>
      /\ active \in Sessions /\ queue \in Seq(CapturedOut)
  BY DEF OutputTaken, RecorderInv, TypeOK, Workers, TasksOfActive
<1>2. /\ Head(queue) \in CapturedOut /\ queue' = Tail(queue) /\ Tail(queue) \in Seq(CapturedOut)
      /\ Head(queue) \in recorded /\ \A n \in 1..Len(Tail(queue)) : Tail(queue)[n] \in recorded
  BY <1>1 DEF OutputTaken, RecorderInv, KeptIsRecorded
<1>3. /\ jobs' = [jobs EXCEPT !["output"] = new]
      /\ UNCHANGED <<disk, env, active, op, stale, processed, capturing, clogged, retention>>
  BY <1>1, SessionAssumption DEF OutputTaken
<1>4. Head(queue) \in Chunks
  BY <1>2 DEF Chunks
<1>5. j.session = active
  BY <1>1 DEF RecorderInv, TasksOfActive
<1>6. new \in Job /\ new.session = j.session /\ new.chunk = Head(queue)
  BY <1>1, <1>4, <1>5 DEF Holding, Job, Places
<1>7. queue' # <<>> => active # NoSession
  BY <1>1, SessionAssumption
<1>. HIDE DEF new
<1>8. /\ jobs' \in [Workers -> Job]
      /\ JobsAreOfSessions' /\ TasksOfActive' /\ OpIsAt' /\ ExpiredIsQuiet'
  BY <1>1, <1>2, <1>3, <1>4, <1>6, <1>7, TaskGoesOn DEF env, disk
<1>9. TypeOK'
  BY <1>2, <1>3, <1>8 DEF RecorderInv, TypeOK, retention, env, disk
<1>10. KeptIsRecorded'
  BY <1>2, <1>3 DEF RecorderInv, KeptIsRecorded, disk, env
<1>11. SweepHasUnlinked'
  BY <1>3, SweepStays DEF retention, disk
<1>. QED BY <1>8, <1>9, <1>10, <1>11 DEF RecorderInv

LEMMA ImportBeginsKeeps ==
    ASSUME RecorderInv, NEW w \in Workers, NEW c \in Imported, ImportBegins(w, c) PROVE RecorderInv'
<1>. DEFINE j == jobs[w]
            p == <<j.session, c>>
            new == Holding(j.session, c, ArchiveAudio /\ p \notin files)
<1>1. /\ c \in Chunks /\ c \notin Captured
      /\ j \in Job /\ j.at = "waiting" /\ jobs' = [jobs EXCEPT ![w] = new]
      /\ files' \subseteq files \cup {p} /\ files \subseteq files'
      /\ UNCHANGED <<status, rows, expired, segments, aged, env, active, op, stale,
                     processed, capturing, queue, clogged, retention>>
  BY ChunkAssumption DEF ImportBegins, Copied, RecorderInv, TypeOK, Chunks, Captured
<1>2. j.session \in Sessions
  BY <1>1 DEF RecorderInv, JobsAreOfSessions
<1>3. new \in Job /\ new.session = j.session /\ new.chunk = c
  <2>. DEFINE made == ArchiveAudio /\ p \notin files
  <2>1. made \in BOOLEAN
    BY ChunkAssumption
  <2>. HIDE DEF made
  <2>. QED BY <1>1, <1>2, <2>1 DEF Holding, Job, Places
<1>4. queue' # <<>> => active # NoSession
  BY <1>1 DEF RecorderInv, TasksOfActive
<1>. HIDE DEF new
<1>5. /\ jobs' \in [Workers -> Job]
      /\ JobsAreOfSessions' /\ TasksOfActive' /\ OpIsAt' /\ ExpiredIsQuiet'
  BY <1>1, <1>3, <1>4, TaskGoesOn DEF env
<1>6. TypeOK'
  BY <1>1, <1>2, <1>5 DEF RecorderInv, TypeOK, retention, Pairs, env
<1>7. KeptIsRecorded'
  BY <1>1 DEF RecorderInv, KeptIsRecorded, env
<1>8. p \notin expired
  BY DEF RecorderInv, ExpiredIsQuiet
<1>9. SweepHasUnlinked'
  BY <1>1, <1>8, SweepStays DEF retention
<1>. QED BY <1>5, <1>6, <1>7, <1>9 DEF RecorderInv

LEMMA FinalizedKeeps == ASSUME RecorderInv, NEW s \in Sessions, Finalized(s) PROVE RecorderInv'
<1>1. /\ s \in Workers /\ jobs[s].at = "waiting" /\ jobs' = [jobs EXCEPT ![s] = NoJob]
      /\ status' = [status EXCEPT ![s] = "completed"] /\ "completed" \in Ended
      /\ UNCHANGED <<rows, expired, segments, files, aged, env, active, op, stale,
                     processed, capturing, queue, clogged, retention>>
  BY DEF Finalized, Workers, Ended
<1>2. queue' # <<>> => active # NoSession
  BY <1>1 DEF RecorderInv, TasksOfActive
<1>3. /\ jobs' \in [Workers -> Job] /\ status' \in [Sessions -> Statuses]
      /\ JobsAreOfSessions' /\ TasksOfActive' /\ OpIsAt' /\ ExpiredIsQuiet'
      /\ \A x \in Sessions : status[x] # "none" => status'[x] # "none"
  BY <1>1, <1>2, JobValues, TaskGoesOn DEF env
<1>4. TypeOK'
  BY <1>1, <1>3 DEF RecorderInv, TypeOK, retention, env
<1>5. KeptIsRecorded'
  BY <1>1, <1>3 DEF RecorderInv, KeptIsRecorded, env, TypeOK, Pairs
<1>6. SweepHasUnlinked'
  BY <1>1, SweepStays DEF retention
<1>. QED BY <1>3, <1>4, <1>5, <1>6 DEF RecorderInv

-----------------------------------------------------------------------------
(* start(): nobody is there while no session is active.                    *)
LEMMA NobodyWithoutSession ==
    ASSUME RecorderInv, active = NoSession, NEW w \in {"input", "output"} PROVE jobs[w].at = "none"
BY SessionAssumption DEF RecorderInv, TasksOfActive, JobsAreOfSessions, Workers

LEMMA StartReadsKeeps == ASSUME RecorderInv, StartReads PROVE RecorderInv'
<1>1. /\ active = NoSession /\ op' \in {<<"start", "create">>, <<"start", "mark">>}
      /\ stale' \in Sessions \cup {NoSession} /\ (op' = <<"start", "mark">> => stale' \in Sessions)
      /\ UNCHANGED <<disk, env, active, jobs, processed, capturing, queue, clogged, retention>>
  BY DEF StartReads
<1>2. op' \in Ops /\ op'[1] = "start" /\ op'[2] \in {"create", "mark"}
  BY <1>1 DEF Ops
<1>3. TypeOK'
  BY <1>1, <1>2 DEF RecorderInv, TypeOK, disk, env, retention
<1>4. JobsAreOfSessions' /\ TasksOfActive'
  BY <1>1 DEF RecorderInv, JobsAreOfSessions, TasksOfActive, disk, env
<1>5. OpIsAt'
  BY <1>1, <1>2 DEF OpIsAt
<1>6. KeptIsRecorded' /\ ExpiredIsQuiet' /\ SweepHasUnlinked'
  BY <1>1, <1>2 DEF RecorderInv, KeptIsRecorded, ExpiredIsQuiet, SweepHasUnlinked, disk, env, retention
<1>. QED BY <1>3, <1>4, <1>5, <1>6 DEF RecorderInv

LEMMA StartMarksStaleKeeps == ASSUME RecorderInv, StartMarksStale PROVE RecorderInv'
<1>1. /\ op = <<"start", "mark">> /\ op' = <<"start", "create">> /\ active = NoSession
      /\ stale \in Sessions /\ status' = [status EXCEPT ![stale] = "interrupted"]
      /\ UNCHANGED <<rows, expired, segments, files, aged, env, active, stale, jobs,
                     processed, capturing, queue, clogged, retention>>
  BY DEF StartMarksStale, RecorderInv, OpIsAt
<1>2. /\ status' \in [Sessions -> Statuses]
      /\ \A s \in Sessions : /\ status[s] # "none" => status'[s] # "none"
                             /\ status[s] \in {"finalizing"} \cup Ended => status'[s] \in {"finalizing"} \cup Ended
  BY <1>1 DEF RecorderInv, TypeOK, Statuses, Ended
<1>3. TypeOK'
  BY <1>1, <1>2 DEF RecorderInv, TypeOK, env, retention, Ops
<1>4. JobsAreOfSessions' /\ TasksOfActive'
  BY <1>1, <1>2 DEF RecorderInv, JobsAreOfSessions, TasksOfActive, env
<1>5. OpIsAt'
  BY <1>1 DEF OpIsAt
<1>6. KeptIsRecorded'
  BY <1>1, <1>2 DEF RecorderInv, KeptIsRecorded, env, TypeOK, Pairs
<1>7. ExpiredIsQuiet' /\ SweepHasUnlinked'
  BY <1>1 DEF RecorderInv, ExpiredIsQuiet, SweepHasUnlinked, env, retention
<1>. QED BY <1>3, <1>4, <1>5, <1>6, <1>7 DEF RecorderInv

LEMMA StartCreatesKeeps ==
    ASSUME RecorderInv, NEW s \in Sessions, NEW ok \in BOOLEAN, StartCreates(s, ok) PROVE RecorderInv'
<1>. DEFINE Taken(w) == ok /\ w \in {"poll", "input", "output"}
<1>1. /\ status[s] = "none" /\ status' = [status EXCEPT ![s] = "active"]
      /\ active = NoSession /\ active' = s /\ op' = Idle /\ stale' = NoSession /\ processed' = {}
      /\ capturing' = ok /\ faults' \in 0..MaxFaults
      /\ UNCHANGED <<rows, expired, segments, files, aged, visible, recorded, queue, clogged, retention>>
  BY BoundAssumption DEF StartCreates, RecorderInv, TypeOK, OpIsAt
<1>2. \A w \in Workers : jobs'[w] = IF Taken(w) THEN Waiting(s) ELSE jobs[w]
  BY DEF StartCreates
<1>3. jobs' \in [Workers -> Job]
  BY JobValues DEF StartCreates, RecorderInv, TypeOK
<1>4. /\ status' \in [Sessions -> Statuses] /\ status'[s] = "active"
      /\ \A x \in Sessions \ {s} : status'[x] = status[x]
  BY <1>1 DEF RecorderInv, TypeOK, Statuses
<1>5. TypeOK'
  BY <1>1, <1>3, <1>4 DEF RecorderInv, TypeOK, retention, Ops
<1>6. Waiting(s).at = "waiting" /\ Waiting(s).session = s
  BY JobValues
<1>7. JobsAreOfSessions'
  <2>. SUFFICES ASSUME NEW w \in Workers
                PROVE  /\ jobs'[w].at # "none" => jobs'[w].session \in Sessions
                       /\ jobs'[w].session \in Sessions => status'[jobs'[w].session] # "none"
                       /\ jobs'[w].at \in {"saving", "hearing"} =>
                            /\ jobs'[w].chunk \in Chunks
                            /\ jobs'[w].chunk \in Captured => jobs'[w].chunk \in recorded'
    BY DEF JobsAreOfSessions
  <2>1. CASE Taken(w)
    BY <1>2, <1>4, <1>6, <2>1
  <2>2. CASE ~Taken(w)
    BY <1>1, <1>2, <1>4, <2>2 DEF RecorderInv, JobsAreOfSessions
  <2>. QED BY <2>1, <2>2
<1>8. TasksOfActive'
  <2>1. \A w \in {"input", "output"} : jobs'[w].at # "none" => jobs'[w].session = s
    BY <1>1, <1>2, <1>6, NobodyWithoutSession DEF Workers
  <2>2. \A x \in Sessions : jobs'[x].at # "none" => status'[x] \in {"finalizing"} \cup Ended
    <3>. SUFFICES ASSUME NEW x \in Sessions, jobs'[x].at # "none"
                  PROVE  status'[x] \in {"finalizing"} \cup Ended
      OBVIOUS
    <3>1. jobs'[x] = jobs[x]
      BY <1>2, SessionAssumption DEF Workers
    <3>2. status[x] \in {"finalizing"} \cup Ended
      BY <3>1 DEF RecorderInv, TasksOfActive
    <3>. QED BY <1>1, <1>4, <3>2 DEF Ended
  <2>. QED BY <1>1, <1>4, <2>1, <2>2, SessionAssumption DEF TasksOfActive
<1>9. OpIsAt'
  BY <1>1 DEF OpIsAt, Idle
<1>10. KeptIsRecorded'
  BY <1>1, <1>4 DEF RecorderInv, KeptIsRecorded, TypeOK, Pairs
<1>11. ExpiredIsQuiet'
  <2>. SUFFICES ASSUME NEW p \in expired
                PROVE  /\ p[1] # s /\ p[1] # NoSession
                       /\ \A w \in Workers : jobs'[w].session # p[1]
    BY <1>1 DEF ExpiredIsQuiet
  <2>1. p[1] # s /\ p[1] # NoSession
    BY <1>1, SessionAssumption DEF RecorderInv, KeptIsRecorded, TypeOK, Pairs
  <2>. QED BY <1>2, <1>6, <2>1 DEF RecorderInv, ExpiredIsQuiet
<1>12. SweepHasUnlinked'
  BY <1>1 DEF RecorderInv, SweepHasUnlinked, retention
<1>. QED BY <1>5, <1>7, <1>8, <1>9, <1>10, <1>11, <1>12 DEF RecorderInv

(* stop() and close().                                                     *)
LEMMA StopBeginsKeeps ==
    ASSUME RecorderInv, NEW kind \in {"stop", "close"}, StopBegins(kind) PROVE RecorderInv'
<1>1. /\ op' = <<kind, "poll">> /\ op' \in Ops /\ op'[1] = kind /\ op'[2] = "poll" /\ op[1] = "none"
      /\ kind = "stop" => active # NoSession
      /\ UNCHANGED <<disk, env, active, stale, jobs, processed, capturing, queue, clogged, retention>>
  BY DEF StopBegins, Ops, Idle
<1>2. TypeOK'
  BY <1>1 DEF RecorderInv, TypeOK, disk, env, retention
<1>3. JobsAreOfSessions' /\ TasksOfActive'
  BY <1>1 DEF RecorderInv, JobsAreOfSessions, TasksOfActive, disk, env
<1>4. OpIsAt'
  BY <1>1 DEF OpIsAt
<1>5. KeptIsRecorded' /\ ExpiredIsQuiet' /\ SweepHasUnlinked'
  BY <1>1 DEF RecorderInv, KeptIsRecorded, ExpiredIsQuiet, SweepHasUnlinked, disk, env, retention
<1>. QED BY <1>2, <1>3, <1>4, <1>5 DEF RecorderInv

(* Of the places of op, those of a stop and a close.                       *)
LEMMA Stages ==
    ASSUME op \in Ops, op[2] \in {"poll", "input", "recorder", "consumer"}
    PROVE  /\ op[1] \in {"stop", "close"}
           /\ \A there \in {"input", "recorder", "consumer"} : <<op[1], there>> \in Ops
           /\ <<"stop", "mark">> \in Ops /\ <<"close", "finalizers">> \in Ops
BY DEF Ops, Idle

LEMMA PollGoneKeeps == ASSUME RecorderInv, PollGone PROVE RecorderInv'
<1>1. /\ op[2] = "poll" /\ op' = <<op[1], "input">>
      /\ UNCHANGED <<disk, env, active, stale, jobs, processed, capturing, queue, clogged, retention>>
  BY DEF PollGone, Step
<1>2. op' \in Ops /\ op[1] \in {"stop", "close"} /\ op'[1] = op[1] /\ op'[2] = "input"
  BY <1>1, Stages DEF RecorderInv, TypeOK
<1>3. TypeOK'
  BY <1>1, <1>2 DEF RecorderInv, TypeOK, disk, env, retention
<1>4. JobsAreOfSessions' /\ TasksOfActive'
  BY <1>1 DEF RecorderInv, JobsAreOfSessions, TasksOfActive, disk, env
<1>5. OpIsAt'
  BY <1>1, <1>2 DEF RecorderInv, OpIsAt
<1>6. KeptIsRecorded' /\ ExpiredIsQuiet' /\ SweepHasUnlinked'
  BY <1>1, <1>2 DEF RecorderInv, KeptIsRecorded, ExpiredIsQuiet, SweepHasUnlinked, disk, env, retention
<1>. QED BY <1>3, <1>4, <1>5, <1>6 DEF RecorderInv

(* A task of the capture has been joined.                                  *)
LEMMA TaskJoined ==
    ASSUME RecorderInv, NEW w \in {"input", "output"}, jobs' = [jobs EXCEPT ![w] = NoJob],
           UNCHANGED <<status, recorded>>
    PROVE  /\ jobs' \in [Workers -> Job] /\ JobsAreOfSessions' /\ jobs'[w].at = "none"
           /\ \A x \in Workers \ {w} : jobs'[x] = jobs[x]
           /\ \A p \in expired : \A x \in Workers : jobs'[x].session # p[1]
<1>1. \A x \in Workers : jobs'[x] = IF x = w THEN NoJob ELSE jobs[x]
  BY DEF RecorderInv, TypeOK
<1>2. jobs' \in [Workers -> Job] /\ w \in Workers
  BY JobValues DEF RecorderInv, TypeOK, Workers
<1>3. NoJob.at = "none" /\ NoJob.session \notin Sessions
  BY JobValues, SessionAssumption
<1>4. JobsAreOfSessions'
  BY <1>1, <1>3 DEF RecorderInv, JobsAreOfSessions
<1>5. \A p \in expired : p[1] \in Sessions
  BY DEF RecorderInv, TypeOK, Pairs
<1>. QED BY <1>1, <1>2, <1>3, <1>4, <1>5 DEF RecorderInv, ExpiredIsQuiet

LEMMA InputJoinedKeeps == ASSUME RecorderInv, InputJoined PROVE RecorderInv'
<1>1. /\ op[2] = "input" /\ op' = <<op[1], "recorder">> /\ capturing' = FALSE /\ clogged' = FALSE
      /\ jobs' = [jobs EXCEPT !["input"] = NoJob]
      /\ UNCHANGED <<disk, env, active, stale, processed, queue, retention>>
  BY DEF InputJoined, Step
<1>2. op' \in Ops /\ op[1] \in {"stop", "close"} /\ op'[1] = op[1] /\ op'[2] = "recorder"
  BY <1>1, Stages DEF RecorderInv, TypeOK
<1>3. /\ jobs' \in [Workers -> Job] /\ JobsAreOfSessions' /\ jobs'["input"].at = "none"
      /\ \A x \in Workers \ {"input"} : jobs'[x] = jobs[x]
      /\ \A p \in expired : \A x \in Workers : jobs'[x].session # p[1]
  BY <1>1, TaskJoined DEF disk, env
<1>4. TypeOK'
  BY <1>1, <1>2, <1>3 DEF RecorderInv, TypeOK, disk, env, retention
<1>5. TasksOfActive'
  BY <1>1, <1>3, SessionAssumption DEF RecorderInv, TasksOfActive, disk, env, Workers
<1>6. OpIsAt'
  BY <1>1, <1>2, <1>3 DEF RecorderInv, OpIsAt
<1>7. KeptIsRecorded' /\ ExpiredIsQuiet' /\ SweepHasUnlinked'
  BY <1>1, <1>2, <1>3 DEF RecorderInv, KeptIsRecorded, ExpiredIsQuiet, SweepHasUnlinked, disk, env, retention
<1>. QED BY <1>3, <1>4, <1>5, <1>6, <1>7 DEF RecorderInv

LEMMA RecorderJoinedKeeps == ASSUME RecorderInv, RecorderJoined PROVE RecorderInv'
<1>1. /\ op[2] = "recorder" /\ op' = <<op[1], "consumer">>
      /\ UNCHANGED <<disk, env, active, stale, jobs, processed, capturing, queue, clogged, retention>>
  BY DEF RecorderJoined, Step
<1>2. op' \in Ops /\ op[1] \in {"stop", "close"} /\ op'[1] = op[1] /\ op'[2] = "consumer"
  BY <1>1, Stages DEF RecorderInv, TypeOK
<1>3. TypeOK'
  BY <1>1, <1>2 DEF RecorderInv, TypeOK, disk, env, retention
<1>4. JobsAreOfSessions' /\ TasksOfActive'
  BY <1>1 DEF RecorderInv, JobsAreOfSessions, TasksOfActive, disk, env
<1>5. OpIsAt'
  BY <1>1, <1>2 DEF RecorderInv, OpIsAt
<1>6. KeptIsRecorded' /\ ExpiredIsQuiet' /\ SweepHasUnlinked'
  BY <1>1, <1>2 DEF RecorderInv, KeptIsRecorded, ExpiredIsQuiet, SweepHasUnlinked, disk, env, retention
<1>. QED BY <1>3, <1>4, <1>5, <1>6 DEF RecorderInv

(* The tail has been taken: the session is given up and no task is left.   *)
LEMMA ConsumerJoinedKeeps == ASSUME RecorderInv, ConsumerJoined PROVE RecorderInv'
<1>1. /\ queue = <<>> /\ op[2] = "consumer"
      /\ op' = <<op[1], IF op[1] = "close" THEN "finalizers" ELSE "mark">>
      /\ jobs' = [jobs EXCEPT !["output"] = NoJob]
      /\ active' = IF op[1] = "stop" THEN NoSession ELSE active
      /\ stale' = IF op[1] = "stop" THEN active ELSE stale
      /\ UNCHANGED <<disk, env, processed, capturing, queue, clogged, retention>>
  BY DEF ConsumerJoined, Step
<1>2. op' \in Ops /\ op[1] \in {"stop", "close"}
      /\ (op[1] = "stop" => op' = <<"stop", "mark">>) /\ (op[1] = "close" => op' = <<"close", "finalizers">>)
  BY <1>1, Stages DEF RecorderInv, TypeOK
<1>3. /\ jobs' \in [Workers -> Job] /\ JobsAreOfSessions' /\ jobs'["output"].at = "none"
      /\ \A x \in Workers \ {"output"} : jobs'[x] = jobs[x]
      /\ \A p \in expired : \A x \in Workers : jobs'[x].session # p[1]
  BY <1>1, TaskJoined DEF disk, env
<1>4. TypeOK'
  BY <1>1, <1>2, <1>3 DEF RecorderInv, TypeOK, disk, env, retention
<1>5. jobs["input"].at = "none" /\ (op[1] = "stop" => active \in Sessions /\ status[active] = "active")
  BY <1>1 DEF RecorderInv, OpIsAt, TypeOK, TasksOfActive
<1>6. TasksOfActive'
  <2>1. \A s \in Sessions : jobs'[s] = jobs[s]
    BY <1>3, SessionAssumption DEF Workers
  <2>2. jobs'["input"].at = "none"
    BY <1>3, <1>5 DEF Workers
  <2>. QED BY <1>1, <1>3, <2>1, <2>2 DEF RecorderInv, TasksOfActive, disk
<1>7. OpIsAt'
  <2>1. jobs'["input"].at = "none"
    BY <1>3, <1>5 DEF Workers
  <2>. QED BY <1>1, <1>2, <1>5, <2>1 DEF OpIsAt, disk
<1>8. ExpiredIsQuiet'
  <2>1. expired' = expired /\ \A p \in expired : p[1] # active /\ (p[1] = stale => op[1] = "start")
    BY <1>1 DEF RecorderInv, ExpiredIsQuiet, disk
  <2>2. \A p \in expired : p[1] # NoSession
    BY SessionAssumption DEF RecorderInv, TypeOK, Pairs
  <2>. QED BY <1>1, <1>2, <1>3, <2>1, <2>2 DEF ExpiredIsQuiet
<1>9. KeptIsRecorded' /\ SweepHasUnlinked'
  BY <1>1 DEF RecorderInv, KeptIsRecorded, SweepHasUnlinked, disk, env, retention
<1>. QED BY <1>3, <1>4, <1>6, <1>7, <1>8, <1>9 DEF RecorderInv

LEMMA StopMarksKeeps == ASSUME RecorderInv, StopMarks PROVE RecorderInv'
<1>1. /\ op = <<"stop", "mark">> /\ op' = Idle /\ stale' = NoSession /\ active = NoSession
      /\ stale \in Sessions /\ status[stale] = "active"
      /\ status' = [status EXCEPT ![stale] = "finalizing"]
      /\ jobs' = [jobs EXCEPT ![stale] = Waiting(stale)]
      /\ UNCHANGED <<rows, expired, segments, files, aged, env, active, processed,
                     capturing, queue, clogged, retention>>
  BY DEF StopMarks, RecorderInv, OpIsAt
<1>2. /\ Waiting(stale) \in Job /\ Waiting(stale).at = "waiting" /\ Waiting(stale).session = stale
  BY <1>1, JobValues
<1>3. /\ jobs' \in [Workers -> Job] /\ stale \in Workers
      /\ \A w \in Workers : jobs'[w] = IF w = stale THEN Waiting(stale) ELSE jobs[w]
  BY <1>1, <1>2 DEF RecorderInv, TypeOK, Workers
<1>4. /\ status' \in [Sessions -> Statuses] /\ status'[stale] = "finalizing"
      /\ \A s \in Sessions \ {stale} : status'[s] = status[s]
  BY <1>1 DEF RecorderInv, TypeOK, Statuses
<1>5. TypeOK'
  BY <1>1, <1>3, <1>4 DEF RecorderInv, TypeOK, env, retention, Ops
<1>6. JobsAreOfSessions'
  BY <1>1, <1>2, <1>3, <1>4 DEF RecorderInv, JobsAreOfSessions, env
<1>7. TasksOfActive'
  <2>1. \A w \in {"input", "output"} : jobs'[w] = jobs[w]
    BY <1>1, <1>3, SessionAssumption DEF Workers
  <2>2. \A s \in Sessions : jobs'[s].at # "none" => status'[s] \in {"finalizing"} \cup Ended
    BY <1>3, <1>4 DEF RecorderInv, TasksOfActive, Workers
  <2>. QED BY <1>1, <2>1, <2>2 DEF RecorderInv, TasksOfActive
<1>8. OpIsAt'
  BY <1>1 DEF OpIsAt, Idle
<1>9. KeptIsRecorded'
  BY <1>1, <1>4 DEF RecorderInv, KeptIsRecorded, TypeOK, Pairs, env
<1>10. ExpiredIsQuiet'
  <2>1. \A p \in expired : p[1] # stale /\ p[1] # NoSession
    BY <1>1, SessionAssumption DEF RecorderInv, ExpiredIsQuiet, TypeOK, Pairs
  <2>. QED BY <1>1, <1>2, <1>3, <2>1 DEF RecorderInv, ExpiredIsQuiet
<1>11. SweepHasUnlinked'
  BY <1>1 DEF RecorderInv, SweepHasUnlinked, retention
<1>. QED BY <1>5, <1>6, <1>7, <1>8, <1>9, <1>10, <1>11 DEF RecorderInv

(* A new process remembers nobody.                                         *)
LEMMA MemoryLostKeeps ==
    ASSUME RecorderInv, MemoryLost, UNCHANGED <<rows, expired, segments, files, aged, visible, recorded>>,
           faults' \in 0..MaxFaults, status' \in [Sessions -> Statuses],
           \A s \in Sessions : status[s] # "none" => status'[s] # "none"
    PROVE  RecorderInv'
<1>1. /\ active' = NoSession /\ op' = Idle /\ stale' = NoSession /\ processed' = {} /\ queue' = <<>>
      /\ capturing' = FALSE /\ clogged' = FALSE /\ sweep' = "idle" /\ marked' = {}
      /\ \A w \in Workers : jobs'[w] = NoJob
  BY DEF MemoryLost
<1>2. jobs' \in [Workers -> Job]
  BY JobValues DEF MemoryLost
<1>3. NoJob.at = "none" /\ NoJob.session = NoSession
  BY JobValues
<1>4. TypeOK'
  <2>1. queue' \in Seq(CapturedOut)
    BY <1>1
  <2>2. op' \in Ops
    BY <1>1 DEF Ops
  <2>3. marked' \subseteq Pairs /\ processed' \subseteq Pairs
    BY <1>1
  <2>. QED BY <1>1, <1>2, <2>1, <2>2, <2>3 DEF RecorderInv, TypeOK
<1>5. JobsAreOfSessions' /\ TasksOfActive' /\ OpIsAt'
  BY <1>1, <1>3, SessionAssumption DEF JobsAreOfSessions, TasksOfActive, OpIsAt, Idle, Workers
<1>6. KeptIsRecorded'
  BY <1>1 DEF RecorderInv, KeptIsRecorded, TypeOK, Pairs
<1>7. ExpiredIsQuiet'
  <2>1. \A p \in expired : p[1] # NoSession
    BY SessionAssumption DEF RecorderInv, TypeOK, Pairs
  <2>. QED BY <1>1, <1>3, <2>1 DEF ExpiredIsQuiet
<1>8. SweepHasUnlinked'
  BY <1>1 DEF SweepHasUnlinked
<1>. QED BY <1>4, <1>5, <1>6, <1>7, <1>8 DEF RecorderInv

LEMMA ProcessEndsKeeps == ASSUME RecorderInv, Crash \/ CloseEnds PROVE RecorderInv'
<1>1. CASE Crash
  <2>1. faults' \in 0..MaxFaults
    BY <1>1, BoundAssumption DEF Crash, RecorderInv, TypeOK
  <2>. QED BY <1>1, <2>1, MemoryLostKeeps DEF Crash, disk, RecorderInv, TypeOK
<1>2. CASE CloseEnds
  <2>1. /\ status' \in [Sessions -> Statuses]
        /\ \A s \in Sessions : status[s] # "none" => status'[s] # "none"
    BY <1>2 DEF CloseEnds, RecorderInv, TypeOK, Statuses, Ended
  <2>. QED BY <1>2, <2>1, MemoryLostKeeps DEF CloseEnds, env, RecorderInv, TypeOK
<1>. QED BY <1>1, <1>2

-----------------------------------------------------------------------------
(* Audio that arrives, and a microphone nobody empties.                    *)
LEMMA AudioKeeps ==
    ASSUME RecorderInv, (\E c \in Imported : ScreenpipeWrites(c)) \/ InputClogs PROVE RecorderInv'
<1>1. /\ visible' \subseteq Sessions \X Imported /\ clogged' \in BOOLEAN
      /\ UNCHANGED <<disk, recorded, faults, active, op, stale, jobs, processed, capturing, queue, retention>>
  <2>1. CASE InputClogs
    BY <2>1 DEF InputClogs, RecorderInv, TypeOK, env
  <2>2. ASSUME NEW c \in Imported, ScreenpipeWrites(c)
        PROVE  visible' \subseteq Sessions \X Imported
    BY <2>2 DEF ScreenpipeWrites, RecorderInv, TypeOK
  <2>3. CASE \E c \in Imported : ScreenpipeWrites(c)
    BY <2>2, <2>3 DEF ScreenpipeWrites, memory, RecorderInv, TypeOK
  <2>. QED BY <2>1, <2>3
<1>2. TypeOK'
  BY <1>1 DEF RecorderInv, TypeOK, disk, retention
<1>3. JobsAreOfSessions' /\ TasksOfActive' /\ OpIsAt'
  BY <1>1 DEF RecorderInv, JobsAreOfSessions, TasksOfActive, OpIsAt, disk
<1>4. KeptIsRecorded' /\ ExpiredIsQuiet' /\ SweepHasUnlinked'
  BY <1>1 DEF RecorderInv, KeptIsRecorded, ExpiredIsQuiet, SweepHasUnlinked, disk, retention
<1>. QED BY <1>2, <1>3, <1>4 DEF RecorderInv

LEMMA OutputRecordedKeeps ==
    ASSUME RecorderInv, NEW c \in CapturedOut, OutputRecorded(c) PROVE RecorderInv'
<1>. DEFINE j == jobs["output"]
            p == <<j.session, c>>
<1>1. /\ c \in Chunks /\ c \in Captured /\ c \notin recorded /\ recorded' = recorded \cup {c}
      /\ j.at # "none" /\ files' = files \cup {p} /\ queue' = Append(queue, c)
      /\ UNCHANGED <<status, rows, expired, segments, aged, visible, faults, active, op, stale,
                     jobs, processed, capturing, clogged, retention>>
  BY DEF OutputRecorded, Chunks, Captured
<1>2. j.session = active /\ active \in Sessions
  BY <1>1, SessionAssumption DEF RecorderInv, TasksOfActive, JobsAreOfSessions, Workers
<1>3. /\ queue \in Seq(CapturedOut) /\ queue' \in Seq(CapturedOut)
      /\ \A n \in 1..Len(queue') : queue'[n] \in recorded'
  BY <1>1 DEF RecorderInv, TypeOK, KeptIsRecorded
<1>4. TypeOK'
  BY <1>1, <1>2, <1>3 DEF RecorderInv, TypeOK, retention, Pairs
<1>5. JobsAreOfSessions' /\ TasksOfActive' /\ OpIsAt'
  BY <1>1, <1>2, SessionAssumption DEF RecorderInv, JobsAreOfSessions, TasksOfActive, OpIsAt
<1>6. KeptIsRecorded' /\ ExpiredIsQuiet'
  BY <1>1, <1>3 DEF RecorderInv, KeptIsRecorded, ExpiredIsQuiet
<1>7. p \notin expired
  BY <1>1 DEF RecorderInv, TypeOK, KeptIsRecorded
<1>8. SweepHasUnlinked'
  BY <1>1, <1>7, SweepStays DEF retention
<1>. QED BY <1>4, <1>5, <1>6, <1>8 DEF RecorderInv

(* The days that pass, and the retention worker.                           *)
LEMMA TimeKeeps ==
    ASSUME RecorderInv, NEW p \in Pairs, RowExpires(p) \/ FileAges(p) PROVE RecorderInv'
<1>1. /\ expired' \subseteq rows /\ expired \subseteq expired' /\ aged' \subseteq files
      /\ UNCHANGED <<status, rows, segments, files, env, memory, retention>>
  BY DEF RowExpires, FileAges, RecorderInv, TypeOK
<1>2. TypeOK'
  BY <1>1 DEF RecorderInv, TypeOK, env, memory, retention
<1>3. JobsAreOfSessions' /\ TasksOfActive' /\ OpIsAt' /\ KeptIsRecorded'
  BY <1>1 DEF RecorderInv, JobsAreOfSessions, TasksOfActive, OpIsAt, KeptIsRecorded, env, memory
<1>4. ExpiredIsQuiet'
  <2>1. CASE expired' = expired
    BY <1>1, <2>1 DEF RecorderInv, ExpiredIsQuiet, memory
  <2>2. CASE expired' = expired \cup {p} /\ Quiet(p[1])
    BY <1>1, <2>2 DEF RecorderInv, ExpiredIsQuiet, memory, Quiet
  <2>. QED BY <2>1, <2>2 DEF RowExpires, FileAges
<1>5. SweepHasUnlinked'
  BY <1>1 DEF RecorderInv, SweepHasUnlinked, retention
<1>. QED BY <1>2, <1>3, <1>4, <1>5 DEF RecorderInv

LEMMA SweepKeeps ==
    ASSUME RecorderInv,
           \/ PruneReads \/ PruneDeletes \/ ReconcileReads \/ ReconcileRemoves
           \/ \E locked \in SUBSET files : PruneUnlinks(locked)
    PROVE  RecorderInv'
<1>1. /\ rows' \subseteq rows /\ expired' \subseteq expired /\ files' \subseteq files
      /\ aged' \subseteq files' /\ marked' \subseteq Pairs
      /\ sweep' \in {"idle", "unlinking", "deleting", "reconciling"}
      /\ expired' \subseteq rows'
      /\ UNCHANGED <<status, segments, env, memory>>
  <2>1. CASE PruneReads \/ ReconcileReads
    BY <2>1 DEF PruneReads, ReconcileReads, RecorderInv, TypeOK, disk
  <2>2. CASE PruneDeletes
    BY <2>2 DEF PruneDeletes, RecorderInv, TypeOK
  <2>3. CASE ReconcileRemoves
    BY <2>3 DEF ReconcileRemoves, RecorderInv, TypeOK
  <2>4. CASE \E locked \in SUBSET files : PruneUnlinks(locked)
    BY <2>4 DEF PruneUnlinks, RecorderInv, TypeOK
  <2>. QED BY <2>1, <2>2, <2>3, <2>4
<1>2. TypeOK'
  BY <1>1 DEF RecorderInv, TypeOK, env, memory
<1>3. JobsAreOfSessions' /\ TasksOfActive' /\ OpIsAt' /\ KeptIsRecorded'
  BY <1>1 DEF RecorderInv, JobsAreOfSessions, TasksOfActive, OpIsAt, KeptIsRecorded, env, memory
<1>4. ExpiredIsQuiet'
  BY <1>1 DEF RecorderInv, ExpiredIsQuiet, memory
<1>5. SweepHasUnlinked'
  BY DEF RecorderInv, SweepHasUnlinked, PruneReads, PruneDeletes, ReconcileReads, ReconcileRemoves,
         PruneUnlinks, disk
<1>. QED BY <1>2, <1>3, <1>4, <1>5 DEF RecorderInv

LEMMA RecorderNext == RecorderInv /\ [Next]_vars => RecorderInv'
<1>. SUFFICES ASSUME RecorderInv, [Next]_vars PROVE RecorderInv'
  OBVIOUS
<1>1. CASE StartReads \/ StartMarksStale \/ \E s \in Sessions, ok \in BOOLEAN : StartCreates(s, ok)
  BY <1>1, StartReadsKeeps, StartMarksStaleKeeps, StartCreatesKeeps
<1>2. CASE Stopping
  <2>1. PollCancelled \/ FinalizerCancelled => \E w \in Workers : Cancelled(w)
    BY DEF PollCancelled, FinalizerCancelled, Workers
  <2>. QED BY <1>2, <2>1, CancelledKeeps, StopBeginsKeeps, PollGoneKeeps, InputJoinedKeeps,
              RecorderJoinedKeeps, ConsumerJoinedKeeps, StopMarksKeeps, ProcessEndsKeeps DEF Stopping
<1>3. CASE Crash
  BY <1>3, ProcessEndsKeeps
<1>4. CASE \/ \E c \in Imported : ScreenpipeWrites(c)
           \/ InputClogs \/ OutputTaken
           \/ \E c \in CapturedIn : InputRecorded(c)
           \/ \E c \in CapturedOut : OutputRecorded(c)
  BY <1>4, AudioKeeps, OutputTakenKeeps, InputRecordedKeeps, OutputRecordedKeeps
<1>5. CASE \/ \E w \in Workers, c \in Imported : ImportBegins(w, c)
           \/ \E w \in Workers : Persist(w)
           \/ \E s \in Sessions : Finalized(s)
  BY <1>5, ImportBeginsKeeps, RowInsertedKeeps, InsertFailsKeeps, HeardKeeps, FinalizedKeeps DEF Persist
<1>6. CASE \/ \E p \in Pairs : RowExpires(p) \/ FileAges(p)
           \/ PruneReads \/ PruneDeletes \/ ReconcileReads \/ ReconcileRemoves
           \/ \E locked \in SUBSET files : PruneUnlinks(locked)
  BY <1>6, TimeKeeps, SweepKeeps
<1>7. CASE UNCHANGED vars
  <2>1. UNCHANGED <<disk, env, memory, retention>>
    BY <1>7 DEF vars
  <2>2. TypeOK'
    BY <2>1 DEF RecorderInv, TypeOK, disk, env, memory, retention
  <2>. QED BY <2>1, <2>2 DEF RecorderInv, JobsAreOfSessions, TasksOfActive, OpIsAt, KeptIsRecorded,
              ExpiredIsQuiet, SweepHasUnlinked, disk, env, memory, retention
<1>. QED BY <1>1, <1>2, <1>3, <1>4, <1>5, <1>6, <1>7 DEF Next

-----------------------------------------------------------------------------
(* Every variable of the recorder keeps its type.                          *)
THEOREM RecorderTypeCorrect == Spec => []TypeOK
<1>1. RecorderInv => TypeOK
  BY DEF RecorderInv
<1>. QED BY <1>1, RecorderInit, RecorderNext, PTL DEF Spec

(* A stop loses no tail of a recording: what the loopback still holds, and *)
(* what is being stored, belongs to the session that is active.            *)
THEOREM TailIsKept == Spec => []TailBelongsToActive
<1>1. RecorderInv => TailBelongsToActive
  BY DEF RecorderInv, TasksOfActive, TailBelongsToActive
<1>. QED BY <1>1, RecorderInit, RecorderNext, PTL DEF Spec

EndsStay == \A s \in Sessions : status[s] \in Ended => status'[s] \in Ended

LEMMA EndedStep == RecorderInv /\ [Next]_vars => EndsStay
<1>. SUFFICES ASSUME RecorderInv, [Next]_vars, NEW s \in Sessions, status[s] \in Ended
              PROVE  status'[s] \in Ended
  BY DEF EndsStay
<1>0. status \in [Sessions -> Statuses] /\ status[s] \notin {"none", "active", "finalizing"}
  BY DEF RecorderInv, TypeOK, Ended
<1>1. CASE status' = status
  BY <1>1
<1>2. CASE \E x, end : status' = [status EXCEPT ![x] = end] /\ end \in Ended
  BY <1>0, <1>2
<1>3. CASE \E x : status' = [status EXCEPT ![x] = "active"] /\ status[x] = "none"
  BY <1>0, <1>3
<1>4. CASE \E x : status' = [status EXCEPT ![x] = "finalizing"] /\ status[x] = "active"
  BY <1>0, <1>4
<1>5. CASE StartMarksStale \/ CloseEnds
  BY <1>1, <1>2, <1>5 DEF StartMarksStale, CloseEnds, Ended
<1>6. CASE \E x \in Sessions, ok \in BOOLEAN : StartCreates(x, ok)
  BY <1>3, <1>6 DEF StartCreates
<1>7. CASE StopMarks
  BY <1>4, <1>7 DEF StopMarks, RecorderInv, OpIsAt
<1>8. CASE \E w \in Workers : Persist(w)
  BY <1>1, <1>2, <1>8 DEF Persist, RowInserted, InsertFails, Transcribed, TranscriptionFails, Ended
<1>9. CASE \E x \in Sessions : Finalized(x)
  BY <1>2, <1>9 DEF Finalized, Ended
<1>10. CASE StartReads \/ (\E kind \in {"stop", "close"} : StopBegins(kind)) \/ PollGone \/ InputJoined
            \/ RecorderJoined \/ ConsumerJoined
  BY <1>1, <1>10 DEF StartReads, StopBegins, PollGone, InputJoined, RecorderJoined, ConsumerJoined, disk
<1>11. CASE PollCancelled \/ FinalizerCancelled \/ Crash
  BY <1>1, <1>11 DEF PollCancelled, FinalizerCancelled, Cancelled, Crash, disk
<1>12. CASE \/ \E c \in Imported : ScreenpipeWrites(c)
            \/ InputClogs \/ OutputTaken
            \/ \E c \in CapturedIn : InputRecorded(c)
            \/ \E c \in CapturedOut : OutputRecorded(c)
            \/ \E w \in Workers, c \in Imported : ImportBegins(w, c)
  BY <1>1, <1>12 DEF ScreenpipeWrites, InputClogs, OutputTaken, InputRecorded, OutputRecorded,
     ImportBegins, disk
<1>13. CASE \/ \E p \in Pairs : RowExpires(p) \/ FileAges(p)
            \/ PruneReads \/ PruneDeletes \/ ReconcileReads \/ ReconcileRemoves
            \/ \E locked \in SUBSET files : PruneUnlinks(locked)
  BY <1>1, <1>13 DEF RowExpires, FileAges, PruneReads, PruneDeletes, ReconcileReads, ReconcileRemoves,
     PruneUnlinks, disk
<1>14. CASE UNCHANGED vars
  BY <1>1, <1>14 DEF vars, disk
<1>. QED BY <1>5, <1>6, <1>7, <1>8, <1>9, <1>10, <1>11, <1>12, <1>13, <1>14 DEF Next, Stopping

(* A session that has ended is never taken up again, whichever of start(), *)
(* stop(), close() and a finalizer writes its status last.                 *)
THEOREM EndedSessionsStay == Spec => EndedStaysEnded
<1>1. EndsStay => [\A s \in Sessions : status[s] \in Ended => status'[s] \in Ended]_vars
  BY DEF EndsStay
<1>. QED BY <1>1, RecorderInit, RecorderNext, EndedStep, PTL DEF Spec, EndedStaysEnded

RowsGoWithFiles == \A p \in rows \ rows' : p \notin files

LEMMA PruneStep == RecorderInv /\ [Next]_vars => RowsGoWithFiles
<1>. SUFFICES ASSUME RecorderInv, [Next]_vars PROVE RowsGoWithFiles
  OBVIOUS
<1>1. CASE rows \subseteq rows'
  BY <1>1 DEF RowsGoWithFiles
<1>2. CASE PruneDeletes
  BY <1>2 DEF PruneDeletes, RecorderInv, SweepHasUnlinked, RowsGoWithFiles
<1>3. CASE \E w \in Workers : Persist(w)
  BY <1>1, <1>3 DEF Persist, RowInserted, InsertFails, Transcribed, TranscriptionFails
<1>4. CASE PollCancelled \/ FinalizerCancelled
  BY <1>1, <1>4 DEF PollCancelled, FinalizerCancelled, Cancelled, CancelledAt
<1>5. CASE \/ StartReads \/ StartMarksStale \/ \E s \in Sessions, ok \in BOOLEAN : StartCreates(s, ok)
           \/ (\E kind \in {"stop", "close"} : StopBegins(kind)) \/ PollGone \/ InputJoined
           \/ RecorderJoined \/ ConsumerJoined \/ StopMarks \/ CloseEnds \/ Crash
           \/ \E x \in Sessions : Finalized(x)
  BY <1>1, <1>5 DEF StartReads, StartMarksStale, StartCreates, StopBegins, PollGone, InputJoined,
     RecorderJoined, ConsumerJoined, StopMarks, CloseEnds, Crash, Finalized, disk
<1>6. CASE \/ \E c \in Imported : ScreenpipeWrites(c)
           \/ InputClogs \/ OutputTaken
           \/ \E c \in CapturedIn : InputRecorded(c)
           \/ \E c \in CapturedOut : OutputRecorded(c)
           \/ \E w \in Workers, c \in Imported : ImportBegins(w, c)
  BY <1>1, <1>6 DEF ScreenpipeWrites, InputClogs, OutputTaken, InputRecorded, OutputRecorded,
     ImportBegins, disk
<1>7. CASE \/ \E p \in Pairs : RowExpires(p) \/ FileAges(p)
           \/ PruneReads \/ ReconcileReads \/ ReconcileRemoves
           \/ \E locked \in SUBSET files : PruneUnlinks(locked)
  BY <1>1, <1>7 DEF RowExpires, FileAges, PruneReads, ReconcileReads, ReconcileRemoves,
     PruneUnlinks, disk
<1>8. CASE UNCHANGED vars
  BY <1>1, <1>8 DEF vars, disk
<1>. QED BY <1>2, <1>3, <1>4, <1>5, <1>6, <1>7, <1>8 DEF Next, Stopping

(* Retention takes no row whose audio is left on the disk, whatever is     *)
(* recorded, copied or locked while it is between its steps.               *)
THEOREM PruneLeavesNothing == Spec => PruneLeavesNoFile
<1>1. RowsGoWithFiles => [\A p \in rows \ rows' : p \notin files]_vars
  BY DEF RowsGoWithFiles
<1>. QED BY <1>1, RecorderInit, RecorderNext, PruneStep, PTL DEF Spec, PruneLeavesNoFile
================================================================================
