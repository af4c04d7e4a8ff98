------------------------- MODULE RoutingCalibration -------------------------
(***************************************************************************)
(* How the routing learns what its scores are worth: shadow decisions are  *)
(* recorded in the background (routing/calibration.py), labelled, and      *)
(* fitted by a command of the corpus (corpus/routing_calibration.py) to an *)
(* artifact that a later start reads. The statistics are a choice; which   *)
(* rows they see is not.                                                   *)
(***************************************************************************)
EXTENDS Naturals, Sequences, FiniteSets, FiniteSetsExt

CONSTANTS
    Texts,          \* what may be said: the group of a row
    Sessions,
    Releases,       \* runtime fingerprint and catalogue, 1..n
    MaxObserved,    \* bound on observations, one at a time
    QueueLimit,
    NoRun

VARIABLES
    release,        \* the one that runs
    queue, worker,  \* batches of one row; what append_many holds
    rows,           \* routing_calibration_observations
    labels,         \* the rows whose action_correct is known
    observed, accepted, dropped, failed,
    artifact,       \* the file
    loaded,         \* what preload made of it
    given           \* history: what the last probability was computed from

calibrationVars == <<release, queue, worker, rows, labels, observed, accepted, dropped,
                     failed, artifact, loaded, given>>

Roles == {"representative", "challenge"}
Row == [id : 1..MaxObserved, text : Texts, session : Sessions, role : Roles,
        release : Releases]

NoArtifact == [status |-> "missing"]
Statuses == {"missing", "insufficient", "not reportable", "ready", "other runtime"}

CalibrationTypeOK ==
    /\ release \in Releases /\ rows \subseteq Row /\ labels \subseteq rows
    /\ queue \in Seq(Row) /\ Len(queue) <= QueueLimit /\ worker \in Row \cup {NoRun}
    /\ {observed, accepted, dropped, failed} \subseteq 0..MaxObserved
    /\ artifact.status \in Statuses /\ loaded.status \in Statuses
    /\ given = NoRun \/ given.status = "ready"

Init ==
    /\ release = 1 /\ queue = <<>> /\ worker = NoRun /\ rows = {} /\ labels = {}
    /\ observed = 0 /\ accepted = 0 /\ dropped = 0 /\ failed = 0
    /\ artifact = NoArtifact /\ loaded = NoArtifact /\ given = NoRun

-----------------------------------------------------------------------------
(* Mutant: the queue takes whatever comes.                                 *)
RecordUnbounded(text, session, role) ==
    /\ observed < MaxObserved /\ observed' = observed + 1
    /\ queue' = Append(queue, [id |-> observed + 1, text |-> text, session |-> session,
                               role |-> role, release |-> release])
    /\ accepted' = accepted + 1
    /\ UNCHANGED <<release, worker, rows, labels, dropped, failed, artifact, loaded, given>>

(* RoutingV2Service records what it decided, RoutingCalibrationRecorder    *)
(* keeps it or, with the queue full, drops it.                             *)
Record(text, session, role) ==
    /\ observed < MaxObserved /\ observed' = observed + 1
    /\ LET row == [id |-> observed + 1, text |-> text, session |-> session, role |-> role,
                   release |-> release]
       IN IF Len(queue) < QueueLimit
          THEN queue' = Append(queue, row) /\ accepted' = accepted + 1 /\ UNCHANGED dropped
          ELSE dropped' = dropped + 1 /\ UNCHANGED <<queue, accepted>>
    /\ UNCHANGED <<release, worker, rows, labels, failed, artifact, loaded, given>>

WorkerTakes ==
    /\ worker = NoRun /\ queue # <<>> /\ worker' = Head(queue) /\ queue' = Tail(queue)
    /\ UNCHANGED <<release, rows, labels, observed, accepted, dropped, failed, artifact,
                   loaded, given>>

(* append_many: one transaction.                                           *)
WorkerStores ==
    /\ worker # NoRun /\ worker' = NoRun /\ rows' = rows \cup {worker}
    /\ UNCHANGED <<release, queue, labels, observed, accepted, dropped, failed, artifact,
                   loaded, given>>

WorkerFails ==
    /\ worker # NoRun /\ worker' = NoRun /\ failed' = failed + 1
    /\ UNCHANGED <<release, queue, rows, labels, observed, accepted, dropped, artifact,
                   loaded, given>>

(* Somebody writes a label beside the row, which stays as it is.           *)
Label(row) ==
    /\ row \in rows \ labels /\ row.role = "representative" /\ labels' = labels \cup {row}
    /\ UNCHANGED <<release, queue, worker, rows, observed, accepted, dropped, failed,
                   artifact, loaded, given>>

-----------------------------------------------------------------------------
(* Mutant: what was said alone makes a group.                              *)
SharesText(r, s) == r.text = s.text

SharesToken(r, s) == r.text = s.text \/ r.session = s.session

Tied(set, dependency) ==
    \A r \in set, s \in dependency \ set : ~SharesToken(r, s)

(* _component_groups: the least sets of rows that share no token with the  *)
(* rows outside.                                                           *)
ComponentGroups(dependency) ==
    LET tied == {c \in SUBSET dependency : c # {} /\ Tied(c, dependency)}
    IN {c \in tied : \A d \in tied : d \subseteq c => d = c}

Starts(component) == Min({r.id : r \in component})
Ends(component) == Max({r.id : r \in component})

(* temporal_group_split: the cutoff is the end of the last of the first    *)
(* four fifths of the components; what lies across it is left out.         *)
Cutoff(components) ==
    LET n == Cardinality(components)
        target == IF (n * 4) \div 5 = 0 THEN 1 ELSE (n * 4) \div 5
    IN Min({t \in {Ends(c) : c \in components} :
              Cardinality({c \in components : Ends(c) <= t}) >= target})

TemporalGroupSplit(labelled, dependency) ==
    IF labelled = {} THEN [train |-> {}, evaluate |-> {}]
    ELSE LET components == ComponentGroups(dependency)
             cutoff == Cutoff(components)
         IN [train |-> labelled \cap UNION {c \in components : Ends(c) <= cutoff},
             evaluate |-> labelled \cap UNION {c \in components : Starts(c) > cutoff}]

(* The context of a fit is that of all representative rows.                *)
Contexts(set) == {r.release : r \in {s \in set : s.role = "representative"}}

(* What _is_insufficient_data may say of the rows to train on, and what the*)
(* statistics of evaluate_routing_calibration may say of those held out.   *)
EnoughData(train) == IF train = {} THEN {FALSE} ELSE BOOLEAN
Credible(evaluate) == IF evaluate = {} THEN {FALSE} ELSE BOOLEAN

(* validate_windows: a ready artifact that is not is never written.        *)
ValidWindows(split) ==
    /\ split.train # {} /\ split.evaluate # {}
    /\ Ends(split.train) < Starts(split.evaluate)

(* fit-routing-calibration.                                                *)
Fit ==
    /\ Cardinality(Contexts(rows)) <= 1
    /\ LET split == TemporalGroupSplit(labels, rows)
       IN \E enough \in EnoughData(split.train), credible \in Credible(split.evaluate) :
            LET status == IF ~enough THEN "insufficient"
                          ELSE IF credible THEN "ready" ELSE "not reportable"
            IN /\ status = "ready" => ValidWindows(split)
               /\ artifact' = IF status # "ready" THEN [status |-> status]
                              ELSE [status |-> status, split |-> split, seen |-> rows,
                                    release |-> CHOOSE c \in Contexts(rows) : TRUE]
    /\ artifact' # artifact
    /\ UNCHANGED <<release, queue, worker, rows, labels, observed, accepted, dropped, failed,
                   loaded, given>>

-----------------------------------------------------------------------------
(* A start: the worker has been joined by the stop before it, preload reads*)
(* the file once.                                                          *)
Restart(to) ==
    /\ queue = <<>> /\ worker = NoRun /\ to >= release
    /\ release' = to /\ loaded' = artifact /\ <<release', loaded'>> # <<release, loaded>>
    /\ given' = NoRun
    /\ UNCHANGED <<queue, worker, rows, labels, observed, accepted, dropped, failed, artifact>>

(* _status_for_expectations.                                               *)
StatusForExpectations(file) ==
    IF file.status = "ready" /\ file.release # release THEN "other runtime" ELSE file.status

Infer ==
    /\ given = NoRun /\ StatusForExpectations(loaded) = "ready" /\ given' = loaded
    /\ UNCHANGED <<release, queue, worker, rows, labels, observed, accepted, dropped, failed,
                   artifact, loaded>>

Next ==
    \/ \E text \in Texts, session \in Sessions, role \in Roles : Record(text, session, role)
    \/ WorkerTakes \/ WorkerStores \/ WorkerFails
    \/ \E row \in rows : Label(row)
    \/ Fit \/ Infer \/ \E to \in Releases : Restart(to)

Spec == Init /\ [][Next]_calibrationVars

-----------------------------------------------------------------------------
(* A probability is told only on the word of rows that were held out: it   *)
(* comes from a fit of this runtime, judged on rows that are later than all*)
(* it was trained on and that no chain of rows, of the same words or the   *)
(* same session, ties to them.                                             *)
ProbabilityIsHeldOut ==
    given # NoRun =>
        LET split == given.split
        IN /\ \A r \in split.train \cup split.evaluate : r.release = release
           /\ split.evaluate # {}
           /\ \A t \in split.train, e \in split.evaluate : t.id < e.id
           /\ \E S \in SUBSET given.seen :
                /\ split.train \subseteq S /\ split.evaluate \cap S = {}
                /\ \A r \in S, s \in given.seen \ S : r.text # s.text /\ r.session # s.session
=============================================================================
