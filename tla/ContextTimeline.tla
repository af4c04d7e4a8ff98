---------------------------- MODULE ContextTimeline ----------------------------
(***************************************************************************)
(* The context timeline: context_events and context_episodes of memory.py  *)
(* with their full text projections, the isolated vector collection of     *)
(* episodes (qdrant_memory.py), and the tasks that work on them without a  *)
(* common lock: the ingestors (context/ingest.py, context/meeting_ingest), *)
(* the indexer (context/vectorization.py), the lifecycle service           *)
(* (context/lifecycle.py), the retention worker of app.py and a retriever  *)
(* (context/retrieval.py). Each await of theirs is a step boundary, and so *)
(* is each SELECT of a clean-up: the store reads in a transaction of its   *)
(* own until the first statement that writes.                              *)
(*                                                                         *)
(* The text of an event never changes under its source_id, so that what an *)
(* episode says is the set of events it was made of. Times are 0..MaxTime; *)
(* an expires_at of NULL is Never.                                         *)
(***************************************************************************)
EXTENDS Naturals, FiniteSets, Functions, FiniteSetsExt

CONSTANTS
    Events,         \* ids of context_events
    Episodes,       \* ids of context_episodes
    EpisodeOf,      \* the bucket or meeting an event falls into
    MaxTime,        \* bound on the clock
    MaxIngests,     \* bound on calls of an ingestor
    MaxFailures,    \* bound on failed calls and killed tasks
    NoRow           \* no such row, or no such point

Never == MaxTime + 1
Times == 0..MaxTime
Expiries == 1..Never

VARIABLES
    events,         \* context_events
    episodes,       \* context_episodes
    found,          \* context_events_fts and context_episodes_fts
    crossed,        \* written last while a clean-up held its list (history)
    points,         \* the vector collection of episodes
    clock,
    ingest,         \* an ingestor between two awaits
    index,          \* the indexer
    life,           \* prune_expired or tombstone_episode
    retain,         \* the retention worker
    recall,         \* a retrieval
    withdrawn,      \* episodes dead since the retrieval began (history)
    ingests, failures

rows == <<events, episodes, found, crossed>>
store == <<rows, points>>
tasks == <<ingest, index, life, retain>>
reader == <<recall, withdrawn>>
bounds == <<clock, ingests, failures>>
vars == <<store, tasks, reader, bounds>>

EventRow == [expires : Expiries, deleted : BOOLEAN]
EpisodeRow == [made : SUBSET Events, expires : Expiries, deleted : BOOLEAN]
Point == [made : SUBSET Events, expires : Expiries]

(* What the queries ask of a row: deleted_at IS NULL, and not yet expired. *)
Live(row) == row # NoRow /\ ~row.deleted
Expired(row, now) == row # NoRow /\ row.expires <= now
Current(row, now) == Live(row) /\ ~Expired(row, now)

Idle == [at |-> "idle"]

TypeOK ==
    /\ events \in [Events -> EventRow \cup {NoRow}]
    /\ episodes \in [Episodes -> EpisodeRow \cup {NoRow}]
    /\ found \subseteq Events \cup Episodes /\ crossed \subseteq Events \cup Episodes
    /\ points \in [Episodes -> Point \cup {NoRow}]
    /\ clock \in Times
    /\ ingest.at \in {"idle", "events"}
    /\ index.at \in {"idle", "listed", "embedding", "marking"}
    /\ life.at \in {"idle", "points", "listing", "listed"}
    /\ retain.at \in {"idle", "begun", "listing", "listed", "vectors"}
    /\ recall.at \in {"idle", "hit", "sources", "served"}
    /\ withdrawn \subseteq Episodes
    /\ ingests \in 0..MaxIngests /\ failures \in 0..MaxFailures

Init ==
    /\ events = [e \in Events |-> NoRow] /\ episodes = [g \in Episodes |-> NoRow]
    /\ found = {} /\ crossed = {} /\ points = [g \in Episodes |-> NoRow]
    /\ clock = 0
    /\ ingest = Idle /\ index = Idle /\ life = Idle /\ retain = Idle /\ recall = Idle
    /\ withdrawn = {}
    /\ ingests = 0 /\ failures = 0

Fails == failures < MaxFailures /\ failures' = failures + 1

-----------------------------------------------------------------------------
(* The two upserts. A row that was written with no expiry keeps none while *)
(* its content is the same; otherwise the earlier expiry wins. deleted_at  *)
(* is taken from the new row, which never carries one.                     *)

MergedExpiry(old, new, same) ==
    IF old.expires = Never /\ same THEN Never
    ELSE CHOOSE t \in {old.expires, new} : t <= old.expires /\ t <= new

UpsertedEvent(e, expires) ==
    [expires |-> IF events[e] = NoRow THEN expires
                 ELSE MergedExpiry(events[e], expires, TRUE),
     deleted |-> FALSE]

UpsertedEpisode(g, made, expires) ==
    [made |-> made, deleted |-> FALSE,
     expires |-> IF episodes[g] = NoRow THEN expires
                 ELSE MergedExpiry(episodes[g], expires, episodes[g].made = made)]

(* A clean-up lists the events at first and then the episodes: it holds a  *)
(* list of rows of the sort of k, and has not deleted by it yet.           *)
Holds(task, k) ==
    \/ task.at = "listed"
    \/ task.at = "listing" /\ k \in Events

(* An upsert writes the row and its entry of the projection together.      *)
Projects(k) ==
    /\ found' = found \cup {k}
    /\ crossed' = IF Holds(life, k) \/ Holds(retain, k) THEN crossed \cup {k}
                  ELSE crossed \ {k}

-----------------------------------------------------------------------------
(* An ingestor stores the events of one meeting or bucket one by one, then *)
(* the episode made of the rows that came back. The segments it read carry *)
(* one expiry; segments that expired are not listed.                       *)

(* group_events_into_episodes: one episode per bucket, or per meeting.      *)
Grouped(g, seen) == seen # {} /\ \A e \in seen : EpisodeOf[e] = g

IngestReads(g, observed, expires) ==
    /\ ingest = Idle /\ ingests < MaxIngests /\ ingests' = ingests + 1
    /\ Grouped(g, observed)
    /\ expires > clock
    /\ ingest' = [at |-> "events", episode |-> g, todo |-> observed,
                  stored |-> <<>>, expires |-> expires]
    /\ UNCHANGED <<store, index, life, retain, reader, clock, failures>>

IngestStoresEvent(e) ==
    /\ ingest.at = "events" /\ e \in ingest.todo
    /\ LET row == UpsertedEvent(e, ingest.expires)
       IN /\ events' = [events EXCEPT ![e] = row]
          /\ ingest' = [ingest EXCEPT
                          !.todo = @ \ {e},
                          !.stored = [x \in DOMAIN @ \cup {e} |->
                                        IF x = e THEN row.expires ELSE @[x]]]
    /\ Projects(e)
    /\ UNCHANGED <<episodes, points, index, life, retain, reader, bounds>>

(* _shared_expiry: the earliest, or none when one event never expires.     *)
SharedExpiry(stored) == IF Never \in Range(stored) THEN Never ELSE Min(Range(stored))

IngestStoresEpisode ==
    /\ ingest.at = "events" /\ ingest.todo = {}
    /\ LET g == ingest.episode
       IN /\ episodes' = [episodes EXCEPT ![g] =
                            UpsertedEpisode(g, DOMAIN ingest.stored, SharedExpiry(ingest.stored))]
          /\ Projects(g)
    /\ withdrawn' = withdrawn \ {ingest.episode}
    /\ ingest' = Idle
    /\ UNCHANGED <<events, points, index, life, retain, recall, bounds>>

-----------------------------------------------------------------------------
(* ContextEpisodeIndexer.index: lists the current episodes, and for each   *)
(* reads its events, embeds, writes the point and last the row again: the  *)
(* copy it listed, with the names of the vectors, which decide nothing.    *)

Copied(row) == [made |-> row.made, expires |-> row.expires]

IndexLists ==
    /\ index = Idle
    /\ LET listed == {g \in Episodes : Current(episodes[g], clock)}
       IN /\ listed # {}
          /\ index' = [at |-> "listed", copies |-> [g \in listed |-> Copied(episodes[g])]]
    /\ UNCHANGED <<store, ingest, life, retain, reader, bounds>>

(* The rest of the list, when the work on g is done.                       *)
IndexRest(g) ==
    LET left == DOMAIN index.copies \ {g}
    IN IF left = {} THEN Idle
       ELSE [at |-> "listed", copies |-> [h \in left |-> index.copies[h]]]

(* _complete_source_hashes raises for an event that is gone or expired,    *)
(* which ends the whole call; has_memory passes over an unchanged episode. *)
IndexReads(g) ==
    /\ index.at = "listed" /\ g \in DOMAIN index.copies
    /\ LET copy == index.copies[g]
       IN index' = IF \E e \in copy.made : ~Current(events[e], clock) THEN Idle
                   ELSE IF points[g] = copy THEN IndexRest(g)
                   ELSE [at |-> "embedding", copies |-> index.copies, episode |-> g]
    /\ UNCHANGED <<store, ingest, life, retain, reader, bounds>>

IndexWritesPoint ==
    /\ index.at = "embedding"
    /\ points' = [points EXCEPT ![index.episode] = index.copies[index.episode]]
    /\ index' = [index EXCEPT !.at = "marking"]
    /\ UNCHANGED <<rows, ingest, life, retain, reader, bounds>>

IndexMarksRow ==
    /\ index.at = "marking"
    /\ LET g == index.episode
           copy == index.copies[g]
       IN /\ episodes' = [episodes EXCEPT ![g] =
                            UpsertedEpisode(g, copy.made, copy.expires)]
          /\ Projects(g)
          /\ withdrawn' = withdrawn \ {g}
          /\ index' = IndexRest(g)
    /\ UNCHANGED <<events, points, ingest, life, retain, recall, bounds>>

-----------------------------------------------------------------------------
(* ContextLifecycleService: the points first, then the rows.               *)

TombstoneReads(g) ==
    /\ life = Idle /\ Live(episodes[g])
    /\ life' = [at |-> "points", todo |-> {g}, only |-> {g}, cutoff |-> clock]
    /\ UNCHANGED <<store, ingest, index, retain, reader, bounds>>

PruneLists ==
    /\ life = Idle
    /\ LET due == {g \in Episodes : Live(episodes[g]) /\ Expired(episodes[g], clock)}
       IN life' = [at |-> "points", todo |-> due, only |-> {}, cutoff |-> clock]
    /\ UNCHANGED <<store, ingest, index, retain, reader, bounds>>

LifeDeletesPoint(g) ==
    /\ life.at = "points" /\ g \in life.todo
    /\ points' = [points EXCEPT ![g] = NoRow]
    /\ life' = [life EXCEPT !.todo = @ \ {g}]
    /\ UNCHANGED <<rows, ingest, index, retain, reader, bounds>>

(* Qdrant raises: no local tombstone. Or the database stays locked.        *)
LifeFails ==
    /\ life # Idle
    /\ Fails
    /\ life' = Idle
    /\ UNCHANGED <<store, ingest, index, retain, reader, clock, ingests>>

Tombstoned(table, dead) ==
    [k \in DOMAIN table |-> IF k \in dead THEN [table[k] EXCEPT !.deleted = TRUE]
                            ELSE table[k]]

(* tombstone_context_episode: one row, and its entry with it.              *)
LifeTombstonesOne ==
    /\ life.at = "points" /\ life.only # {} /\ life.todo = {}
    /\ LET dead == {g \in life.only : Live(episodes[g])}
       IN /\ episodes' = Tombstoned(episodes, dead)
          /\ found' = found \ dead
    /\ life' = Idle
    /\ UNCHANGED <<events, crossed, points, ingest, index, retain, reader, bounds>>

(* prune_expired_context_records: the keys of the rows that are due, events *)
(* too, are read in two queries; the transaction tombstones what is due by *)
(* then, and takes out of the projections the keys that were read.         *)
Due(table, cutoff) == {k \in DOMAIN table : Live(table[k]) /\ Expired(table[k], cutoff)}

PruneListsEvents ==
    /\ life.at = "points" /\ life.only = {} /\ life.todo = {}
    /\ life' = [at |-> "listing", cutoff |-> life.cutoff, listed |-> Due(events, life.cutoff)]
    /\ UNCHANGED <<store, ingest, index, retain, reader, bounds>>

PruneListsEpisodes ==
    /\ life.at = "listing"
    /\ life' = [at |-> "listed", cutoff |-> life.cutoff,
                listed |-> life.listed \cup Due(episodes, life.cutoff)]
    /\ UNCHANGED <<store, ingest, index, retain, reader, bounds>>

PruneTombstones ==
    /\ life.at = "listed"
    /\ events' = Tombstoned(events, Due(events, life.cutoff))
    /\ episodes' = Tombstoned(episodes, Due(episodes, life.cutoff))
    /\ found' = found \ life.listed
    /\ life' = Idle
    /\ UNCHANGED <<crossed, points, ingest, index, retain, reader, bounds>>

-----------------------------------------------------------------------------
(* The retention worker of app.py. prune_expired_private_data reads the    *)
(* keys of the rows past their time, tombstoned or not, in two queries and *)
(* takes them out of the projections in the transaction that removes the   *)
(* rows past their time by then. Last, by the time it began at, go the     *)
(* points that carry an expiry.                                            *)

RetainBegins ==
    /\ retain = Idle
    /\ retain' = [at |-> "begun", moment |-> clock]
    /\ UNCHANGED <<store, ingest, index, life, reader, bounds>>

Past(table, moment) == {k \in DOMAIN table : Expired(table[k], moment)}

RetainListsEvents ==
    /\ retain.at = "begun"
    /\ retain' = [at |-> "listing", moment |-> retain.moment, listed |-> Past(events, retain.moment)]
    /\ UNCHANGED <<store, ingest, index, life, reader, bounds>>

RetainListsEpisodes ==
    /\ retain.at = "listing"
    /\ retain' = [at |-> "listed", moment |-> retain.moment,
                  listed |-> retain.listed \cup Past(episodes, retain.moment)]
    /\ UNCHANGED <<store, ingest, index, life, reader, bounds>>

Removed(table, dead) == [k \in DOMAIN table |-> IF k \in dead THEN NoRow ELSE table[k]]

(* Mutant: the full text projection is left to the tombstones.             *)
RetainForgetsSearch ==
    /\ retain.at = "listed"
    /\ events' = Removed(events, Past(events, retain.moment))
    /\ episodes' = Removed(episodes, Past(episodes, retain.moment))
    /\ found' = found
    /\ retain' = [at |-> "vectors", moment |-> retain.moment]
    /\ UNCHANGED <<crossed, points, ingest, index, life, reader, bounds>>

RetainDeletesRows ==
    /\ retain.at = "listed"
    /\ events' = Removed(events, Past(events, retain.moment))
    /\ episodes' = Removed(episodes, Past(episodes, retain.moment))
    /\ found' = found \ retain.listed
    /\ retain' = [at |-> "vectors", moment |-> retain.moment]
    /\ UNCHANGED <<crossed, points, ingest, index, life, reader, bounds>>

(* Mutant: only the points of rows that are still there are swept.         *)
RetainKeepsOrphans ==
    /\ retain.at = "vectors"
    /\ points' = [g \in Episodes |->
                    IF episodes[g] # NoRow /\ Expired(points[g], retain.moment)
                    THEN NoRow ELSE points[g]]
    /\ retain' = Idle
    /\ UNCHANGED <<rows, ingest, index, life, reader, bounds>>

RetainDeletesPoints ==
    /\ retain.at = "vectors"
    /\ points' = [g \in Episodes |->
                    IF Expired(points[g], retain.moment) THEN NoRow ELSE points[g]]
    /\ retain' = Idle
    /\ UNCHANGED <<rows, ingest, index, life, reader, bounds>>

(* Qdrant or the database raises; the next round begins after a backoff.   *)
RetainFails ==
    /\ retain # Idle /\ Fails
    /\ retain' = Idle
    /\ UNCHANGED <<store, ingest, index, life, reader, clock, ingests>>

-----------------------------------------------------------------------------
(* TimeFirstRetriever: Qdrant proposes a point, SQLite confirms the row,   *)
(* then each event of the row, and only then the row read becomes an item. *)

RecallHits(g) ==
    /\ recall.at \in {"idle", "served"} /\ points[g] # NoRow
    /\ recall' = [at |-> "hit", episode |-> g, made |-> points[g].made]
    /\ withdrawn' = {h \in Episodes : ~Live(episodes[h])}
    /\ UNCHANGED <<store, tasks, bounds>>

(* The rest of a retrieval: its history ends with it.                      *)
RecallGoes(next) ==
    /\ recall' = next
    /\ withdrawn' = IF next = Idle THEN {} ELSE withdrawn
    /\ UNCHANGED <<store, tasks, bounds>>

SourcesLeft(row) == [at |-> "sources", episode |-> recall.episode, now |-> clock, left |-> row.made]

(* Mutant: the tombstone of the row is not looked at.                      *)
RecallReadsAnyEpisode ==
    /\ recall.at = "hit"
    /\ LET row == episodes[recall.episode]
       IN RecallGoes(IF row # NoRow /\ ~Expired(row, clock) /\ row.made = recall.made
                     THEN SourcesLeft(row) ELSE Idle)

RecallReadsEpisode ==
    /\ recall.at = "hit"
    /\ LET row == episodes[recall.episode]
       IN RecallGoes(IF Current(row, clock) /\ row.made = recall.made
                     THEN SourcesLeft(row) ELSE Idle)

RecallReadsEvent(e) ==
    /\ recall.at = "sources" /\ e \in recall.left
    /\ RecallGoes(IF Current(events[e], recall.now) THEN [recall EXCEPT !.left = @ \ {e}]
                  ELSE Idle)

RecallServes ==
    /\ recall.at = "sources" /\ recall.left = {}
    /\ RecallGoes([at |-> "served", episode |-> recall.episode])

-----------------------------------------------------------------------------
Tick ==
    /\ clock < MaxTime /\ clock' = clock + 1
    /\ UNCHANGED <<store, tasks, reader, ingests, failures>>

(* A command of the CLI is killed, or a provider raises in the middle.     *)
Killed ==
    /\ ingest # Idle \/ index # Idle
    /\ Fails
    /\ ingest' = Idle /\ index' = Idle
    /\ UNCHANGED <<store, life, retain, reader, clock, ingests>>

Ingesting ==
    \/ \E g \in Episodes, seen \in SUBSET Events, x \in Expiries : IngestReads(g, seen, x)
    \/ \E e \in Events : IngestStoresEvent(e)
    \/ IngestStoresEpisode

Indexing ==
    \/ IndexLists \/ IndexWritesPoint \/ IndexMarksRow
    \/ \E g \in Episodes : IndexReads(g)

Lifecycle ==
    \/ PruneLists \/ PruneListsEvents \/ PruneListsEpisodes \/ PruneTombstones
    \/ LifeTombstonesOne \/ LifeFails
    \/ \E g \in Episodes : TombstoneReads(g) \/ LifeDeletesPoint(g)

RetainActs ==
    \/ RetainBegins \/ RetainListsEvents \/ RetainListsEpisodes \/ RetainDeletesRows
    \/ RetainDeletesPoints
Retention == RetainActs \/ RetainFails

Recalling ==
    \/ RecallReadsEpisode \/ RecallServes
    \/ \E g \in Episodes : RecallHits(g)
    \/ \E e \in Events : RecallReadsEvent(e)

Next == Ingesting \/ Indexing \/ Lifecycle \/ Retention \/ Recalling \/ Tick \/ Killed

(* The worker of app.py sleeps and starts over for ever; a round whose     *)
(* calls do not raise reaches the vectors.                                 *)
Fairness == WF_vars(RetainActs)

Spec == Init /\ [][Next]_vars /\ Fairness

-----------------------------------------------------------------------------
(* A row that may be answered with.                                        *)
LiveRow(k) == IF k \in Events THEN Live(events[k]) ELSE Live(episodes[k])

(* The full text projections hold exactly the rows a search may answer     *)
(* with: none is missing and none is left of a row that is gone, whichever *)
(* of the ingestors, the indexer and the two clean-ups wrote last. Only a   *)
(* row that was written last while a clean-up held its list may differ.    *)
SearchMatchesRows ==
    \A k \in (Events \cup Episodes) \ crossed : k \in found <=> LiveRow(k)

(* A point without a row is harmless: an episode that was removed or       *)
(* tombstoned before a search began, and was not written again since, is   *)
(* not among the answers, although its point may be found.                 *)
WithdrawnIsNotServed == recall.at = "served" => recall.episode \notin withdrawn

(* A point whose time has passed is removed in the end, also one that an   *)
(* indexer wrote after the sweep that removed its row.                     *)
ExpiredPointsGo ==
    \A g \in Episodes : Expired(points[g], clock) ~> ~Expired(points[g], clock)
=============================================================================
