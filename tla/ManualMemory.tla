------------------------------ MODULE ManualMemory ------------------------------
(***************************************************************************)
(* Memories the user writes down (manual_memory.py): a row of SQLite and,  *)
(* when a local vector store is configured, a point of it with the same    *)
(* id. The two stores share no transaction: creating writes the row and    *)
(* then the point, deleting removes the point and then the row, and the    *)
(* start of the process writes the points that are missing.                *)
(***************************************************************************)
EXTENDS Naturals, FiniteSets

CONSTANTS
    MaxMemories,    \* bound on the memories created
    MaxTroubles     \* bound on calls that raise and on restarts

VARIABLES
    memories,       \* ids of the rows of the table
    vectors,        \* ids of the points
    indexing,       \* ids whose create() awaits its embeddings
    deleting,       \* delete(): where it is, per id
    created,        \* the last id given out (AUTOINCREMENT: none comes twice)
    available,      \* private_backend_available() of this process
    syncing,        \* ids sync() has yet to look at; the API answers after it
    excused,        \* history: deleted while create() ran, or without the store
    troubles

memoryVars == <<memories, vectors, indexing, deleting, created, available, syncing,
                excused, troubles>>

MemoryIds == 1..MaxMemories

Init ==
    /\ memories = {} /\ vectors = {} /\ indexing = {} /\ syncing = {} /\ excused = {}
    /\ deleting = [i \in MemoryIds |-> "no"]
    /\ created = 0 /\ troubles = 0
    /\ available \in BOOLEAN

MemoryTypeOK ==
    /\ memories \subseteq 1..created /\ vectors \subseteq 1..created /\ created \in 0..MaxMemories
    /\ indexing \subseteq MemoryIds /\ syncing \subseteq memories /\ excused \subseteq MemoryIds
    /\ deleting \in [MemoryIds -> {"no", "looked", "unpointed"}]
    /\ available \in BOOLEAN /\ troubles \in 0..MaxTroubles

Serving == syncing = {}
Trouble == troubles < MaxTroubles /\ troubles' = troubles + 1

-----------------------------------------------------------------------------
MemoryCreated ==
    /\ Serving /\ created < MaxMemories
    /\ created' = created + 1
    /\ memories' = memories \cup {created'}
    /\ indexing' = IF available THEN indexing \cup {created'} ELSE indexing
    /\ UNCHANGED <<vectors, deleting, available, syncing, excused, troubles>>

MemoryIndexed(i) ==
    /\ i \in indexing
    /\ vectors' = vectors \cup {i}
    /\ indexing' = indexing \ {i}
    /\ UNCHANGED <<memories, deleting, created, available, syncing, excused, troubles>>

(* Embeddings or the store raise: the row stays, the error is logged.      *)
IndexingFails(i) ==
    /\ i \in indexing /\ Trouble
    /\ indexing' = indexing \ {i}
    /\ UNCHANGED <<memories, vectors, deleting, created, available, syncing, excused>>

DeletionLooks(i) ==
    /\ Serving /\ i \in memories /\ deleting[i] = "no"
    /\ deleting' = [deleting EXCEPT ![i] = "looked"]
    /\ UNCHANGED <<memories, vectors, indexing, created, available, syncing, excused, troubles>>

DeletionUnpoints(i) ==
    /\ deleting[i] = "looked"
    /\ vectors' = IF available THEN vectors \ {i} ELSE vectors
    /\ deleting' = [deleting EXCEPT ![i] = "unpointed"]
    /\ excused' = IF i \in indexing \/ ~available THEN excused \cup {i} ELSE excused
    /\ UNCHANGED <<memories, indexing, created, available, syncing, troubles>>

DeletionEnds(i) ==
    /\ deleting[i] = "unpointed"
    /\ memories' = memories \ {i}
    /\ deleting' = [deleting EXCEPT ![i] = "no"]
    /\ UNCHANGED <<vectors, indexing, created, available, syncing, excused, troubles>>

DeletionFails(i) ==
    /\ deleting[i] # "no" /\ Trouble
    /\ deleting' = [deleting EXCEPT ![i] = "no"]
    /\ UNCHANGED <<memories, vectors, indexing, created, available, syncing, excused>>

(* The lifespan of app.py: sync() over every row, before the first request. *)
MemoryRestarted(configured) ==
    /\ Trouble
    /\ available' = configured
    /\ syncing' = IF configured THEN memories ELSE {}
    /\ indexing' = {} /\ deleting' = [i \in MemoryIds |-> "no"]
    /\ UNCHANGED <<memories, vectors, created, excused>>

SyncIndexes(i) ==
    /\ i \in syncing
    /\ vectors' = vectors \cup {i}
    /\ syncing' = syncing \ {i}
    /\ UNCHANGED <<memories, indexing, deleting, created, available, excused, troubles>>

SyncFails ==
    /\ ~Serving /\ Trouble /\ syncing' = {}
    /\ UNCHANGED <<memories, vectors, indexing, deleting, created, available, excused>>

Next ==
    \/ MemoryCreated \/ SyncFails
    \/ \E configured \in BOOLEAN : MemoryRestarted(configured)
    \/ \E i \in MemoryIds :
         \/ MemoryIndexed(i) \/ IndexingFails(i) \/ SyncIndexes(i)
         \/ DeletionLooks(i) \/ DeletionUnpoints(i) \/ DeletionEnds(i) \/ DeletionFails(i)

Spec == Init /\ [][Next]_memoryVars

-----------------------------------------------------------------------------
(* Whatever fails or is cut, a point is found again through its row: it    *)
(* never outlives the row, except for what `excused` names.                *)
PointsHaveRows == vectors \subseteq memories \cup excused
=============================================================================
