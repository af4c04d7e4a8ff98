---------------------------- MODULE CapabilityIndex ----------------------------
(***************************************************************************)
(* The index of the capabilities in the vector store (capability_index.py):*)
(* one point per action, under an id that does not depend on the catalogue *)
(* or on the model, made by whichever process came last; a start that may  *)
(* fail at every await, and the queries of one that did not.               *)
(***************************************************************************)
EXTENDS Naturals, Sequences, FiniteSets, SequencesExt

CONSTANTS
    Catalogues,     \* sets of actions: a catalogue stands for its hash
    Models,         \* embedding models
    QueryTexts,
    QueryCacheSize,
    NoPoint

(* The cache holds at least the query in use.                              *)
ASSUME CacheAssumption == QueryCacheSize \in Nat \ {0}

VARIABLES
    catalogue, model,   \* of this process
    start,              \* where start() is
    collection,         \* the dimension of the collection, 0 when there is none
    points,             \* per action
    cache,              \* _query_embedding_cache, the latest used last
    answer              \* what the last query brought

indexVars == <<catalogue, model, start, collection, points, cache, answer>>

Actions == UNION Catalogues
Dimensions == {1, 2}
DimensionOf(m) == IF m = "other size" THEN 2 ELSE 1

IndexTypeOK ==
    /\ catalogue \in Catalogues /\ model \in Models
    /\ start \in {"down", "preparing", "embedding", "upserting", "pruning", "ready", "failed"}
    /\ collection \in Dimensions \cup {0}
    /\ points \in [Actions -> {NoPoint} \cup [of : Catalogues, by : Models, size : Dimensions]]
    /\ cache \in Seq(QueryTexts) /\ Len(cache) <= QueryCacheSize
    /\ answer \subseteq Actions

CatalogueInit ==
    /\ catalogue \in Catalogues /\ model \in Models /\ start = "down"
    /\ collection = 0 /\ points = [a \in Actions |-> NoPoint]
    /\ cache = <<>> /\ answer = {}

Own(size) == [of |-> catalogue, by |-> model, size |-> size]

(* A later version has another catalogue, and the server of the models may *)
(* have another one loaded.                                                *)
ProcessBegins(c, m) ==
    /\ start = "down" /\ start' = "preparing"
    /\ catalogue' = c /\ model' = m /\ cache' = <<>> /\ answer' = {}
    /\ UNCHANGED <<collection, points>>

(* Mutant: the name of the model is not compared.                          *)
CurrentByHash == \A a \in catalogue : points[a] # NoPoint /\ points[a].of = catalogue

CatalogPayloadIsCurrent == \A a \in catalogue : points[a] = Own(collection)

PrepareExisting ==
    /\ start = "preparing"
    /\ start' = IF collection # 0 /\ CatalogPayloadIsCurrent THEN "pruning" ELSE "embedding"
    /\ UNCHANGED <<catalogue, model, collection, points, cache, answer>>

(* A collection of another size is not made anew.                          *)
EnsureCollection ==
    /\ start = "embedding"
    /\ IF collection \in {0, DimensionOf(model)}
       THEN start' = "upserting" /\ collection' = DimensionOf(model)
       ELSE start' = "failed" /\ UNCHANGED collection
    /\ UNCHANGED <<catalogue, model, points, cache, answer>>

Written(S) == [a \in Actions |-> IF a \in S THEN Own(collection) ELSE points[a]]

Upserted ==
    /\ start = "upserting" /\ start' = "pruning" /\ points' = Written(catalogue)
    /\ UNCHANGED <<catalogue, model, collection, cache, answer>>

(* The answer is lost; what was sent may be there, all or in part.         *)
UpsertCut(S) ==
    /\ start = "upserting" /\ S \subseteq catalogue
    /\ start' = "failed" /\ points' = Written(S)
    /\ UNCHANGED <<catalogue, model, collection, cache, answer>>

DeleteStaleCatalogPoints ==
    /\ start = "pruning" /\ start' = "ready" /\ cache' = <<>>
    /\ points' = [a \in Actions |->
                    IF points[a] # NoPoint /\ points[a].of # catalogue THEN NoPoint ELSE points[a]]
    /\ UNCHANGED <<catalogue, model, collection, answer>>

StartFails ==
    /\ start \in {"preparing", "embedding", "pruning"} /\ start' = "failed"
    /\ UNCHANGED <<catalogue, model, collection, points, cache, answer>>

ProcessEnds ==
    /\ start # "down" /\ start' = "down" /\ answer' = {}
    /\ UNCHANGED <<catalogue, model, collection, points, cache>>

(* Mutant: room is made for one vector too many.                           *)
EmbedQueryLate(q) ==
    LET used == Append(RemoveFirst(cache, q), q)
    IN IF Len(used) > QueryCacheSize + 1 THEN Tail(used) ELSE used

EmbedQuery(q) ==
    LET used == Append(RemoveFirst(cache, q), q)
    IN IF Len(used) > QueryCacheSize THEN Tail(used) ELSE used

(* The points that carry the hash in use; one space that does not answer   *)
(* fails the search.                                                       *)
SearchWithVectors(q) ==
    /\ start = "ready" /\ cache' = EmbedQuery(q)
    /\ \E hits \in SUBSET {a \in catalogue : points[a] # NoPoint /\ points[a].of = catalogue} :
         answer' = hits
    /\ UNCHANGED <<catalogue, model, start, collection, points>>

CatalogueNext ==
    \/ \E c \in Catalogues, m \in Models : ProcessBegins(c, m)
    \/ PrepareExisting \/ EnsureCollection \/ Upserted
    \/ \E S \in SUBSET catalogue : UpsertCut(S)
    \/ DeleteStaleCatalogPoints \/ StartFails \/ ProcessEnds
    \/ \E q \in QueryTexts : SearchWithVectors(q)

CatalogueSpec == CatalogueInit /\ [][CatalogueNext]_indexVars

-----------------------------------------------------------------------------
(* A ready index holds its own catalogue whole, and nothing else: every    *)
(* point was embedded by the model that embeds the queries, whatever       *)
(* processes and half-done starts came before.                             *)
IndexIsWhole ==
    start = "ready" =>
        \A a \in Actions : points[a] = IF a \in catalogue THEN Own(DimensionOf(model)) ELSE NoPoint
=============================================================================
