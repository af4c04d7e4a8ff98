---------------------------- MODULE ContextEntities ----------------------------
(***************************************************************************)
(* The entities the context may name (context/entity_registry.py and the   *)
(* entity tables of memory.py): candidates that gather evidence until they *)
(* are ready for review, the reviewers who approve or reject them, and the *)
(* lexicon import. A SELECT of the store is no part of the transaction that *)
(* follows: a submission reads the row of its name, merges and writes what *)
(* it merged; an approval is three calls of the store. Others work, or the *)
(* process ends, in between.                                               *)
(***************************************************************************)
EXTENDS Naturals, FiniteSets

CONSTANTS
    Names,          \* entities, up to kind and normalize_entity_text
    Spellings,      \* how a name is written
    Normal,         \* normalize_entity_text: Spellings -> normal forms
    Sources,        \* evidence_source_ids
    Offers,         \* what a submission or an entry of the lexicon brings
    Submitters, Reviewers,
    NoRow

VARIABLES
    candidates,     \* context_entity_candidates
    entities,       \* context_entities
    aliasRows,      \* context_entity_aliases: name and normal form
    submit,         \* upsert_context_entity_candidate of a submitter
    review,         \* approve_candidate of a reviewer, between its awaits
    brought         \* the offers written for a name (history)

registryVars == <<candidates, entities, aliasRows, submit, review, brought>>

(* A candidate has at least one source.                                    *)
Offer == [written : SUBSET Spellings, sources : SUBSET Sources \ {{}}, strong : 0..1]
ASSUME OffersAssumption == Offers \subseteq Offer

Candidate == [written : SUBSET Spellings, sources : SUBSET Sources, strong : 0..1,
              status : {"pending", "approved", "rejected"}]
Entity == [written : SUBSET Spellings, sources : SUBSET Sources, by : {"review", "lexicon"}]
NoSubmit == [at |-> "idle"]
NoReview == [at |-> "idle", name |-> NoRow, seen |-> NoRow]

EntitiesTypeOK ==
    /\ candidates \in [Names -> Candidate \cup {NoRow}]
    /\ entities \in [Names -> Entity \cup {NoRow}]
    /\ aliasRows \subseteq Names \X {Normal[s] : s \in Spellings}
    /\ \A u \in Submitters : submit[u].at \in {"idle", "read"}
    /\ \A v \in Reviewers : review[v].at \in {"idle", "read", "stored"}
    /\ brought \in [Names -> SUBSET Offers]

RegistryInit ==
    /\ candidates = [n \in Names |-> NoRow] /\ entities = [n \in Names |-> NoRow]
    /\ aliasRows = {} /\ brought = [n \in Names |-> {}]
    /\ submit = [u \in Submitters |-> NoSubmit] /\ review = [v \in Reviewers |-> NoReview]

-----------------------------------------------------------------------------
(* A submission reads the row of its name ...                              *)
SubmitReads(u, n, offer) ==
    /\ submit[u] = NoSubmit
    /\ submit' = [submit EXCEPT ![u] = [at |-> "read", name |-> n, offer |-> offer,
                                        seen |-> candidates[n]]]
    /\ UNCHANGED <<candidates, entities, aliasRows, review, brought>>

SubmitEnds(u) ==
    /\ brought' = [brought EXCEPT ![submit[u].name] = @ \cup {submit[u].offer}]
    /\ submit' = [submit EXCEPT ![u] = NoSubmit]
    /\ UNCHANGED <<entities, aliasRows, review>>

(* ... and where there was none inserts one: a row that has come since      *)
(* breaks its key.                                                         *)
SubmitInserts(u) ==
    /\ submit[u].at = "read" /\ submit[u].seen = NoRow /\ candidates[submit[u].name] = NoRow
    /\ candidates' =
         [candidates EXCEPT ![submit[u].name] =
            [written |-> submit[u].offer.written, sources |-> submit[u].offer.sources,
             strong |-> submit[u].offer.strong, status |-> "pending"]]
    /\ SubmitEnds(u)

(* Mutant: the status is written with the rest of the row that was read.   *)
MergedWithStatus(seen, offer, row) ==
    [written |-> seen.written \cup offer.written, sources |-> seen.sources \cup offer.sources,
     strong |-> IF seen.strong > offer.strong THEN seen.strong ELSE offer.strong,
     status |-> seen.status]

(* The UPDATE: what was read and the offer, over what there is by now. The  *)
(* status is no part of it, a decision stays.                              *)
Merged(seen, offer, row) ==
    [written |-> seen.written \cup offer.written, sources |-> seen.sources \cup offer.sources,
     strong |-> IF seen.strong > offer.strong THEN seen.strong ELSE offer.strong,
     status |-> row.status]

SubmitMerges(u) ==
    /\ submit[u].at = "read" /\ submit[u].seen # NoRow
    /\ candidates' = [candidates EXCEPT ![submit[u].name] =
                        Merged(submit[u].seen, submit[u].offer, @)]
    /\ SubmitEnds(u)

(* The key is broken, the database stays locked, or the process ends.      *)
SubmitBreaks(u) ==
    /\ submit[u].at = "read" /\ submit' = [submit EXCEPT ![u] = NoSubmit]
    /\ UNCHANGED <<candidates, entities, aliasRows, review, brought>>

ReadyForReview(row) == Cardinality(row.sources) >= 2 /\ row.strong >= 1

(* upsert_context_entity: the row and its alias rows in one transaction,   *)
(* the aliases replaced. Two spellings of one normal form break the key of *)
(* the alias table, and the transaction with it.                           *)
Distinct(written) == \A s, t \in written : Normal[s] = Normal[t] => s = t

UpsertEntity(n, written, sources, by) ==
    /\ entities' = [entities EXCEPT ![n] = [written |-> written, sources |-> sources, by |-> by]]
    /\ aliasRows' = {a \in aliasRows : a[1] # n} \cup {<<n, Normal[s]>> : s \in written}

(* Mutant: the candidate is marked before the entity is stored.            *)
ApproveMarksFirst(v, n) ==
    /\ review[v].at = "idle" /\ candidates[n] # NoRow
    /\ candidates[n].status = "pending" /\ ReadyForReview(candidates[n])
    /\ review' = [review EXCEPT ![v] = [at |-> "read", name |-> n, seen |-> candidates[n]]]
    /\ candidates' = [candidates EXCEPT ![n].status = "approved"]
    /\ UNCHANGED <<entities, aliasRows, submit, brought>>

(* approve_candidate: reads the pending rows, stores the entity as it was  *)
(* read, marks the candidate.                                              *)
ApproveReads(v, n) ==
    /\ review[v].at = "idle" /\ candidates[n] # NoRow
    /\ candidates[n].status = "pending" /\ ReadyForReview(candidates[n])
    /\ review' = [review EXCEPT ![v] = [at |-> "read", name |-> n, seen |-> candidates[n]]]
    /\ UNCHANGED <<candidates, entities, aliasRows, submit, brought>>

ApproveStores(v) ==
    /\ review[v].at = "read" /\ Distinct(review[v].seen.written)
    /\ UpsertEntity(review[v].name, review[v].seen.written, review[v].seen.sources, "review")
    /\ review' = [review EXCEPT ![v].at = "stored"]
    /\ UNCHANGED <<candidates, submit, brought>>

ApproveMarks(v) ==
    /\ review[v].at = "stored"
    /\ candidates' = [candidates EXCEPT ![review[v].name].status = "approved"]
    /\ review' = [review EXCEPT ![v] = NoReview]
    /\ UNCHANGED <<entities, aliasRows, submit, brought>>

(* The transaction of ApproveStores fails, or the process ends.            *)
ApproveBreaks(v) ==
    /\ review[v].at # "idle" /\ review' = [review EXCEPT ![v] = NoReview]
    /\ UNCHANGED <<candidates, entities, aliasRows, submit, brought>>

(* reject_candidate asks neither for the status nor for an entity.         *)
RejectCandidate(n) ==
    /\ candidates[n] # NoRow
    /\ candidates' = [candidates EXCEPT ![n].status = "rejected"]
    /\ UNCHANGED <<entities, aliasRows, submit, review, brought>>

(* One approved entry of import_approved_lexicon.                          *)
ImportEntry(n, offer) ==
    /\ Distinct(offer.written) /\ UpsertEntity(n, offer.written, offer.sources, "lexicon")
    /\ UNCHANGED <<candidates, submit, review, brought>>

Submits == \E u \in Submitters :
    \/ \E n \in Names, offer \in Offers : SubmitReads(u, n, offer)
    \/ SubmitInserts(u) \/ SubmitMerges(u) \/ SubmitBreaks(u)
Reviews == \E v \in Reviewers :
    \/ \E n \in Names : ApproveReads(v, n)
    \/ ApproveStores(v) \/ ApproveMarks(v) \/ ApproveBreaks(v)
Rejects == \E n \in Names : RejectCandidate(n)
Imports == \E n \in Names, offer \in Offers : ImportEntry(n, offer)

RegistryNext == Submits \/ Reviews \/ Rejects \/ Imports

RegistrySpec == RegistryInit /\ [][RegistryNext]_registryVars

-----------------------------------------------------------------------------
(* resolve_context_entities: whom a word may mean.                         *)
Resolves(s) == {n \in Names : <<n, Normal[s]>> \in aliasRows}

(* "Candidates never become canonical silently" (entity_registry.py:14):   *)
(* whatever was lost, rejected or imported since, an entity a review made  *)
(* has two sources, each of them and each spelling was submitted for its   *)
(* name, and a strong signal with them; and a word resolves to an entity   *)
(* only by a spelling of that entity. The candidate may have lost what was *)
(* approved: of two submissions at once, those of one are overwritten.     *)
CanonicalWasSubmitted ==
    /\ \A n \in Names :
         entities[n] # NoRow /\ entities[n].by = "review" =>
           /\ Cardinality(entities[n].sources) >= 2
           /\ entities[n].sources \subseteq UNION {offer.sources : offer \in brought[n]}
           /\ entities[n].written \subseteq UNION {offer.written : offer \in brought[n]}
           /\ \E offer \in brought[n] : offer.strong = 1
    /\ \A s \in Spellings : \A n \in Resolves(s) :
         entities[n] # NoRow /\ \E t \in entities[n].written : Normal[t] = Normal[s]

(* A candidate is called approved only when its entity is there: an        *)
(* approval that is cut anywhere may be repeated, and never the other way  *)
(* round (a mark without an entity could not be approved again).           *)
ApprovedIsCanonical ==
    \A n \in Names :
        candidates[n] # NoRow /\ candidates[n].status = "approved" => entities[n] # NoRow

(* An entity a review approved rests on what was submitted for it, and a   *)
(* candidate that is called approved has its entity.                       *)
CanonicalIsBacked == CanonicalWasSubmitted /\ ApprovedIsCanonical

(* A candidate that was decided on does not come back for review, also not *)
(* by a submission that read it before the decision and writes it after.   *)
DecisionsStand ==
    [][\A n \in Names :
         candidates[n] # NoRow /\ candidates[n].status # "pending" =>
           candidates'[n] # NoRow /\ candidates'[n].status # "pending"]_candidates
=============================================================================
