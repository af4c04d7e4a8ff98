----------------------------- MODULE StoresProofs -----------------------------
(***************************************************************************)
(* What the components of MCStores promise, for every value of their       *)
(* constants, one section per component.                                   *)
(***************************************************************************)
EXTENDS MCStores, MeetingRecorderProofs, FiniteSetTheorems, SequenceTheorems,
        WellFoundedInduction, TLAPS

(***************************************************************************)
(* RetentionRollout, for every grace period: the retention worker deletes  *)
(* nothing before the grace of the present series of destructive starts is *)
(* over.                                                                   *)
(***************************************************************************)
RolloutBounds == Grace \in Nat /\ MaxDays \in Nat

(* The series is older than whatever anchor a start may take: the anchor   *)
(* of this process, once it is known, and the saved one, while the saved   *)
(* mode lets the next start take it.                                       *)
SeriesIsOlder ==
    /\ agreed # Never => agreed <= day
    /\ startup # "down" /\ mode = "destructive" => agreed # Never /\ agreed <= anchor
    /\ savedMode = "destructive" => agreed # Never /\ agreed <= savedAnchor
    /\ startup = "anchored" /\ mode = "destructive" => savedAnchor = anchor

RolloutInv == RolloutTypeOK /\ SeriesIsOlder

LEMMA RolloutInit == ASSUME RolloutBounds PROVE RolloutStart => RolloutInv
  BY DEF RolloutBounds, RolloutStart, RolloutInv, RolloutTypeOK, SeriesIsOlder, Modes, Days, Never

LEMMA RolloutTypes ==
  ASSUME RolloutBounds, RolloutTypeOK, [RolloutNext]_rolloutVars
  PROVE  RolloutTypeOK'
<1>. USE DEF RolloutBounds, RolloutTypeOK, Modes, Days, Never
<1>1. CASE DayPasses
  BY <1>1 DEF DayPasses
<1>2. CASE AnchorSaved
  BY <1>2 DEF AnchorSaved
<1>3. CASE ModeSaved
  BY <1>3 DEF ModeSaved
<1>4. CASE RetentionIterates
  BY <1>4 DEF RetentionIterates
<1>5. CASE ProcessEnds
  BY <1>5 DEF ProcessEnds
<1>6. ASSUME NEW m \in Modes, RolloutRead(m) PROVE RolloutTypeOK'
  BY <1>6 DEF RolloutRead, AnchorFor
<1>7. CASE UNCHANGED rolloutVars
  BY <1>7 DEF rolloutVars
<1>. QED BY <1>1, <1>2, <1>3, <1>4, <1>5, <1>6, <1>7 DEF RolloutNext

LEMMA RolloutSeries ==
  ASSUME RolloutBounds, RolloutInv, [RolloutNext]_rolloutVars
  PROVE  SeriesIsOlder'
<1>. USE DEF RolloutBounds, RolloutInv, RolloutTypeOK, SeriesIsOlder, Modes, Days, Never
<1>1. CASE DayPasses
  BY <1>1 DEF DayPasses
<1>2. CASE AnchorSaved
  BY <1>2 DEF AnchorSaved
<1>3. CASE ModeSaved
  BY <1>3 DEF ModeSaved
<1>4. CASE RetentionIterates
  BY <1>4 DEF RetentionIterates
<1>5. CASE ProcessEnds
  BY <1>5 DEF ProcessEnds
<1>6. ASSUME NEW m \in Modes, RolloutRead(m) PROVE SeriesIsOlder'
  <2>1. CASE m = "destructive" /\ savedMode = "destructive" /\ savedAnchor # Never
    BY <1>6, <2>1 DEF RolloutRead, AnchorFor
  <2>2. CASE m = "destructive" /\ ~(savedMode = "destructive" /\ savedAnchor # Never)
    <3>1. anchor' = day
      <4>1. AnchorFor(m) = day
        BY <2>2, Zenon DEF AnchorFor
      <4>. QED BY <1>6, <4>1 DEF RolloutRead
    <3>2. day \in Nat /\ MaxDays \in Nat /\ day <= MaxDays /\ agreed' # Never /\ agreed' <= day
      <4>1. CASE agreed = Never
        BY <1>6, <2>2, <4>1 DEF RolloutRead
      <4>2. CASE agreed # Never
        BY <1>6, <2>2, <4>2 DEF RolloutRead
      <4>. QED BY <4>1, <4>2
    <3>3. savedMode' = "destructive" => agreed' <= savedAnchor'
      <4>1. CASE agreed = Never
        BY <1>6, <4>1 DEF RolloutRead
      <4>2. CASE agreed # Never
        BY <1>6, <4>2 DEF RolloutRead
      <4>. QED BY <4>1, <4>2
    <3>. QED BY <1>6, <2>2, <3>1, <3>2, <3>3 DEF RolloutRead
  <2>3. CASE m # "destructive"
    BY <1>6, <2>3 DEF RolloutRead
  <2>. QED BY <2>1, <2>2, <2>3
<1>7. CASE UNCHANGED rolloutVars
  BY <1>7 DEF rolloutVars
<1>. QED BY <1>1, <1>2, <1>3, <1>4, <1>5, <1>6, <1>7 DEF RolloutNext

(* The variables have the shape of app_state and of the settings.          *)
THEOREM RolloutTypeCorrect == ASSUME RolloutBounds PROVE RolloutSpec => []RolloutTypeOK
<1>1. RolloutStart => RolloutTypeOK
  BY RolloutInit DEF RolloutInv
<1>2. RolloutTypeOK /\ [RolloutNext]_rolloutVars => RolloutTypeOK'
  BY RolloutTypes
<1>. QED BY <1>1, <1>2, PTL DEF RolloutSpec

(* Destructive pruning always receives a fresh grace: only an iteration    *)
(* deletes, and its anchor is not older than the series.                   *)
THEOREM GraceIsFresh == ASSUME RolloutBounds PROVE RolloutSpec => FreshGrace
<1>1. RolloutStart => RolloutInv
  BY RolloutInit
<1>2. RolloutInv /\ [RolloutNext]_rolloutVars => RolloutInv'
  BY RolloutTypes, RolloutSeries DEF RolloutInv
<1>3. RolloutInv /\ [RolloutNext]_rolloutVars
        => [deletions' # deletions => agreed # Never /\ day >= agreed + Grace]_rolloutVars
  <2>. SUFFICES ASSUME RolloutInv, RolloutNext, deletions' # deletions
                PROVE  agreed # Never /\ day >= agreed + Grace
    BY DEF rolloutVars
  <2>1. RetentionIterates
    BY DEF RolloutNext, DayPasses, AnchorSaved, ModeSaved, ProcessEnds, RolloutRead
  <2>. QED BY <2>1 DEF RetentionIterates, RolloutBounds, RolloutInv, RolloutTypeOK, SeriesIsOlder,
              Modes, Days, Never
<1>. QED BY <1>1, <1>2, <1>3, PTL DEF RolloutSpec, FreshGrace

(***************************************************************************)
(* ContextEntities, for every set of names, spellings, sources, offers,    *)
(* submitters and reviewers: nothing is canonical that was not submitted,  *)
(* and a decision stays.                                                   *)
(***************************************************************************)
(* A row is none or one.                                                   *)
Rows == NoRow \notin Candidate /\ NoRow \notin Entity

(* What a row has was brought by these offers, whoever holds the row. That *)
(* a row keeps what it has is not so: a submission may take it back.       *)
Within(row, offers) ==
    /\ row.sources \subseteq UNION {offer.sources : offer \in offers}
    /\ row.written \subseteq UNION {offer.written : offer \in offers}
    /\ row.strong >= 1 => \E offer \in offers : offer.strong = 1

SubmitShape ==
    submit \in [Submitters -> {NoSubmit} \cup [at : {"read"}, name : Names, offer : Offers,
                                                seen : Candidate \cup {NoRow}]]
ReviewShape ==
    review \in [Reviewers -> [at : {"idle", "read", "stored"}, name : Names \cup {NoRow},
                              seen : Candidate \cup {NoRow}]]

RowsAreWithin ==
    \A n \in Names : candidates[n] # NoRow => Within(candidates[n], brought[n])

(* A submission that read a row holds an earlier state of one that stays.  *)
SubmitsAreWithin ==
    \A u \in Submitters : submit[u].at = "read" /\ submit[u].seen # NoRow =>
        /\ candidates[submit[u].name] # NoRow
        /\ Within(submit[u].seen, brought[submit[u].name])

(* A reviewer at work holds an earlier state of a row that was ready then; *)
(* once it is stored, the entity is there.                                 *)
ReviewsAreBacked ==
    \A v \in Reviewers : review[v].at # "idle" =>
        /\ review[v].name \in Names /\ review[v].seen \in Candidate
        /\ ReadyForReview(review[v].seen)
        /\ candidates[review[v].name] # NoRow
        /\ Within(review[v].seen, brought[review[v].name])
        /\ review[v].at = "stored" => entities[review[v].name] # NoRow

ReviewedIsBacked(n) ==
    entities[n] # NoRow /\ entities[n].by = "review" =>
        /\ Cardinality(entities[n].sources) >= 2
        /\ entities[n].sources \subseteq UNION {offer.sources : offer \in brought[n]}
        /\ entities[n].written \subseteq UNION {offer.written : offer \in brought[n]}
        /\ \E offer \in brought[n] : offer.strong = 1

AliasesAreSpelled ==
    \A a \in aliasRows : /\ a[1] \in Names /\ entities[a[1]] # NoRow
                         /\ \E t \in entities[a[1]].written : Normal[t] = a[2]

EntitiesInv ==
    /\ EntitiesTypeOK /\ SubmitShape /\ ReviewShape
    /\ RowsAreWithin /\ SubmitsAreWithin /\ ReviewsAreBacked
    /\ \A n \in Names : ReviewedIsBacked(n)
    /\ ApprovedIsCanonical /\ AliasesAreSpelled

-----------------------------------------------------------------------------
(* What the offers of a name show, more of them show too.                  *)
LEMMA WithinMore ==
  ASSUME NEW row, NEW few, NEW more, few \subseteq more, Within(row, few)
  PROVE  Within(row, more)
  BY DEF Within

(* A new row is what its offer has, a merged one what was read and that.   *)
LEMMA InsertedIsWithin ==
  ASSUME NEW offer \in Offers, NEW offers, NEW row,
         row = [written |-> offer.written, sources |-> offer.sources, strong |-> offer.strong,
                status |-> "pending"]
  PROVE  row \in Candidate /\ Within(row, offers \cup {offer})
<1>1. offer \in Offer
  BY OffersAssumption
<1>2. row \in Candidate
  BY <1>1 DEF Offer, Candidate
<1>3. row.strong >= 1 => offer.strong = 1
  BY <1>1 DEF Offer
<1>. QED BY <1>2, <1>3 DEF Within

LEMMA MergedIsWithin ==
  ASSUME NEW offer \in Offers, NEW offers, NEW held \in Candidate, Within(held, offers),
         NEW old \in Candidate
  PROVE  /\ Merged(held, offer, old) \in Candidate
         /\ Within(Merged(held, offer, old), offers \cup {offer})
         /\ Merged(held, offer, old).status = old.status
<1>. DEFINE row == Merged(held, offer, old)
<1>1. offer \in Offer
  BY OffersAssumption
<1>2. row \in Candidate /\ row.status = old.status
  BY <1>1 DEF Offer, Candidate, Merged
<1>3. row.sources = held.sources \cup offer.sources /\ row.written = held.written \cup offer.written
  BY DEF Merged
<1>4. row.strong >= 1 => held.strong >= 1 \/ offer.strong = 1
  BY <1>1 DEF Offer, Candidate, Merged
<1>5. row.strong >= 1 => \E o \in offers \cup {offer} : o.strong = 1
  BY <1>4 DEF Within
<1>6. row.sources \subseteq UNION {o.sources : o \in offers \cup {offer}}
  BY <1>3 DEF Within
<1>7. row.written \subseteq UNION {o.written : o \in offers \cup {offer}}
  BY <1>3 DEF Within
<1>. QED BY <1>2, <1>5, <1>6, <1>7 DEF Within

(* A step that loses no row and brings nothing but more leaves those at    *)
(* work what they hold.                                                    *)
RowsStay == \A n \in Names : candidates[n] # NoRow => candidates'[n] # NoRow
BroughtGrows == brought' \in [Names -> SUBSET Offers] /\ \A n \in Names : brought[n] \subseteq brought'[n]

LEMMA OthersKeep ==
  ASSUME EntitiesInv, Rows, RowsStay, BroughtGrows, UNCHANGED <<entities, aliasRows>>
  PROVE  /\ \A n \in Names : ReviewedIsBacked(n)'
         /\ AliasesAreSpelled'
         /\ \A v \in Reviewers : review'[v] = review[v] =>
              (review'[v].at # "idle" =>
                 /\ review'[v].name \in Names /\ review'[v].seen \in Candidate
                 /\ ReadyForReview(review'[v].seen)
                 /\ candidates'[review'[v].name] # NoRow
                 /\ Within(review'[v].seen, brought'[review'[v].name])
                 /\ review'[v].at = "stored" => entities'[review'[v].name] # NoRow)
         /\ \A u \in Submitters : submit'[u] = submit[u] =>
              (submit'[u].at = "read" /\ submit'[u].seen # NoRow =>
                 /\ candidates'[submit'[u].name] # NoRow
                 /\ Within(submit'[u].seen, brought'[submit'[u].name]))
<1>1. ASSUME NEW n \in Names PROVE ReviewedIsBacked(n)'
  <2>1. ReviewedIsBacked(n) /\ brought[n] \subseteq brought'[n]
    BY DEF EntitiesInv, BroughtGrows
  <2>. QED BY <2>1 DEF ReviewedIsBacked
<1>2. AliasesAreSpelled'
  BY DEF EntitiesInv, AliasesAreSpelled
<1>3. ASSUME NEW v \in Reviewers, review'[v] = review[v], review'[v].at # "idle"
      PROVE  /\ review'[v].name \in Names /\ review'[v].seen \in Candidate
             /\ ReadyForReview(review'[v].seen)
             /\ candidates'[review'[v].name] # NoRow
             /\ Within(review'[v].seen, brought'[review'[v].name])
             /\ review'[v].at = "stored" => entities'[review'[v].name] # NoRow
  <2>1. /\ review[v].name \in Names /\ review[v].seen \in Candidate
        /\ ReadyForReview(review[v].seen) /\ candidates[review[v].name] # NoRow
        /\ Within(review[v].seen, brought[review[v].name])
        /\ review[v].at = "stored" => entities[review[v].name] # NoRow
    BY <1>3 DEF EntitiesInv, ReviewsAreBacked
  <2>2. Within(review[v].seen, brought'[review[v].name])
    BY <2>1, WithinMore DEF BroughtGrows
  <2>. QED BY <1>3, <2>1, <2>2 DEF RowsStay
<1>4. ASSUME NEW u \in Submitters, submit'[u] = submit[u], submit'[u].at = "read",
             submit'[u].seen # NoRow
      PROVE  /\ candidates'[submit'[u].name] # NoRow
             /\ Within(submit'[u].seen, brought'[submit'[u].name])
  <2>1. /\ candidates[submit[u].name] # NoRow /\ submit[u].name \in Names
        /\ Within(submit[u].seen, brought[submit[u].name])
    BY <1>4 DEF EntitiesInv, SubmitsAreWithin, SubmitShape, NoSubmit
  <2>2. Within(submit[u].seen, brought'[submit[u].name])
    BY <2>1, WithinMore DEF BroughtGrows
  <2>. QED BY <1>4, <2>1, <2>2 DEF RowsStay
<1>. QED BY <1>1, <1>2, <1>3, <1>4

-----------------------------------------------------------------------------
(* A submitter comes to hold a row, or leaves.                             *)
LEMMA SubmitMovesKeeps ==
  ASSUME EntitiesInv, Rows, NEW u \in Submitters,
         UNCHANGED <<candidates, entities, aliasRows, review, brought>>,
         NEW held \in {NoSubmit} \cup [at : {"read"}, name : Names, offer : Offers,
                                       seen : Candidate \cup {NoRow}],
         submit' = [submit EXCEPT ![u] = held],
         held.at = "read" => held.seen = candidates[held.name]
  PROVE  EntitiesInv'
<1>1. RowsStay /\ BroughtGrows
  BY DEF RowsStay, BroughtGrows, EntitiesInv, EntitiesTypeOK
<1>2. SubmitShape' /\ ReviewShape'
  BY DEF EntitiesInv, SubmitShape, ReviewShape
<1>3. \A w \in Submitters : submit'[w].at \in {"idle", "read"}
  BY <1>2 DEF SubmitShape, NoSubmit
<1>4. EntitiesTypeOK'
  BY <1>3 DEF EntitiesInv, EntitiesTypeOK
<1>5. RowsAreWithin' /\ ApprovedIsCanonical'
  BY DEF EntitiesInv, RowsAreWithin, ApprovedIsCanonical
<1>6. SubmitsAreWithin'
  <2>. SUFFICES ASSUME NEW w \in Submitters, submit'[w].at = "read", submit'[w].seen # NoRow
                PROVE  /\ candidates'[submit'[w].name] # NoRow
                       /\ Within(submit'[w].seen, brought'[submit'[w].name])
    BY DEF SubmitsAreWithin
  <2>1. CASE w = u
    <3>1. submit'[w] = held
      BY <2>1 DEF EntitiesInv, SubmitShape
    <3>2. held.name \in Names
      BY <3>1 DEF NoSubmit
    <3>. QED BY <3>1, <3>2 DEF EntitiesInv, RowsAreWithin
  <2>2. CASE w # u
    <3>1. submit'[w] = submit[w]
      BY <2>2 DEF EntitiesInv, SubmitShape
    <3>. QED BY <1>1, <3>1, OthersKeep
  <2>. QED BY <2>1, <2>2
<1>7. ReviewsAreBacked'
  BY DEF EntitiesInv, ReviewsAreBacked
<1>. QED BY <1>1, <1>2, <1>4, <1>5, <1>6, <1>7, OthersKeep DEF EntitiesInv

LEMMA SubmitReadsKeeps ==
  ASSUME EntitiesInv, Rows, NEW u \in Submitters, NEW n \in Names, NEW offer \in Offers,
         SubmitReads(u, n, offer)
  PROVE  EntitiesInv'
<1>. DEFINE held == [at |-> "read", name |-> n, offer |-> offer, seen |-> candidates[n]]
<1>1. candidates[n] \in Candidate \cup {NoRow}
  BY DEF EntitiesInv, EntitiesTypeOK
<1>2. held \in [at : {"read"}, name : Names, offer : Offers, seen : Candidate \cup {NoRow}]
  BY <1>1
<1>3. submit' = [submit EXCEPT ![u] = held] /\ held.seen = candidates[held.name]
      /\ UNCHANGED <<candidates, entities, aliasRows, review, brought>>
  BY DEF SubmitReads
<1>. HIDE DEF held
<1>. QED BY <1>2, <1>3, SubmitMovesKeeps

LEMMA SubmitBreaksKeeps ==
  ASSUME EntitiesInv, Rows, NEW u \in Submitters, SubmitBreaks(u)
  PROVE  EntitiesInv'
<1>1. NoSubmit.at # "read"
  BY DEF NoSubmit
<1>. QED BY <1>1, SubmitMovesKeeps DEF SubmitBreaks

(* Whatever row a submission writes, if its offers show it.                *)
LEMMA SubmitWritesKeeps ==
  ASSUME EntitiesInv, Rows, NEW u \in Submitters, submit[u].at = "read",
         NEW row \in Candidate,
         Within(row, brought[submit[u].name] \cup {submit[u].offer}),
         row.status = "approved" => entities[submit[u].name] # NoRow,
         candidates' = [candidates EXCEPT ![submit[u].name] = row], SubmitEnds(u)
  PROVE  EntitiesInv'
<1>. DEFINE n == submit[u].name
<1>1. n \in Names /\ submit[u].offer \in Offers
  BY DEF EntitiesInv, SubmitShape, NoSubmit
<1>2. /\ brought' = [brought EXCEPT ![n] = brought[n] \cup {submit[u].offer}]
      /\ submit' = [submit EXCEPT ![u] = NoSubmit]
      /\ UNCHANGED <<entities, aliasRows, review>>
  BY DEF SubmitEnds
<1>3. /\ candidates \in [Names -> Candidate \cup {NoRow}]
      /\ brought \in [Names -> SUBSET Offers]
  BY DEF EntitiesInv, EntitiesTypeOK
<1>4. /\ candidates' \in [Names -> Candidate \cup {NoRow}] /\ candidates'[n] = row
      /\ \A k \in Names : k # n => candidates'[k] = candidates[k]
  BY <1>1, <1>3
<1>5. /\ BroughtGrows /\ brought'[n] = brought[n] \cup {submit[u].offer}
      /\ \A k \in Names : k # n => brought'[k] = brought[k]
  BY <1>1, <1>2, <1>3 DEF BroughtGrows
<1>6. RowsStay
  BY <1>4 DEF RowsStay, Rows
<1>7. SubmitShape' /\ ReviewShape'
  BY <1>2 DEF EntitiesInv, SubmitShape, ReviewShape
<1>8. EntitiesTypeOK'
  <2>1. \A w \in Submitters : submit'[w].at \in {"idle", "read"}
    BY <1>7 DEF SubmitShape, NoSubmit
  <2>. QED BY <1>2, <1>4, <1>5, <2>1 DEF EntitiesInv, EntitiesTypeOK, BroughtGrows
<1>9. RowsAreWithin'
  BY <1>4, <1>5 DEF EntitiesInv, RowsAreWithin
<1>10. SubmitsAreWithin'
  <2>1. \A w \in Submitters : submit'[w].at = "read" => submit'[w] = submit[w]
    BY <1>2 DEF EntitiesInv, SubmitShape, NoSubmit
  <2>. QED BY <1>2, <1>5, <1>6, <2>1, OthersKeep DEF SubmitsAreWithin
<1>11. ReviewsAreBacked'
  BY <1>2, <1>5, <1>6, OthersKeep DEF ReviewsAreBacked
<1>12. ApprovedIsCanonical'
  BY <1>2, <1>4 DEF EntitiesInv, ApprovedIsCanonical
<1>. QED BY <1>2, <1>5, <1>6, <1>7, <1>8, <1>9, <1>10, <1>11, <1>12, OthersKeep DEF EntitiesInv

LEMMA SubmitInsertsKeeps ==
  ASSUME EntitiesInv, Rows, NEW u \in Submitters, SubmitInserts(u)
  PROVE  EntitiesInv'
<1>. DEFINE offer == submit[u].offer
            row == [written |-> offer.written, sources |-> offer.sources,
                    strong |-> offer.strong, status |-> "pending"]
<1>1. submit[u].at = "read" /\ offer \in Offers
  BY DEF SubmitInserts, EntitiesInv, SubmitShape, NoSubmit
<1>2. row \in Candidate /\ Within(row, brought[submit[u].name] \cup {offer})
  BY <1>1, InsertedIsWithin
<1>3. row.status # "approved"
  OBVIOUS
<1>4. candidates' = [candidates EXCEPT ![submit[u].name] = row] /\ SubmitEnds(u)
  BY DEF SubmitInserts
<1>. HIDE DEF row
<1>. QED BY <1>1, <1>2, <1>3, <1>4, SubmitWritesKeeps

(* The row a submission merges into is there, and keeps its status.        *)
LEMMA MergesInto ==
  ASSUME EntitiesInv, Rows, NEW u \in Submitters, SubmitMerges(u)
  PROVE  LET n == submit[u].name
             row == Merged(submit[u].seen, submit[u].offer, candidates[n])
         IN /\ submit[u].at = "read" /\ n \in Names /\ candidates[n] \in Candidate
            /\ row \in Candidate /\ row.status = candidates[n].status
            /\ Within(row, brought[n] \cup {submit[u].offer})
            /\ candidates' = [candidates EXCEPT ![n] = row]
<1>1. /\ submit[u].at = "read" /\ submit[u].name \in Names /\ submit[u].offer \in Offers
      /\ submit[u].seen \in Candidate
  BY DEF SubmitMerges, EntitiesInv, SubmitShape, NoSubmit
<1>2. /\ candidates[submit[u].name] \in Candidate
      /\ Within(submit[u].seen, brought[submit[u].name])
  BY <1>1 DEF SubmitMerges, EntitiesInv, EntitiesTypeOK, SubmitsAreWithin
<1>3. candidates' = [candidates EXCEPT ![submit[u].name] =
                       Merged(submit[u].seen, submit[u].offer, candidates[submit[u].name])]
  BY DEF SubmitMerges
<1>. QED BY <1>1, <1>2, <1>3, MergedIsWithin

LEMMA SubmitMergesKeeps ==
  ASSUME EntitiesInv, Rows, NEW u \in Submitters, SubmitMerges(u)
  PROVE  EntitiesInv'
<1>. DEFINE n == submit[u].name
            row == Merged(submit[u].seen, submit[u].offer, candidates[n])
<1>1. /\ submit[u].at = "read" /\ n \in Names /\ candidates[n] \in Candidate
      /\ row \in Candidate /\ row.status = candidates[n].status
      /\ Within(row, brought[n] \cup {submit[u].offer})
      /\ candidates' = [candidates EXCEPT ![n] = row]
  BY MergesInto
<1>2. SubmitEnds(u)
  BY DEF SubmitMerges
<1>3. row.status = "approved" => entities[n] # NoRow
  BY <1>1 DEF EntitiesInv, ApprovedIsCanonical, Rows
<1>. HIDE DEF row
<1>. QED BY <1>1, <1>2, <1>3, SubmitWritesKeeps

-----------------------------------------------------------------------------
(* A decision on a candidate leaves its evidence.                          *)
LEMMA DecisionKeeps ==
  ASSUME EntitiesInv, Rows, NEW n \in Names, NEW s \in {"approved", "rejected"}, candidates[n] # NoRow,
         candidates' = [candidates EXCEPT ![n].status = s],
         UNCHANGED <<entities, aliasRows, submit, brought>>,
         s = "approved" => entities[n] # NoRow
  PROVE  /\ candidates' \in [Names -> Candidate \cup {NoRow}] /\ candidates'[n].status = s
         /\ \A k \in Names : k # n => candidates'[k] = candidates[k]
         /\ RowsStay /\ BroughtGrows /\ SubmitShape'
         /\ RowsAreWithin' /\ SubmitsAreWithin' /\ ApprovedIsCanonical'
<1>1. /\ candidates \in [Names -> Candidate \cup {NoRow}] /\ candidates[n] \in Candidate
      /\ brought \in [Names -> SUBSET Offers]
  BY DEF EntitiesInv, EntitiesTypeOK
<1>2. candidates' = [candidates EXCEPT ![n] = [candidates[n] EXCEPT !.status = s]]
  BY <1>1
<1>3. [candidates[n] EXCEPT !.status = s] \in Candidate
  BY <1>1 DEF Candidate
<1>4. /\ candidates' \in [Names -> Candidate \cup {NoRow}]
      /\ candidates'[n] = [candidates[n] EXCEPT !.status = s]
      /\ \A k \in Names : k # n => candidates'[k] = candidates[k]
  BY <1>1, <1>2, <1>3
<1>5. candidates'[n].status = s /\ candidates'[n].sources = candidates[n].sources
      /\ candidates'[n].written = candidates[n].written /\ candidates'[n].strong = candidates[n].strong
  BY <1>1, <1>4 DEF Candidate
<1>6. RowsStay /\ BroughtGrows
  BY <1>1, <1>3, <1>4 DEF RowsStay, BroughtGrows, Rows
<1>7. RowsAreWithin'
  BY <1>4, <1>5 DEF EntitiesInv, RowsAreWithin, Within
<1>8. SubmitShape' /\ SubmitsAreWithin'
  <2>1. SubmitShape'
    BY DEF EntitiesInv, SubmitShape
  <2>2. \A u \in Submitters : submit'[u] = submit[u]
    OBVIOUS
  <2>. QED BY <1>6, <2>1, <2>2, OthersKeep DEF SubmitsAreWithin
<1>9. ApprovedIsCanonical'
  BY <1>4, <1>5 DEF EntitiesInv, ApprovedIsCanonical
<1>. QED BY <1>4, <1>5, <1>6, <1>7, <1>8, <1>9

LEMMA RejectKeeps ==
  ASSUME EntitiesInv, Rows, NEW n \in Names, RejectCandidate(n)
  PROVE  EntitiesInv'
<1>1. /\ candidates' \in [Names -> Candidate \cup {NoRow}]
      /\ RowsStay /\ BroughtGrows /\ SubmitShape'
      /\ RowsAreWithin' /\ SubmitsAreWithin' /\ ApprovedIsCanonical'
  BY DecisionKeeps DEF RejectCandidate
<1>2. UNCHANGED <<entities, aliasRows, review, submit, brought>>
  BY DEF RejectCandidate
<1>3. ReviewShape' /\ EntitiesTypeOK'
  BY <1>1, <1>2 DEF EntitiesInv, EntitiesTypeOK, ReviewShape
<1>4. ReviewsAreBacked'
  BY <1>1, <1>2, OthersKeep DEF ReviewsAreBacked
<1>. QED BY <1>1, <1>2, <1>3, <1>4, OthersKeep DEF EntitiesInv

(* A reviewer comes to stand where "at" says, or leaves.                   *)
LEMMA ReviewMovesKeeps ==
  ASSUME EntitiesInv, Rows, NEW v \in Reviewers, UNCHANGED <<candidates, entities, aliasRows, submit, brought>>,
         NEW held \in [at : {"idle", "read", "stored"}, name : Names \cup {NoRow},
                       seen : Candidate \cup {NoRow}],
         review' = [review EXCEPT ![v] = held],
         held.at # "idle" =>
             /\ held.name \in Names /\ held.seen \in Candidate /\ ReadyForReview(held.seen)
             /\ candidates[held.name] # NoRow /\ Within(held.seen, brought[held.name])
             /\ held.at # "stored"
  PROVE  EntitiesInv'
<1>1. RowsStay /\ BroughtGrows
  BY DEF RowsStay, BroughtGrows, EntitiesInv, EntitiesTypeOK
<1>2. SubmitShape' /\ ReviewShape' /\ SubmitsAreWithin' /\ RowsAreWithin' /\ ApprovedIsCanonical'
  BY DEF EntitiesInv, SubmitShape, ReviewShape, SubmitsAreWithin, RowsAreWithin, ApprovedIsCanonical
<1>3. EntitiesTypeOK'
  BY <1>2 DEF EntitiesInv, EntitiesTypeOK, ReviewShape
<1>4. ReviewsAreBacked'
  <2>. SUFFICES ASSUME NEW w \in Reviewers, review'[w].at # "idle"
       PROVE  /\ review'[w].name \in Names /\ review'[w].seen \in Candidate
              /\ ReadyForReview(review'[w].seen)
              /\ candidates'[review'[w].name] # NoRow
              /\ Within(review'[w].seen, brought'[review'[w].name])
              /\ review'[w].at = "stored" => entities'[review'[w].name] # NoRow
    BY DEF ReviewsAreBacked
  <2>1. CASE w = v
    <3>1. review'[w] = held
      BY <2>1 DEF EntitiesInv, ReviewShape
    <3>. QED BY <3>1
  <2>2. CASE w # v
    <3>1. review'[w] = review[w]
      BY <2>2 DEF EntitiesInv, ReviewShape
    <3>. QED BY <1>1, <3>1, OthersKeep
  <2>. QED BY <2>1, <2>2
<1>. QED BY <1>1, <1>2, <1>3, <1>4, OthersKeep DEF EntitiesInv

LEMMA ApproveReadsKeeps ==
  ASSUME EntitiesInv, Rows, NEW v \in Reviewers, NEW n \in Names, ApproveReads(v, n)
  PROVE  EntitiesInv'
<1>. DEFINE held == [at |-> "read", name |-> n, seen |-> candidates[n]]
<1>1. candidates[n] \in Candidate /\ Within(candidates[n], brought[n])
  BY DEF ApproveReads, EntitiesInv, EntitiesTypeOK, RowsAreWithin
<1>2. held \in [at : {"idle", "read", "stored"}, name : Names \cup {NoRow},
                seen : Candidate \cup {NoRow}]
  BY <1>1
<1>3. /\ held.name \in Names /\ held.seen \in Candidate /\ ReadyForReview(held.seen)
      /\ candidates[held.name] # NoRow /\ Within(held.seen, brought[held.name])
      /\ held.at # "stored"
  BY <1>1 DEF ApproveReads
<1>4. /\ review' = [review EXCEPT ![v] = held]
      /\ UNCHANGED <<candidates, entities, aliasRows, submit, brought>>
  BY DEF ApproveReads
<1>. HIDE DEF held
<1>. QED BY <1>2, <1>3, <1>4, ReviewMovesKeeps

LEMMA ApproveBreaksKeeps ==
  ASSUME EntitiesInv, Rows, NEW v \in Reviewers, ApproveBreaks(v)
  PROVE  EntitiesInv'
<1>1. /\ NoReview \in [at : {"idle", "read", "stored"}, name : Names \cup {NoRow},
                       seen : Candidate \cup {NoRow}]
      /\ NoReview.at = "idle"
  BY DEF NoReview
<1>. QED BY <1>1, ReviewMovesKeeps DEF ApproveBreaks

(* What the store does with an entity, whoever gives it.                   *)
LEMMA UpsertBacks ==
  ASSUME EntitiesInv, Rows, NEW n \in Names, NEW written \in SUBSET Spellings,
         NEW sources \in SUBSET Sources, NEW by \in {"review", "lexicon"},
         UpsertEntity(n, written, sources, by), UNCHANGED candidates
  PROVE  /\ entities' \in [Names -> Entity \cup {NoRow}]
         /\ aliasRows' \subseteq Names \X {Normal[s] : s \in Spellings}
         /\ AliasesAreSpelled' /\ ApprovedIsCanonical'
         /\ entities'[n] = [written |-> written, sources |-> sources, by |-> by]
         /\ entities'[n] # NoRow
         /\ \A k \in Names : k # n => entities'[k] = entities[k]
<1>. DEFINE row == [written |-> written, sources |-> sources, by |-> by]
<1>1. entities' = [entities EXCEPT ![n] = row]
  BY DEF UpsertEntity
<1>2. aliasRows' = {a \in aliasRows : a[1] # n} \cup {<<n, Normal[s]>> : s \in written}
  BY DEF UpsertEntity
<1>3. row \in Entity /\ row # NoRow
  BY DEF Entity, Rows
<1>4. entities \in [Names -> Entity \cup {NoRow}]
  BY DEF EntitiesInv, EntitiesTypeOK
<1>5. entities'[n] = row /\ \A k \in Names : k # n => entities'[k] = entities[k]
  BY <1>1, <1>4
<1>6. entities' \in [Names -> Entity \cup {NoRow}]
  BY <1>1, <1>3, <1>4
<1>7. aliasRows' \subseteq Names \X {Normal[s] : s \in Spellings}
  <2>1. aliasRows \subseteq Names \X {Normal[s] : s \in Spellings}
    BY DEF EntitiesInv, EntitiesTypeOK
  <2>2. {<<n, Normal[s]>> : s \in written} \subseteq Names \X {Normal[s] : s \in Spellings}
    OBVIOUS
  <2>. QED BY <1>2, <2>1, <2>2
<1>8. AliasesAreSpelled'
  <2>. SUFFICES ASSUME NEW a \in aliasRows'
                PROVE  /\ a[1] \in Names /\ entities'[a[1]] # NoRow
                       /\ \E t \in entities'[a[1]].written : Normal[t] = a[2]
    BY DEF AliasesAreSpelled
  <2>1. CASE a \in aliasRows /\ a[1] # n
    BY <1>5, <2>1 DEF EntitiesInv, AliasesAreSpelled
  <2>2. ASSUME NEW s \in written, a = <<n, Normal[s]>>
        PROVE  /\ a[1] \in Names /\ entities'[a[1]] # NoRow
               /\ \E t \in entities'[a[1]].written : Normal[t] = a[2]
    <3>1. a[1] = n /\ a[2] = Normal[s]
      BY <2>2
    <3>2. entities'[a[1]].written = written
      BY <1>5, <3>1
    <3>. QED BY <1>3, <1>5, <3>1, <3>2
  <2>. QED BY <1>2, <2>1, <2>2
<1>9. ApprovedIsCanonical'
  BY <1>3, <1>5 DEF EntitiesInv, ApprovedIsCanonical
<1>. QED BY <1>3, <1>5, <1>6, <1>7, <1>8, <1>9

(* An entity that is stored leaves the candidates and the offers.          *)
LEMMA StoringKeeps ==
  ASSUME EntitiesInv, Rows, NEW n \in Names, NEW written \in SUBSET Spellings,
         NEW sources \in SUBSET Sources, NEW by \in {"review", "lexicon"},
         UpsertEntity(n, written, sources, by), UNCHANGED <<candidates, submit, brought>>,
         by = "review" =>
             /\ Cardinality(sources) >= 2
             /\ sources \subseteq UNION {offer.sources : offer \in brought[n]}
             /\ written \subseteq UNION {offer.written : offer \in brought[n]}
             /\ \E offer \in brought[n] : offer.strong = 1
  PROVE  /\ entities' \in [Names -> Entity \cup {NoRow}]
         /\ aliasRows' \subseteq Names \X {Normal[s] : s \in Spellings}
         /\ AliasesAreSpelled' /\ ApprovedIsCanonical' /\ SubmitShape'
         /\ SubmitsAreWithin' /\ RowsAreWithin'
         /\ \A k \in Names : ReviewedIsBacked(k)'
         /\ entities'[n] # NoRow
         /\ \A k \in Names : entities[k] # NoRow => entities'[k] # NoRow
<1>1. /\ entities' \in [Names -> Entity \cup {NoRow}]
      /\ aliasRows' \subseteq Names \X {Normal[s] : s \in Spellings}
      /\ AliasesAreSpelled' /\ ApprovedIsCanonical'
      /\ entities'[n] = [written |-> written, sources |-> sources, by |-> by]
      /\ entities'[n] # NoRow
      /\ \A k \in Names : k # n => entities'[k] = entities[k]
  BY UpsertBacks
<1>2. SubmitShape' /\ SubmitsAreWithin' /\ RowsAreWithin'
  BY DEF EntitiesInv, SubmitShape, SubmitsAreWithin, RowsAreWithin
<1>3. ASSUME NEW k \in Names PROVE ReviewedIsBacked(k)'
  <2>1. CASE k = n
    <3>1. /\ entities'[k].by = by /\ entities'[k].sources = sources
          /\ entities'[k].written = written
      BY <1>1, <2>1
    <3>. QED BY <2>1, <3>1 DEF ReviewedIsBacked
  <2>2. CASE k # n
    BY <1>1, <2>2 DEF EntitiesInv, ReviewedIsBacked
  <2>. QED BY <2>1, <2>2
<1>4. \A k \in Names : entities[k] # NoRow => entities'[k] # NoRow
  BY <1>1
<1>. QED BY <1>1, <1>2, <1>3, <1>4

LEMMA ApproveStoresKeeps ==
  ASSUME EntitiesInv, Rows, NEW v \in Reviewers, ApproveStores(v)
  PROVE  EntitiesInv'
<1>. DEFINE n == review[v].name
            earlier == review[v].seen
<1>1. /\ n \in Names /\ earlier \in Candidate /\ ReadyForReview(earlier)
      /\ candidates[n] # NoRow /\ Within(earlier, brought[n])
  BY DEF ApproveStores, EntitiesInv, ReviewsAreBacked
<1>2. earlier.written \in SUBSET Spellings /\ earlier.sources \in SUBSET Sources
  BY <1>1 DEF Candidate
<1>3. /\ UpsertEntity(n, earlier.written, earlier.sources, "review")
      /\ UNCHANGED <<candidates, submit, brought>>
  BY DEF ApproveStores
<1>4. /\ Cardinality(earlier.sources) >= 2
      /\ earlier.sources \subseteq UNION {offer.sources : offer \in brought[n]}
      /\ earlier.written \subseteq UNION {offer.written : offer \in brought[n]}
      /\ \E offer \in brought[n] : offer.strong = 1
  BY <1>1 DEF ReadyForReview, Within
<1>5. /\ entities' \in [Names -> Entity \cup {NoRow}]
      /\ aliasRows' \subseteq Names \X {Normal[s] : s \in Spellings}
      /\ AliasesAreSpelled' /\ ApprovedIsCanonical' /\ SubmitShape'
      /\ SubmitsAreWithin' /\ RowsAreWithin'
      /\ \A k \in Names : ReviewedIsBacked(k)'
      /\ entities'[n] # NoRow
      /\ \A k \in Names : entities[k] # NoRow => entities'[k] # NoRow
  BY <1>1, <1>2, <1>3, <1>4, StoringKeeps
<1>6. review \in [Reviewers -> [at : {"idle", "read", "stored"}, name : Names \cup {NoRow},
                                seen : Candidate \cup {NoRow}]]
  BY DEF EntitiesInv, ReviewShape
<1>7. /\ review' = [review EXCEPT ![v] = [review[v] EXCEPT !.at = "stored"]]
      /\ review[v].at = "read"
  BY <1>6 DEF ApproveStores
<1>8. ReviewShape'
  BY <1>6, <1>7 DEF ReviewShape
<1>9. EntitiesTypeOK'
  BY <1>3, <1>5, <1>8 DEF EntitiesInv, EntitiesTypeOK, ReviewShape
<1>10. ReviewsAreBacked'
  <2>. SUFFICES ASSUME NEW w \in Reviewers, review'[w].at # "idle"
       PROVE  /\ review'[w].name \in Names /\ review'[w].seen \in Candidate
              /\ ReadyForReview(review'[w].seen)
              /\ candidates'[review'[w].name] # NoRow
              /\ Within(review'[w].seen, brought'[review'[w].name])
              /\ review'[w].at = "stored" => entities'[review'[w].name] # NoRow
    BY DEF ReviewsAreBacked
  <2>1. CASE w = v
    <3>1. review'[w].name = n /\ review'[w].seen = earlier
      BY <1>6, <1>7, <2>1
    <3>. QED BY <1>1, <1>3, <1>5, <3>1
  <2>2. CASE w # v
    <3>1. review'[w] = review[w]
      BY <1>6, <1>7, <2>2
    <3>2. /\ review[w].name \in Names /\ review[w].seen \in Candidate
          /\ ReadyForReview(review[w].seen) /\ candidates[review[w].name] # NoRow
          /\ Within(review[w].seen, brought[review[w].name])
          /\ review[w].at = "stored" => entities[review[w].name] # NoRow
      BY <3>1 DEF EntitiesInv, ReviewsAreBacked
    <3>. QED BY <1>3, <1>5, <3>1, <3>2
  <2>. QED BY <2>1, <2>2
<1>. QED BY <1>5, <1>8, <1>9, <1>10 DEF EntitiesInv

LEMMA ImportKeeps ==
  ASSUME EntitiesInv, Rows, NEW n \in Names, NEW offer \in Offers, ImportEntry(n, offer)
  PROVE  EntitiesInv'
<1>1. /\ UpsertEntity(n, offer.written, offer.sources, "lexicon")
      /\ UNCHANGED <<candidates, submit, review, brought>>
  BY DEF ImportEntry
<1>2. offer.written \in SUBSET Spellings /\ offer.sources \in SUBSET Sources
  BY OffersAssumption DEF Offer
<1>3. /\ entities' \in [Names -> Entity \cup {NoRow}]
      /\ aliasRows' \subseteq Names \X {Normal[s] : s \in Spellings}
      /\ AliasesAreSpelled' /\ ApprovedIsCanonical' /\ SubmitShape'
      /\ SubmitsAreWithin' /\ RowsAreWithin'
      /\ \A k \in Names : ReviewedIsBacked(k)'
      /\ \A k \in Names : entities[k] # NoRow => entities'[k] # NoRow
  BY <1>1, <1>2, StoringKeeps
<1>4. EntitiesTypeOK' /\ ReviewShape'
  BY <1>1, <1>3 DEF EntitiesInv, EntitiesTypeOK, ReviewShape
<1>5. ReviewsAreBacked'
  BY <1>1, <1>3 DEF EntitiesInv, ReviewsAreBacked
<1>. QED BY <1>3, <1>4, <1>5 DEF EntitiesInv

LEMMA ApproveMarksKeeps ==
  ASSUME EntitiesInv, Rows, NEW v \in Reviewers, ApproveMarks(v)
  PROVE  EntitiesInv'
<1>1. /\ review[v].name \in Names /\ candidates[review[v].name] # NoRow
      /\ entities[review[v].name] # NoRow
  BY DEF ApproveMarks, EntitiesInv, ReviewsAreBacked
<1>2. UNCHANGED <<entities, aliasRows, submit, brought>>
  BY DEF ApproveMarks
<1>3. /\ candidates' \in [Names -> Candidate \cup {NoRow}]
      /\ RowsStay /\ BroughtGrows /\ SubmitShape'
      /\ RowsAreWithin' /\ SubmitsAreWithin' /\ ApprovedIsCanonical'
  BY <1>1, <1>2, DecisionKeeps DEF ApproveMarks
<1>4. ReviewShape' /\ \A w \in Reviewers : review'[w].at # "idle" => review'[w] = review[w]
  BY DEF ApproveMarks, EntitiesInv, ReviewShape, NoReview
<1>5. EntitiesTypeOK'
  BY <1>2, <1>3, <1>4 DEF EntitiesInv, EntitiesTypeOK, ReviewShape
<1>6. ReviewsAreBacked'
  BY <1>2, <1>3, <1>4, OthersKeep DEF ReviewsAreBacked
<1>. QED BY <1>2, <1>3, <1>4, <1>5, <1>6, OthersKeep DEF EntitiesInv

LEMMA EntitiesInit == RegistryInit => EntitiesInv
  BY DEF RegistryInit, EntitiesInv, EntitiesTypeOK, SubmitShape, ReviewShape, RowsAreWithin,
         SubmitsAreWithin, ReviewsAreBacked, ReviewedIsBacked, ApprovedIsCanonical,
         AliasesAreSpelled, NoSubmit, NoReview

LEMMA EntitiesStep ==
  ASSUME EntitiesInv, Rows, [RegistryNext]_registryVars
  PROVE  EntitiesInv'
<1>1. CASE Submits
  BY <1>1, SubmitReadsKeeps, SubmitInsertsKeeps, SubmitMergesKeeps, SubmitBreaksKeeps DEF Submits
<1>2. CASE Reviews
  BY <1>2, ApproveReadsKeeps, ApproveStoresKeeps, ApproveMarksKeeps, ApproveBreaksKeeps
     DEF Reviews
<1>3. CASE Rejects
  BY <1>3, RejectKeeps DEF Rejects
<1>4. CASE Imports
  BY <1>4, ImportKeeps DEF Imports
<1>5. CASE UNCHANGED registryVars
  BY <1>5 DEF registryVars, EntitiesInv, EntitiesTypeOK, SubmitShape, ReviewShape, RowsAreWithin,
              SubmitsAreWithin, ReviewsAreBacked, ReviewedIsBacked, ApprovedIsCanonical,
              AliasesAreSpelled
<1>. QED BY <1>1, <1>2, <1>3, <1>4, <1>5 DEF RegistryNext

(* The tables of entities, the submitters and the reviewers keep the shape *)
(* of the code's rows.                                                     *)
THEOREM EntitiesTypeCorrect == ASSUME Rows PROVE RegistrySpec => []EntitiesTypeOK
<1>1. RegistryInit => EntitiesInv
  BY EntitiesInit
<1>2. EntitiesInv /\ [RegistryNext]_registryVars => EntitiesInv'
  BY EntitiesStep
<1>3. EntitiesInv => EntitiesTypeOK
  BY DEF EntitiesInv
<1>. QED BY <1>1, <1>2, <1>3, PTL DEF RegistrySpec

(* Candidates never become canonical silently, whatever submissions lose of *)
(* one another: an entity that a review made has two sources and a strong  *)
(* signal among those submitted for its name, a word resolves by a spelling *)
(* of the entity, and an approved candidate has its entity.                *)
THEOREM CanonicalStaysBacked ==
  ASSUME Rows PROVE RegistrySpec => []CanonicalIsBacked
<1>1. RegistryInit => EntitiesInv
  BY EntitiesInit
<1>2. EntitiesInv /\ [RegistryNext]_registryVars => EntitiesInv'
  BY EntitiesStep
<1>3. EntitiesInv => CanonicalIsBacked
  <2>. SUFFICES ASSUME EntitiesInv PROVE CanonicalWasSubmitted
    BY DEF EntitiesInv, CanonicalIsBacked
  <2>1. ASSUME NEW s \in Spellings, NEW n \in Resolves(s)
        PROVE  entities[n] # NoRow /\ \E t \in entities[n].written : Normal[t] = Normal[s]
    <3>1. <<n, Normal[s]>> \in aliasRows
      BY DEF Resolves
    <3>. QED BY <3>1 DEF EntitiesInv, AliasesAreSpelled
  <2>. QED BY <2>1 DEF CanonicalWasSubmitted, EntitiesInv, ReviewedIsBacked
<1>. QED BY <1>1, <1>2, <1>3, PTL DEF RegistrySpec

(* A candidate that was approved or rejected does not come back for review, *)
(* whoever read it before the decision and writes it after.                *)
THEOREM DecisionsAreKept == ASSUME Rows PROVE RegistrySpec => DecisionsStand
<1>. DEFINE Decided(row) == row # NoRow /\ row.status # "pending"
            Stands == \A n \in Names : Decided(candidates[n]) => Decided(candidates'[n])
<1>1. RegistryInit => EntitiesInv
  BY EntitiesInit
<1>2. EntitiesInv /\ [RegistryNext]_registryVars => EntitiesInv'
  BY EntitiesStep
<1>3. ASSUME EntitiesInv, [RegistryNext]_registryVars PROVE [Stands]_candidates
  <2>1. ASSUME NEW u \in Submitters, SubmitInserts(u) PROVE Stands
    <3>1. /\ submit[u].name \in Names /\ candidates[submit[u].name] = NoRow
          /\ candidates \in [Names -> Candidate \cup {NoRow}]
      BY <1>3, <2>1 DEF SubmitInserts, EntitiesInv, EntitiesTypeOK, SubmitShape, NoSubmit
    <3>2. \A n \in Names : n # submit[u].name => candidates'[n] = candidates[n]
      BY <2>1, <3>1 DEF SubmitInserts
    <3>. QED BY <3>1, <3>2
  <2>2. ASSUME NEW u \in Submitters, SubmitMerges(u) PROVE Stands
    <3>. DEFINE n == submit[u].name
                row == Merged(submit[u].seen, submit[u].offer, candidates[n])
    <3>1. /\ n \in Names /\ row \in Candidate /\ row.status = candidates[n].status
          /\ candidates' = [candidates EXCEPT ![n] = row]
      BY <1>3, <2>2, MergesInto
    <3>2. candidates \in [Names -> Candidate \cup {NoRow}]
      BY <1>3 DEF EntitiesInv, EntitiesTypeOK
    <3>. HIDE DEF row
    <3>. QED BY <3>1, <3>2 DEF Rows
  <2>3. ASSUME NEW v \in Reviewers, ApproveMarks(v) PROVE Stands
    <3>1. /\ review[v].name \in Names /\ candidates[review[v].name] # NoRow
          /\ entities[review[v].name] # NoRow
      BY <1>3, <2>3 DEF ApproveMarks, EntitiesInv, ReviewsAreBacked
    <3>2. /\ RowsStay /\ candidates'[review[v].name].status = "approved"
          /\ \A k \in Names : k # review[v].name => candidates'[k] = candidates[k]
      BY <1>3, <2>3, <3>1, DecisionKeeps DEF ApproveMarks
    <3>. QED BY <3>1, <3>2 DEF RowsStay
  <2>4. ASSUME NEW n \in Names, RejectCandidate(n) PROVE Stands
    <3>1. /\ RowsStay /\ candidates'[n].status = "rejected"
          /\ \A k \in Names : k # n => candidates'[k] = candidates[k]
      BY <1>3, <2>4, DecisionKeeps DEF RejectCandidate
    <3>. QED BY <2>4, <3>1 DEF RowsStay
  <2>5. CASE Submits
    BY <2>1, <2>2, <2>5 DEF Submits, SubmitReads, SubmitBreaks
  <2>6. CASE Reviews
    BY <2>3, <2>6 DEF Reviews, ApproveReads, ApproveStores, ApproveBreaks
  <2>7. CASE Rejects
    BY <2>4, <2>7 DEF Rejects
  <2>8. CASE Imports
    BY <2>8 DEF Imports, ImportEntry
  <2>9. CASE UNCHANGED registryVars
    BY <2>9 DEF registryVars
  <2>. QED BY <1>3, <2>5, <2>6, <2>7, <2>8, <2>9 DEF RegistryNext
<1>. QED BY <1>1, <1>2, <1>3, PTL DEF RegistrySpec, DecisionsStand

-----------------------------------------------------------------------------
(***************************************************************************)
(* ContextTimeline, for any events and episodes: whichever of the tasks    *)
(* wrote last, a search finds the rows that may be answered with, but for  *)
(* those written while a clean-up held its list, and a retrieval serves no *)
(* episode that was withdrawn before it began.                             *)
(***************************************************************************)
RowsTyped ==
    /\ events \in [Events -> Timeline!EventRow \cup {NoRow}]
    /\ episodes \in [Episodes -> Timeline!EpisodeRow \cup {NoRow}]
    /\ found \subseteq Events \cup Episodes /\ crossed \subseteq Events \cup Episodes
    /\ points \in [Episodes -> Timeline!Point \cup {NoRow}]
    /\ clock \in Timeline!Times /\ withdrawn \subseteq Episodes
    /\ ingests \in 0..MaxIngests /\ failures \in 0..MaxFailures

(* What a task holds between two of its awaits.                            *)
StoredEvents == UNION {[D -> Timeline!Expiries] : D \in SUBSET Events}
Copies == UNION {[D -> Timeline!Point] : D \in SUBSET Episodes}

IngestTyped ==
    \/ ingest = Timeline!Idle
    \/ /\ ingest \in [at : {"events"}, episode : Episodes, todo : SUBSET Events,
                      stored : StoredEvents, expires : Timeline!Expiries]
       /\ ingest.todo # {} \/ DOMAIN ingest.stored # {}

IndexTyped ==
    \/ index = Timeline!Idle
    \/ index \in [at : {"listed"}, copies : Copies]
    \/ /\ index \in [at : {"embedding", "marking"}, copies : Copies, episode : Episodes]
       /\ index.episode \in DOMAIN index.copies

Lists == SUBSET (Events \cup Episodes)

SweepsTyped ==
    /\ \/ life = Timeline!Idle
       \/ life \in [at : {"points"}, todo : SUBSET Episodes, only : SUBSET Episodes,
                    cutoff : Timeline!Times]
       \/ life \in [at : {"listing"}, cutoff : Timeline!Times, listed : SUBSET Events]
       \/ life \in [at : {"listed"}, cutoff : Timeline!Times, listed : Lists]
    /\ \/ retain = Timeline!Idle
       \/ retain \in [at : {"begun", "vectors"}, moment : Timeline!Times]
       \/ retain \in [at : {"listing"}, moment : Timeline!Times, listed : SUBSET Events]
       \/ retain \in [at : {"listed"}, moment : Timeline!Times, listed : Lists]

RecallTyped ==
    \/ recall = Timeline!Idle
    \/ recall \in [at : {"hit"}, episode : Episodes, made : SUBSET Events]
    \/ recall \in [at : {"sources"}, episode : Episodes, now : Timeline!Times, left : SUBSET Events]
    \/ recall \in [at : {"served"}, episode : Episodes]

(* An upsert takes the episode it writes out of `withdrawn`, so that what  *)
(* is there is dead; a row that was read as current is none of them.       *)
WithdrawnIsDead == \A h \in withdrawn : ~Timeline!Live(episodes[h])
ServedWasCurrent == recall.at \in {"sources", "served"} => recall.episode \notin withdrawn

(* What a clean-up holds in its list is what it will tombstone or remove,  *)
(* of the rows that nobody wrote since.                                    *)
RowOf(k) == IF k \in Events THEN events[k] ELSE episodes[k]
ListsAreRight ==
    \A k \in (Events \cup Episodes) \ crossed :
        /\ Timeline!Holds(life, k) /\ Timeline!Live(RowOf(k)) =>
             (k \in life.listed <=> Timeline!Expired(RowOf(k), life.cutoff))
        /\ Timeline!Holds(retain, k) /\ RowOf(k) # NoRow =>
             (k \in retain.listed <=> Timeline!Expired(RowOf(k), retain.moment))
SearchIsRight ==
    /\ \A k \in (Events \cup Episodes) \ crossed : k \in found <=> Timeline!Live(RowOf(k))
    /\ ListsAreRight

TasksTyped == IngestTyped /\ IndexTyped /\ SweepsTyped /\ RecallTyped
TimelineInv ==
    /\ RowsTyped /\ TasksTyped /\ SearchIsRight /\ WithdrawnIsDead /\ ServedWasCurrent

(* The types of the rows, by the name of what they are for.                *)
LEMMA RowFields ==
  /\ Timeline!EventRow = [expires : Timeline!Expiries, deleted : BOOLEAN]
  /\ Timeline!EpisodeRow = [made : SUBSET Events, expires : Timeline!Expiries, deleted : BOOLEAN]
  /\ Timeline!Point = [made : SUBSET Events, expires : Timeline!Expiries]
  /\ NoRow \notin Timeline!EventRow /\ NoRow \notin Timeline!EpisodeRow
  /\ NoRow \notin Timeline!Point /\ Events \cap Episodes = {}
  BY TimelineAssumption DEF Timeline!EventRow, Timeline!EpisodeRow, Timeline!Point

(* The earlier of two expiries, and the earliest of some, is an expiry.    *)
LEMMA LeastExpiry ==
  ASSUME NEW T \in SUBSET Timeline!Expiries, T # {}
  PROVE  Timeline!Min(T) \in T
<1>1. T \subseteq Nat
  BY TimelineAssumption DEF Timeline!Expiries, Timeline!Never
<1>. DEFINE Less == {pair \in Nat \X Nat : pair[1] < pair[2]}
<1>2. IsWellFoundedOn(Less, Nat)
  BY NatLessThanWellFounded DEF OpToRel
<1>. HIDE DEF Less
<1>3. PICK x \in T : \A y \in T : ~(<<y, x>> \in Less)
  BY <1>1, <1>2, WFMin
<1>4. ASSUME NEW y \in T PROVE x <= y
  <2>1. x \in Nat /\ y \in Nat
    BY <1>1
  <2>2. y < x => <<y, x>> \in Less
    BY <2>1 DEF Less
  <2>. QED BY <1>3, <2>1, <2>2
<1>. QED BY <1>4 DEF Timeline!Min

LEMMA MergedIsExpiry ==
  ASSUME NEW old, old.expires \in Timeline!Expiries, NEW new \in Timeline!Expiries, NEW same
  PROVE  Timeline!MergedExpiry(old, new, same) \in Timeline!Expiries
<1>1. old.expires \in Nat /\ new \in Nat
  BY TimelineAssumption DEF Timeline!Expiries, Timeline!Never
<1>2. \E t \in {old.expires, new} : t <= old.expires /\ t <= new
  BY <1>1
<1>3. Timeline!Never \in Timeline!Expiries
  BY TimelineAssumption DEF Timeline!Expiries, Timeline!Never
<1>. QED BY <1>2, <1>3 DEF Timeline!MergedExpiry

LEMMA UpsertedEventIsRow ==
  ASSUME RowsTyped, NEW e \in Events, NEW x \in Timeline!Expiries
  PROVE  /\ Timeline!UpsertedEvent(e, x) \in Timeline!EventRow
         /\ ~Timeline!UpsertedEvent(e, x).deleted
<1>1. events[e] # NoRow => events[e].expires \in Timeline!Expiries
  BY RowFields DEF RowsTyped
<1>2. events[e] # NoRow => Timeline!MergedExpiry(events[e], x, TRUE) \in Timeline!Expiries
  BY <1>1, MergedIsExpiry
<1>. QED BY <1>2, RowFields DEF Timeline!UpsertedEvent

LEMMA UpsertedEpisodeIsRow ==
  ASSUME RowsTyped, NEW g \in Episodes, NEW m \in SUBSET Events, NEW x \in Timeline!Expiries
  PROVE  /\ Timeline!UpsertedEpisode(g, m, x) \in Timeline!EpisodeRow
         /\ ~Timeline!UpsertedEpisode(g, m, x).deleted
<1>1. episodes[g] # NoRow => episodes[g].expires \in Timeline!Expiries
  BY RowFields DEF RowsTyped
<1>. DEFINE same == episodes[g].made = m
<1>2. episodes[g] # NoRow => Timeline!MergedExpiry(episodes[g], x, same) \in Timeline!Expiries
  BY <1>1, MergedIsExpiry
<1>. QED BY <1>2, RowFields DEF Timeline!UpsertedEpisode

LEMMA SharedIsExpiry ==
  ASSUME NEW s \in StoredEvents, DOMAIN s # {}
  PROVE  Timeline!SharedExpiry(s) \in Timeline!Expiries /\ DOMAIN s \in SUBSET Events
<1>1. PICK D \in SUBSET Events : s \in [D -> Timeline!Expiries]
  BY DEF StoredEvents
<1>2. Timeline!Range(s) \in SUBSET Timeline!Expiries /\ Timeline!Range(s) # {}
  BY <1>1 DEF Timeline!Range
<1>3. Timeline!Min(Timeline!Range(s)) \in Timeline!Expiries
  BY <1>2, LeastExpiry
<1>4. Timeline!Never \in Timeline!Expiries
  BY TimelineAssumption DEF Timeline!Expiries, Timeline!Never
<1>. QED BY <1>1, <1>3, <1>4 DEF Timeline!SharedExpiry

(* A step that leaves the rows and the clean-ups leaves what they agree on. *)
LEMMA SearchStays ==
  ASSUME SearchIsRight, UNCHANGED <<events, episodes, found, crossed, life, retain>>
  PROVE  SearchIsRight'
  BY DEF SearchIsRight, ListsAreRight, RowOf

(* One row of one table was written, and is live: the projection has it, and *)
(* where a clean-up holds a list it is crossed.                            *)
LEMMA RowWritten ==
  ASSUME TimelineInv, NEW k \in Events \cup Episodes, RowOf(k)' # NoRow, ~RowOf(k)'.deleted,
         \A h \in (Events \cup Episodes) \ {k} : RowOf(h)' = RowOf(h),
         Timeline!Projects(k), UNCHANGED <<life, retain>>
  PROVE  /\ found' \subseteq Events \cup Episodes /\ crossed' \subseteq Events \cup Episodes
         /\ SearchIsRight'
<1>1. /\ found' = found \cup {k}
      /\ crossed' = IF Timeline!Holds(life, k) \/ Timeline!Holds(retain, k) THEN crossed \cup {k}
                    ELSE crossed \ {k}
  BY DEF Timeline!Projects
<1>2. found' \subseteq Events \cup Episodes /\ crossed' \subseteq Events \cup Episodes
  BY <1>1 DEF TimelineInv, RowsTyped
<1>3. ASSUME NEW h \in (Events \cup Episodes) \ crossed'
      PROVE  /\ h \in found' <=> Timeline!Live(RowOf(h)')
             /\ Timeline!Holds(life', h) /\ Timeline!Live(RowOf(h)') =>
                  (h \in life'.listed <=> Timeline!Expired(RowOf(h)', life'.cutoff))
             /\ Timeline!Holds(retain', h) /\ RowOf(h)' # NoRow =>
                  (h \in retain'.listed <=> Timeline!Expired(RowOf(h)', retain'.moment))
  <2>1. CASE h = k
    <3>1. ~Timeline!Holds(life, k) /\ ~Timeline!Holds(retain, k)
      BY <1>1, <2>1
    <3>. QED BY <1>1, <2>1, <3>1 DEF Timeline!Live
  <2>2. CASE h # k
    <3>1. h \in (Events \cup Episodes) \ crossed /\ RowOf(h)' = RowOf(h)
          /\ (h \in found' <=> h \in found)
      BY <1>1, <2>2
    <3>. QED BY <3>1 DEF TimelineInv, SearchIsRight, ListsAreRight
  <2>. QED BY <2>1, <2>2
<1>4. SearchIsRight'
  BY <1>3 DEF SearchIsRight, ListsAreRight
<1>. QED BY <1>2, <1>4

LEMMA EventWritten ==
  ASSUME TimelineInv, NEW e \in Events, NEW row \in Timeline!EventRow, ~row.deleted,
         events' = [events EXCEPT ![e] = row], Timeline!Projects(e), episodes' = episodes,
         UNCHANGED <<life, retain>>
  PROVE  /\ events' \in [Events -> Timeline!EventRow \cup {NoRow}]
         /\ found' \subseteq Events \cup Episodes /\ crossed' \subseteq Events \cup Episodes
         /\ SearchIsRight'
<1>1. /\ events' \in [Events -> Timeline!EventRow \cup {NoRow}] /\ events'[e] = row
      /\ \A h \in Events : h # e => events'[h] = events[h]
  BY DEF TimelineInv, RowsTyped
<1>2. RowOf(e)' = row /\ \A h \in (Events \cup Episodes) \ {e} : RowOf(h)' = RowOf(h)
  BY <1>1 DEF RowOf
<1>3. row # NoRow
  BY RowFields
<1>. QED BY <1>1, <1>2, <1>3, RowWritten

LEMMA EpisodeWritten ==
  ASSUME TimelineInv, NEW g \in Episodes, NEW row \in Timeline!EpisodeRow, ~row.deleted,
         episodes' = [episodes EXCEPT ![g] = row], Timeline!Projects(g), events' = events,
         withdrawn' = withdrawn \ {g}, recall' = recall, UNCHANGED <<life, retain>>
  PROVE  /\ episodes' \in [Episodes -> Timeline!EpisodeRow \cup {NoRow}]
         /\ withdrawn' \subseteq Episodes
         /\ found' \subseteq Events \cup Episodes /\ crossed' \subseteq Events \cup Episodes
         /\ SearchIsRight' /\ WithdrawnIsDead' /\ ServedWasCurrent'
<1>1. /\ episodes' \in [Episodes -> Timeline!EpisodeRow \cup {NoRow}] /\ episodes'[g] = row
      /\ \A h \in Episodes : h # g => episodes'[h] = episodes[h]
  BY DEF TimelineInv, RowsTyped
<1>2. RowOf(g)' = row /\ \A h \in (Events \cup Episodes) \ {g} : RowOf(h)' = RowOf(h)
  BY <1>1, RowFields DEF RowOf
<1>3. row # NoRow
  BY RowFields
<1>4. /\ found' \subseteq Events \cup Episodes /\ crossed' \subseteq Events \cup Episodes
      /\ SearchIsRight'
  BY <1>2, <1>3, RowWritten
<1>5. withdrawn' \subseteq Episodes /\ WithdrawnIsDead' /\ ServedWasCurrent'
  BY <1>1 DEF TimelineInv, RowsTyped, WithdrawnIsDead, ServedWasCurrent
<1>. QED BY <1>1, <1>4, <1>5

(* Rows were tombstoned: they keep their expiry, and are not live.         *)
LEMMA RowsMarked ==
  ASSUME RowsTyped, NEW dead, events' = Timeline!Tombstoned(events, dead),
         episodes' = Timeline!Tombstoned(episodes, dead),
         \A k \in (Events \cup Episodes) \cap dead : Timeline!Live(RowOf(k))
  PROVE  /\ events' \in [Events -> Timeline!EventRow \cup {NoRow}]
         /\ episodes' \in [Episodes -> Timeline!EpisodeRow \cup {NoRow}]
         /\ \A k \in Events \cup Episodes :
              /\ Timeline!Live(RowOf(k)') <=> Timeline!Live(RowOf(k)) /\ k \notin dead
              /\ RowOf(k)' # NoRow <=> RowOf(k) # NoRow
              /\ RowOf(k)' # NoRow => RowOf(k)'.expires = RowOf(k).expires
<1>1. \A t \in Timeline!EventRow :
        /\ [t EXCEPT !.deleted = TRUE] \in Timeline!EventRow
        /\ [t EXCEPT !.deleted = TRUE].deleted /\ [t EXCEPT !.deleted = TRUE].expires = t.expires
  BY RowFields
<1>2. \A t \in Timeline!EpisodeRow :
        /\ [t EXCEPT !.deleted = TRUE] \in Timeline!EpisodeRow
        /\ [t EXCEPT !.deleted = TRUE].deleted /\ [t EXCEPT !.deleted = TRUE].expires = t.expires
  BY RowFields
<1>3. /\ events \in [Events -> Timeline!EventRow \cup {NoRow}]
      /\ events' = [k \in Events |-> IF k \in dead THEN [events[k] EXCEPT !.deleted = TRUE]
                                     ELSE events[k]]
  BY DEF RowsTyped, Timeline!Tombstoned
<1>4. /\ episodes \in [Episodes -> Timeline!EpisodeRow \cup {NoRow}]
      /\ episodes' = [k \in Episodes |-> IF k \in dead THEN [episodes[k] EXCEPT !.deleted = TRUE]
                                         ELSE episodes[k]]
  BY DEF RowsTyped, Timeline!Tombstoned
<1>5. ASSUME NEW k \in Events
      PROVE  /\ events'[k] \in Timeline!EventRow \cup {NoRow}
             /\ Timeline!Live(events'[k]) <=> Timeline!Live(events[k]) /\ k \notin dead
             /\ events'[k] # NoRow <=> events[k] # NoRow
             /\ events'[k] # NoRow => events'[k].expires = events[k].expires
  <2>1. k \in dead => events[k] \in Timeline!EventRow /\ Timeline!Live(events[k])
    BY <1>3 DEF RowOf, Timeline!Live
  <2>. QED BY <1>1, <1>3, <2>1, RowFields DEF Timeline!Live
<1>6. ASSUME NEW k \in Episodes
      PROVE  /\ episodes'[k] \in Timeline!EpisodeRow \cup {NoRow}
             /\ Timeline!Live(episodes'[k]) <=> Timeline!Live(episodes[k]) /\ k \notin dead
             /\ episodes'[k] # NoRow <=> episodes[k] # NoRow
             /\ episodes'[k] # NoRow => episodes'[k].expires = episodes[k].expires
  <2>1. k \in dead => episodes[k] \in Timeline!EpisodeRow /\ Timeline!Live(episodes[k])
    BY <1>4, RowFields DEF RowOf, Timeline!Live
  <2>. QED BY <1>2, <1>4, <2>1, RowFields DEF Timeline!Live
<1>7. /\ events' \in [Events -> Timeline!EventRow \cup {NoRow}]
      /\ episodes' \in [Episodes -> Timeline!EpisodeRow \cup {NoRow}]
  BY <1>3, <1>4, <1>5, <1>6
<1>8. \A k \in Events \cup Episodes :
        RowOf(k) = (IF k \in Events THEN events[k] ELSE episodes[k])
        /\ RowOf(k)' = (IF k \in Events THEN events'[k] ELSE episodes'[k])
  BY DEF RowOf
<1>. QED BY <1>5, <1>6, <1>7, <1>8

(* Rows were removed.                                                      *)
LEMMA RowsRemoved ==
  ASSUME RowsTyped, NEW dead, events' = Timeline!Removed(events, dead),
         episodes' = Timeline!Removed(episodes, dead)
  PROVE  /\ events' \in [Events -> Timeline!EventRow \cup {NoRow}]
         /\ episodes' \in [Episodes -> Timeline!EpisodeRow \cup {NoRow}]
         /\ \A k \in Events \cup Episodes :
              RowOf(k)' = IF k \in dead THEN NoRow ELSE RowOf(k)
<1>1. /\ events \in [Events -> Timeline!EventRow \cup {NoRow}]
      /\ events' = [k \in Events |-> IF k \in dead THEN NoRow ELSE events[k]]
  BY DEF RowsTyped, Timeline!Removed
<1>2. /\ episodes \in [Episodes -> Timeline!EpisodeRow \cup {NoRow}]
      /\ episodes' = [k \in Episodes |-> IF k \in dead THEN NoRow ELSE episodes[k]]
  BY DEF RowsTyped, Timeline!Removed
<1>. QED BY <1>1, <1>2 DEF RowOf

LEMMA IngestKeeps ==
  ASSUME TimelineInv, Timeline!Ingesting
  PROVE  TimelineInv'
<1>. USE DEF TimelineInv, TasksTyped
<1>1. ASSUME NEW g \in Episodes, NEW s \in SUBSET Events, NEW x \in Timeline!Expiries,
             Timeline!IngestReads(g, s, x)
      PROVE  TimelineInv'
  <2>1. <<>> \in StoredEvents
    <3>1. <<>> \in [{} -> Timeline!Expiries]
      OBVIOUS
    <3>. QED BY <3>1 DEF StoredEvents
  <2>2. s # {}
    BY <1>1 DEF Timeline!IngestReads, Timeline!Grouped
  <2>3. IngestTyped'
    BY <1>1, <2>1, <2>2 DEF Timeline!IngestReads, IngestTyped
  <2>4. RowsTyped'
    BY <1>1, TimelineAssumption DEF Timeline!IngestReads, RowsTyped, Timeline!store, Timeline!rows, Timeline!reader
  <2>. QED BY <1>1, <2>3, <2>4, SearchStays DEF Timeline!IngestReads, Timeline!store, Timeline!rows,
           Timeline!reader, IndexTyped, SweepsTyped, RecallTyped, WithdrawnIsDead, ServedWasCurrent
<1>2. ASSUME NEW e \in Events, Timeline!IngestStoresEvent(e) PROVE TimelineInv'
  <2>. DEFINE row == Timeline!UpsertedEvent(e, ingest.expires)
              stored == [y \in DOMAIN ingest.stored \cup {e} |->
                            IF y = e THEN row.expires ELSE ingest.stored[y]]
  <2>1. /\ ingest \in [at : {"events"}, episode : Episodes, todo : SUBSET Events,
                       stored : StoredEvents, expires : Timeline!Expiries]
        /\ e \in ingest.todo
    BY <1>2 DEF Timeline!IngestStoresEvent, IngestTyped, Timeline!Idle
  <2>2. row \in Timeline!EventRow /\ ~row.deleted
    BY <2>1, UpsertedEventIsRow
  <2>3. row.expires \in Timeline!Expiries
    BY <2>2, RowFields
  <2>. HIDE DEF row
  <2>4. /\ events' = [events EXCEPT ![e] = row] /\ Timeline!Projects(e)
        /\ ingest' = [ingest EXCEPT !.todo = @ \ {e}, !.stored = stored]
    BY <1>2 DEF Timeline!IngestStoresEvent, row
  <2>5. PICK D \in SUBSET Events : ingest.stored \in [D -> Timeline!Expiries]
    BY <2>1 DEF StoredEvents
  <2>6. stored \in [D \cup {e} -> Timeline!Expiries]
    BY <2>3, <2>5
  <2>7. stored \in StoredEvents /\ DOMAIN stored # {}
    BY <2>5, <2>6 DEF StoredEvents
  <2>. HIDE DEF stored
  <2>8. IngestTyped'
    BY <2>1, <2>4, <2>7 DEF IngestTyped
  <2>9. episodes' = episodes /\ UNCHANGED <<life, retain>>
    BY <1>2 DEF Timeline!IngestStoresEvent
  <2>10. /\ events' \in [Events -> Timeline!EventRow \cup {NoRow}]
         /\ found' \subseteq Events \cup Episodes /\ crossed' \subseteq Events \cup Episodes
         /\ SearchIsRight'
    BY <2>2, <2>4, <2>9, EventWritten
  <2>. QED BY <1>2, <2>8, <2>10 DEF Timeline!IngestStoresEvent, RowsTyped, Timeline!reader,
           Timeline!bounds, IndexTyped, SweepsTyped, RecallTyped, WithdrawnIsDead, ServedWasCurrent
<1>3. CASE Timeline!IngestStoresEpisode
  <2>. DEFINE g == ingest.episode
              row == Timeline!UpsertedEpisode(g, DOMAIN ingest.stored,
                                              Timeline!SharedExpiry(ingest.stored))
  <2>1. /\ g \in Episodes /\ ingest.stored \in StoredEvents /\ DOMAIN ingest.stored # {}
    BY <1>3 DEF Timeline!IngestStoresEpisode, IngestTyped, Timeline!Idle
  <2>2. row \in Timeline!EpisodeRow /\ ~row.deleted
    BY <2>1, SharedIsExpiry, UpsertedEpisodeIsRow
  <2>3. /\ episodes' = [episodes EXCEPT ![g] = row] /\ Timeline!Projects(g)
        /\ events' = events /\ withdrawn' = withdrawn \ {g} /\ recall' = recall
        /\ UNCHANGED <<life, retain>>
    BY <1>3 DEF Timeline!IngestStoresEpisode
  <2>. HIDE DEF row, g
  <2>4. /\ episodes' \in [Episodes -> Timeline!EpisodeRow \cup {NoRow}]
        /\ withdrawn' \subseteq Episodes
        /\ found' \subseteq Events \cup Episodes /\ crossed' \subseteq Events \cup Episodes
        /\ SearchIsRight' /\ WithdrawnIsDead' /\ ServedWasCurrent'
    BY <2>1, <2>2, <2>3, EpisodeWritten
  <2>. QED BY <1>3, <2>4 DEF Timeline!IngestStoresEpisode, RowsTyped, Timeline!bounds,
           IngestTyped, IndexTyped, SweepsTyped, RecallTyped
<1>. QED BY <1>1, <1>2, <1>3 DEF Timeline!Ingesting

LEMMA IndexKeeps ==
  ASSUME TimelineInv, Timeline!Indexing
  PROVE  TimelineInv'
<1>. USE DEF TimelineInv, TasksTyped
<1>. DEFINE left(g) == DOMAIN index.copies \ {g}
<1>0. ASSUME NEW g \in Episodes, index # Timeline!Idle
      PROVE  /\ \/ Timeline!IndexRest(g) = Timeline!Idle
                \/ Timeline!IndexRest(g) \in [at : {"listed"}, copies : Copies]
             /\ index.copies \in Copies
  <2>1. index.copies \in Copies
    BY <1>0 DEF IndexTyped
  <2>2. PICK D \in SUBSET Episodes : index.copies \in [D -> Timeline!Point]
    BY <2>1 DEF Copies
  <2>3. [h \in left(g) |-> index.copies[h]] \in [D \ {g} -> Timeline!Point]
    BY <2>2
  <2>4. [h \in left(g) |-> index.copies[h]] \in Copies
    BY <2>3 DEF Copies
  <2>. QED BY <2>1, <2>4 DEF Timeline!IndexRest
<1>1. CASE Timeline!IndexLists
  <2>. DEFINE listed == {g \in Episodes : Timeline!Current(episodes[g], clock)}
  <2>1. \A g \in listed : Timeline!Copied(episodes[g]) \in Timeline!Point
    BY RowFields DEF RowsTyped, Timeline!Current, Timeline!Live, Timeline!Copied
  <2>2. [g \in listed |-> Timeline!Copied(episodes[g])] \in Copies
    <3>1. [g \in listed |-> Timeline!Copied(episodes[g])] \in [listed -> Timeline!Point]
      BY <2>1
    <3>. QED BY <3>1 DEF Copies
  <2>3. IndexTyped'
    BY <1>1, <2>2 DEF Timeline!IndexLists, IndexTyped
  <2>. QED BY <1>1, <2>3, SearchStays DEF Timeline!IndexLists, Timeline!store, Timeline!rows, Timeline!reader,
           Timeline!bounds, RowsTyped, IngestTyped, SweepsTyped, RecallTyped,
           WithdrawnIsDead, ServedWasCurrent
<1>2. ASSUME NEW g \in Episodes, Timeline!IndexReads(g) PROVE TimelineInv'
  <2>1. index # Timeline!Idle /\ g \in DOMAIN index.copies
    BY <1>2 DEF Timeline!IndexReads, Timeline!Idle
  <2>2. index' \in {Timeline!Idle, Timeline!IndexRest(g),
                    [at |-> "embedding", copies |-> index.copies, episode |-> g]}
    BY <1>2 DEF Timeline!IndexReads
  <2>3. IndexTyped'
    BY <1>0, <2>1, <2>2 DEF IndexTyped
  <2>. QED BY <1>2, <2>3, SearchStays DEF Timeline!IndexReads, Timeline!store, Timeline!rows, Timeline!reader,
           Timeline!bounds, RowsTyped, IngestTyped, SweepsTyped, RecallTyped,
           WithdrawnIsDead, ServedWasCurrent
<1>3. CASE Timeline!IndexWritesPoint
  <2>1. /\ index \in [at : {"embedding", "marking"}, copies : Copies, episode : Episodes]
        /\ index.episode \in DOMAIN index.copies
    BY <1>3 DEF Timeline!IndexWritesPoint, IndexTyped, Timeline!Idle
  <2>3. index.copies[index.episode] \in Timeline!Point
    BY <2>1 DEF Copies
  <2>4. points' \in [Episodes -> Timeline!Point \cup {NoRow}]
    BY <1>3, <2>1, <2>3 DEF Timeline!IndexWritesPoint, RowsTyped
  <2>5. IndexTyped'
    BY <1>3, <2>1 DEF Timeline!IndexWritesPoint, IndexTyped
  <2>. QED BY <1>3, <2>4, <2>5, SearchStays DEF Timeline!IndexWritesPoint, Timeline!rows, Timeline!reader,
           Timeline!bounds, RowsTyped, IngestTyped, SweepsTyped, RecallTyped,
           WithdrawnIsDead, ServedWasCurrent
<1>4. CASE Timeline!IndexMarksRow
  <2>. DEFINE g == index.episode
              copy == index.copies[index.episode]
              row == Timeline!UpsertedEpisode(g, copy.made, copy.expires)
  <2>1. /\ index \in [at : {"embedding", "marking"}, copies : Copies, episode : Episodes]
        /\ g \in DOMAIN index.copies /\ index # Timeline!Idle
    BY <1>4 DEF Timeline!IndexMarksRow, IndexTyped, Timeline!Idle
  <2>2. copy \in Timeline!Point /\ g \in Episodes
    BY <2>1 DEF Copies
  <2>3. row \in Timeline!EpisodeRow /\ ~row.deleted
    BY <2>2, RowFields, UpsertedEpisodeIsRow
  <2>4. /\ episodes' = [episodes EXCEPT ![g] = row] /\ Timeline!Projects(g)
        /\ events' = events /\ withdrawn' = withdrawn \ {g} /\ recall' = recall
        /\ UNCHANGED <<life, retain>>
        /\ index' = Timeline!IndexRest(g)
    BY <1>4 DEF Timeline!IndexMarksRow
  <2>5. IndexTyped'
    BY <1>0, <2>1, <2>2, <2>4 DEF IndexTyped
  <2>. HIDE DEF row, g
  <2>6. /\ episodes' \in [Episodes -> Timeline!EpisodeRow \cup {NoRow}]
        /\ withdrawn' \subseteq Episodes
        /\ found' \subseteq Events \cup Episodes /\ crossed' \subseteq Events \cup Episodes
        /\ SearchIsRight' /\ WithdrawnIsDead' /\ ServedWasCurrent'
    BY <2>2, <2>3, <2>4, EpisodeWritten
  <2>. QED BY <1>4, <2>5, <2>6 DEF Timeline!IndexMarksRow, RowsTyped, Timeline!bounds,
           IngestTyped, SweepsTyped, RecallTyped
<1>. QED BY <1>1, <1>2, <1>3, <1>4 DEF Timeline!Indexing

(* A clean-up that moves on without a list, or ends, holds none.           *)
LEMMA SweepMoves ==
  ASSUME SearchIsRight, UNCHANGED <<events, episodes, found, crossed>>,
         life' = life \/ \A k : ~Timeline!Holds(life', k),
         retain' = retain \/ \A k : ~Timeline!Holds(retain', k)
  PROVE  SearchIsRight'
  BY DEF SearchIsRight, ListsAreRight, RowOf

LEMMA LifecycleKeeps ==
  ASSUME TimelineInv, Timeline!Lifecycle
  PROVE  TimelineInv'
<1>. USE DEF TimelineInv, TasksTyped
<1>1. CASE Timeline!PruneLists \/ \E g \in Episodes : Timeline!TombstoneReads(g)
  <2>1. life' \in [at : {"points"}, todo : SUBSET Episodes, only : SUBSET Episodes,
                   cutoff : Timeline!Times]
    BY <1>1 DEF Timeline!PruneLists, Timeline!TombstoneReads, RowsTyped
  <2>2. SearchIsRight'
    BY <1>1, <2>1, SweepMoves DEF Timeline!PruneLists, Timeline!TombstoneReads, Timeline!store,
       Timeline!rows, Timeline!Holds
  <2>. QED BY <1>1, <2>1, <2>2 DEF Timeline!PruneLists, Timeline!TombstoneReads, Timeline!store,
           Timeline!rows, Timeline!reader,
           Timeline!bounds, RowsTyped, IngestTyped, IndexTyped, SweepsTyped, RecallTyped,
           WithdrawnIsDead, ServedWasCurrent
<1>2. ASSUME NEW g \in Episodes, Timeline!LifeDeletesPoint(g) PROVE TimelineInv'
  <2>1. life \in [at : {"points"}, todo : SUBSET Episodes, only : SUBSET Episodes,
                  cutoff : Timeline!Times]
    BY <1>2 DEF Timeline!LifeDeletesPoint, SweepsTyped, Timeline!Idle
  <2>2. life' = [life EXCEPT !.todo = @ \ {g}]
    BY <1>2 DEF Timeline!LifeDeletesPoint
  <2>3. life' \in [at : {"points"}, todo : SUBSET Episodes, only : SUBSET Episodes,
                   cutoff : Timeline!Times]
    BY <2>1, <2>2
  <2>4. points' \in [Episodes -> Timeline!Point \cup {NoRow}]
    BY <1>2 DEF Timeline!LifeDeletesPoint, RowsTyped
  <2>5. SearchIsRight'
    BY <1>2, <2>3, SweepMoves DEF Timeline!LifeDeletesPoint, Timeline!rows, Timeline!Holds
  <2>. QED BY <1>2, <2>3, <2>4, <2>5 DEF Timeline!LifeDeletesPoint, Timeline!rows, Timeline!reader,
           Timeline!bounds, RowsTyped, IngestTyped, IndexTyped, SweepsTyped, RecallTyped,
           WithdrawnIsDead, ServedWasCurrent
<1>3. CASE Timeline!LifeFails
  <2>1. SearchIsRight'
    BY <1>3, SweepMoves DEF Timeline!LifeFails, Timeline!store, Timeline!rows, Timeline!Holds,
       Timeline!Idle
  <2>. QED BY <1>3, <2>1, TimelineAssumption DEF Timeline!LifeFails, Timeline!Fails, Timeline!store,
           Timeline!rows, Timeline!reader, RowsTyped, IngestTyped, IndexTyped, SweepsTyped,
           RecallTyped, WithdrawnIsDead, ServedWasCurrent
<1>4. CASE Timeline!PruneListsEvents
  <2>. DEFINE listed == Timeline!Due(events, life.cutoff)
  <2>1. life \in [at : {"points"}, todo : SUBSET Episodes, only : SUBSET Episodes,
                  cutoff : Timeline!Times]
    BY <1>4 DEF Timeline!PruneListsEvents, SweepsTyped, Timeline!Idle
  <2>2. /\ life' = [at |-> "listing", cutoff |-> life.cutoff, listed |-> listed]
        /\ UNCHANGED <<events, episodes, found, crossed, retain>>
    BY <1>4 DEF Timeline!PruneListsEvents, Timeline!store, Timeline!rows
  <2>3. /\ listed \in SUBSET Events
        /\ \A k \in Events : k \in listed <=> Timeline!Live(events[k])
                                               /\ Timeline!Expired(events[k], life.cutoff)
    BY DEF RowsTyped, Timeline!Due
  <2>. HIDE DEF listed
  <2>4. life' \in [at : {"listing"}, cutoff : Timeline!Times, listed : SUBSET Events]
    BY <2>1, <2>2, <2>3
  <2>5. SearchIsRight'
    BY <2>2, <2>3 DEF SearchIsRight, ListsAreRight, RowOf, Timeline!Holds
  <2>. QED BY <1>4, <2>4, <2>5 DEF Timeline!PruneListsEvents, Timeline!store, Timeline!rows,
           Timeline!reader, Timeline!bounds, RowsTyped, IngestTyped, IndexTyped, SweepsTyped,
           RecallTyped, WithdrawnIsDead, ServedWasCurrent
<1>5. CASE Timeline!PruneListsEpisodes
  <2>. DEFINE more == Timeline!Due(episodes, life.cutoff)
  <2>1. life \in [at : {"listing"}, cutoff : Timeline!Times, listed : SUBSET Events]
    BY <1>5 DEF Timeline!PruneListsEpisodes, SweepsTyped, Timeline!Idle
  <2>2. /\ life' = [at |-> "listed", cutoff |-> life.cutoff, listed |-> life.listed \cup more]
        /\ UNCHANGED <<events, episodes, found, crossed, retain>>
    BY <1>5 DEF Timeline!PruneListsEpisodes, Timeline!store, Timeline!rows
  <2>3. /\ more \in SUBSET Episodes
        /\ \A k \in Episodes : k \in more <=> Timeline!Live(episodes[k])
                                             /\ Timeline!Expired(episodes[k], life.cutoff)
    BY DEF RowsTyped, Timeline!Due
  <2>. HIDE DEF more
  <2>4. life' \in [at : {"listed"}, cutoff : Timeline!Times, listed : Lists]
    BY <2>1, <2>2, <2>3 DEF Lists
  <2>5. life'.at = "listed" /\ life'.cutoff = life.cutoff /\ life'.listed = life.listed \cup more
    BY <2>2
  <2>6. ASSUME NEW k \in (Events \cup Episodes) \ crossed, Timeline!Live(RowOf(k))
        PROVE  k \in life'.listed <=> Timeline!Expired(RowOf(k), life.cutoff)
    <3>1. CASE k \in Events
      <4>1. Timeline!Holds(life, k)
        BY <2>1, <3>1 DEF Timeline!Holds
      <4>. QED BY <2>3, <2>5, <2>6, <3>1, <4>1, RowFields DEF SearchIsRight, ListsAreRight
    <3>2. CASE k \in Episodes
      BY <2>1, <2>3, <2>5, <2>6, <3>2, RowFields DEF RowOf
    <3>. QED BY <3>1, <3>2
  <2>7. \A k \in (Events \cup Episodes) \ crossed : RowOf(k)' = RowOf(k)
    BY <2>2 DEF RowOf
  <2>8. SearchIsRight'
    BY <2>2, <2>5, <2>6, <2>7 DEF SearchIsRight, ListsAreRight
  <2>. QED BY <1>5, <2>4, <2>8 DEF Timeline!PruneListsEpisodes, Timeline!store, Timeline!rows,
           Timeline!reader, Timeline!bounds, RowsTyped, IngestTyped, IndexTyped, SweepsTyped,
           RecallTyped, WithdrawnIsDead, ServedWasCurrent
<1>6. CASE Timeline!PruneTombstones
  <2>. DEFINE dead == Timeline!Due(events, life.cutoff) \cup Timeline!Due(episodes, life.cutoff)
  <2>1. life \in [at : {"listed"}, cutoff : Timeline!Times, listed : Lists]
    BY <1>6 DEF Timeline!PruneTombstones, SweepsTyped, Timeline!Idle
  <2>2. \A k \in Events \cup Episodes : k \in dead <=> Timeline!Live(RowOf(k))
                                                     /\ Timeline!Expired(RowOf(k), life.cutoff)
    BY RowFields DEF RowsTyped, RowOf, Timeline!Due
  <2>3. /\ events' = Timeline!Tombstoned(events, dead)
        /\ episodes' = Timeline!Tombstoned(episodes, dead)
        /\ found' = found \ life.listed /\ life' = Timeline!Idle
        /\ UNCHANGED <<crossed, retain>>
    BY <1>6, RowFields DEF Timeline!PruneTombstones, Timeline!Tombstoned, Timeline!Due, RowsTyped
  <2>. HIDE DEF dead
  <2>4. /\ events' \in [Events -> Timeline!EventRow \cup {NoRow}]
        /\ episodes' \in [Episodes -> Timeline!EpisodeRow \cup {NoRow}]
        /\ \A k \in Events \cup Episodes :
             /\ Timeline!Live(RowOf(k)') <=> Timeline!Live(RowOf(k)) /\ k \notin dead
             /\ RowOf(k)' # NoRow <=> RowOf(k) # NoRow
             /\ RowOf(k)' # NoRow => RowOf(k)'.expires = RowOf(k).expires
    BY <2>2, <2>3, RowsMarked
  <2>5. ASSUME NEW k \in (Events \cup Episodes) \ crossed
        PROVE  k \in found' <=> Timeline!Live(RowOf(k)')
    <3>1. Timeline!Holds(life, k) /\ (k \in found <=> Timeline!Live(RowOf(k)))
      BY <2>1 DEF Timeline!Holds, SearchIsRight
    <3>2. Timeline!Live(RowOf(k)) =>
            (k \in life.listed <=> Timeline!Expired(RowOf(k), life.cutoff))
      BY <3>1 DEF SearchIsRight, ListsAreRight
    <3>. QED BY <2>2, <2>3, <2>4, <3>1, <3>2
  <2>6. ASSUME NEW k \in (Events \cup Episodes) \ crossed, Timeline!Holds(retain, k), RowOf(k)' # NoRow
        PROVE  k \in retain.listed <=> Timeline!Expired(RowOf(k)', retain.moment)
    <3>1. RowOf(k) # NoRow /\ RowOf(k)'.expires = RowOf(k).expires
      BY <2>4, <2>6
    <3>2. k \in retain.listed <=> Timeline!Expired(RowOf(k), retain.moment)
      BY <2>6, <3>1 DEF SearchIsRight, ListsAreRight
    <3>. QED BY <2>6, <3>1, <3>2 DEF Timeline!Expired
  <2>7. \A k : ~Timeline!Holds(life', k)
    BY <2>3 DEF Timeline!Holds, Timeline!Idle
  <2>8. SearchIsRight'
    BY <2>3, <2>5, <2>6, <2>7 DEF SearchIsRight, ListsAreRight
  <2>9. WithdrawnIsDead'
    BY <1>6, <2>4, RowFields DEF WithdrawnIsDead, RowsTyped, RowOf, Timeline!PruneTombstones,
       Timeline!reader
  <2>. QED BY <1>6, <2>1, <2>3, <2>4, <2>8, <2>9 DEF Timeline!PruneTombstones, Timeline!reader,
           Timeline!bounds, RowsTyped, IngestTyped, IndexTyped, SweepsTyped, RecallTyped,
           ServedWasCurrent
<1>7. CASE Timeline!LifeTombstonesOne
  <2>. DEFINE dead == {g \in life.only : Timeline!Live(episodes[g])}
  <2>1. life \in [at : {"points"}, todo : SUBSET Episodes, only : SUBSET Episodes,
                  cutoff : Timeline!Times]
    BY <1>7 DEF Timeline!LifeTombstonesOne, SweepsTyped, Timeline!Idle
  <2>2. dead \subseteq Episodes /\ \A k \in (Events \cup Episodes) \cap dead : Timeline!Live(RowOf(k))
    BY <2>1, RowFields DEF RowOf
  <2>3. /\ episodes' = Timeline!Tombstoned(episodes, dead)
        /\ found' = found \ dead /\ life' = Timeline!Idle
        /\ UNCHANGED <<events, crossed, retain>>
    BY <1>7 DEF Timeline!LifeTombstonesOne
  <2>. HIDE DEF dead
  <2>4. events' = Timeline!Tombstoned(events, dead)
    BY <2>2, <2>3, RowFields DEF Timeline!Tombstoned, RowsTyped
  <2>5. /\ events' \in [Events -> Timeline!EventRow \cup {NoRow}]
        /\ episodes' \in [Episodes -> Timeline!EpisodeRow \cup {NoRow}]
        /\ \A k \in Events \cup Episodes :
             /\ Timeline!Live(RowOf(k)') <=> Timeline!Live(RowOf(k)) /\ k \notin dead
             /\ RowOf(k)' # NoRow <=> RowOf(k) # NoRow
             /\ RowOf(k)' # NoRow => RowOf(k)'.expires = RowOf(k).expires
    BY <2>2, <2>3, <2>4, RowsMarked
  <2>6. ASSUME NEW k \in (Events \cup Episodes) \ crossed
        PROVE  k \in found' <=> Timeline!Live(RowOf(k)')
    BY <2>3, <2>5 DEF SearchIsRight
  <2>7. ASSUME NEW k \in (Events \cup Episodes) \ crossed, Timeline!Holds(retain, k), RowOf(k)' # NoRow
        PROVE  k \in retain.listed <=> Timeline!Expired(RowOf(k)', retain.moment)
    <3>1. RowOf(k) # NoRow /\ RowOf(k)'.expires = RowOf(k).expires
      BY <2>5, <2>7
    <3>2. k \in retain.listed <=> Timeline!Expired(RowOf(k), retain.moment)
      BY <2>7, <3>1 DEF SearchIsRight, ListsAreRight
    <3>. QED BY <2>7, <3>1, <3>2 DEF Timeline!Expired
  <2>8. \A k : ~Timeline!Holds(life', k)
    BY <2>3 DEF Timeline!Holds, Timeline!Idle
  <2>9. SearchIsRight'
    BY <2>3, <2>6, <2>7, <2>8 DEF SearchIsRight, ListsAreRight
  <2>10. WithdrawnIsDead'
    BY <1>7, <2>5, RowFields DEF WithdrawnIsDead, RowsTyped, RowOf, Timeline!LifeTombstonesOne,
       Timeline!reader
  <2>. QED BY <1>7, <2>3, <2>5, <2>9, <2>10 DEF Timeline!LifeTombstonesOne, Timeline!reader,
           Timeline!bounds, RowsTyped, IngestTyped, IndexTyped, SweepsTyped, RecallTyped,
           ServedWasCurrent
<1>. QED BY <1>1, <1>2, <1>3, <1>4, <1>5, <1>6, <1>7 DEF Timeline!Lifecycle

LEMMA RetentionKeeps ==
  ASSUME TimelineInv, Timeline!Retention
  PROVE  TimelineInv'
<1>. USE DEF TimelineInv, TasksTyped
<1>1. CASE Timeline!RetainBegins
  <2>1. retain' \in [at : {"begun", "vectors"}, moment : Timeline!Times] /\ retain'.at = "begun"
    BY <1>1 DEF Timeline!RetainBegins, RowsTyped
  <2>2. SearchIsRight'
    BY <1>1, <2>1, SweepMoves DEF Timeline!RetainBegins, Timeline!store, Timeline!rows, Timeline!Holds
  <2>. QED BY <1>1, <2>1, <2>2 DEF Timeline!RetainBegins, Timeline!store, Timeline!rows,
           Timeline!reader, Timeline!bounds, RowsTyped, IngestTyped, IndexTyped, SweepsTyped,
           RecallTyped, WithdrawnIsDead, ServedWasCurrent
<1>2. CASE Timeline!RetainListsEvents
  <2>. DEFINE listed == Timeline!Past(events, retain.moment)
  <2>1. retain \in [at : {"begun", "vectors"}, moment : Timeline!Times]
    BY <1>2 DEF Timeline!RetainListsEvents, SweepsTyped, Timeline!Idle
  <2>2. /\ retain' = [at |-> "listing", moment |-> retain.moment, listed |-> listed]
        /\ UNCHANGED <<events, episodes, found, crossed, life>>
    BY <1>2 DEF Timeline!RetainListsEvents, Timeline!store, Timeline!rows
  <2>3. /\ listed \in SUBSET Events
        /\ \A k \in Events : k \in listed <=> Timeline!Expired(events[k], retain.moment)
    BY DEF RowsTyped, Timeline!Past
  <2>. HIDE DEF listed
  <2>4. retain' \in [at : {"listing"}, moment : Timeline!Times, listed : SUBSET Events]
    BY <2>1, <2>2, <2>3
  <2>5. SearchIsRight'
    BY <2>2, <2>3 DEF SearchIsRight, ListsAreRight, RowOf, Timeline!Holds
  <2>. QED BY <1>2, <2>4, <2>5 DEF Timeline!RetainListsEvents, Timeline!store, Timeline!rows,
           Timeline!reader, Timeline!bounds, RowsTyped, IngestTyped, IndexTyped, SweepsTyped,
           RecallTyped, WithdrawnIsDead, ServedWasCurrent
<1>3. CASE Timeline!RetainListsEpisodes
  <2>. DEFINE past == Timeline!Past(episodes, retain.moment)
  <2>1. retain \in [at : {"listing"}, moment : Timeline!Times, listed : SUBSET Events]
    BY <1>3 DEF Timeline!RetainListsEpisodes, SweepsTyped, Timeline!Idle
  <2>2. /\ retain' = [at |-> "listed", moment |-> retain.moment, listed |-> retain.listed \cup past]
        /\ UNCHANGED <<events, episodes, found, crossed, life>>
    BY <1>3 DEF Timeline!RetainListsEpisodes, Timeline!store, Timeline!rows
  <2>3. /\ past \in SUBSET Episodes
        /\ \A k \in Episodes : k \in past <=> Timeline!Expired(episodes[k], retain.moment)
    BY DEF RowsTyped, Timeline!Past
  <2>. HIDE DEF past
  <2>4. retain' \in [at : {"listed"}, moment : Timeline!Times, listed : Lists]
    BY <2>1, <2>2, <2>3 DEF Lists
  <2>5. retain'.at = "listed" /\ retain'.moment = retain.moment
        /\ retain'.listed = retain.listed \cup past
    BY <2>2
  <2>6. ASSUME NEW k \in (Events \cup Episodes) \ crossed, RowOf(k) # NoRow
        PROVE  k \in retain'.listed <=> Timeline!Expired(RowOf(k), retain.moment)
    <3>1. CASE k \in Events
      <4>1. Timeline!Holds(retain, k)
        BY <2>1, <3>1 DEF Timeline!Holds
      <4>. QED BY <2>3, <2>5, <2>6, <3>1, <4>1, RowFields DEF SearchIsRight, ListsAreRight
    <3>2. CASE k \in Episodes
      BY <2>1, <2>3, <2>5, <2>6, <3>2, RowFields DEF RowOf
    <3>. QED BY <3>1, <3>2
  <2>7. \A k \in (Events \cup Episodes) \ crossed : RowOf(k)' = RowOf(k)
    BY <2>2 DEF RowOf
  <2>8. SearchIsRight'
    BY <2>2, <2>5, <2>6, <2>7 DEF SearchIsRight, ListsAreRight
  <2>. QED BY <1>3, <2>4, <2>8 DEF Timeline!RetainListsEpisodes, Timeline!store, Timeline!rows,
           Timeline!reader, Timeline!bounds, RowsTyped, IngestTyped, IndexTyped, SweepsTyped,
           RecallTyped, WithdrawnIsDead, ServedWasCurrent
<1>4. CASE Timeline!RetainDeletesRows
  <2>. DEFINE dead == Timeline!Past(events, retain.moment) \cup Timeline!Past(episodes, retain.moment)
  <2>1. retain \in [at : {"listed"}, moment : Timeline!Times, listed : Lists]
    BY <1>4 DEF Timeline!RetainDeletesRows, SweepsTyped, Timeline!Idle
  <2>2. \A k \in Events \cup Episodes : k \in dead <=> Timeline!Expired(RowOf(k), retain.moment)
    BY RowFields DEF RowsTyped, RowOf, Timeline!Past
  <2>3. /\ events' = Timeline!Removed(events, dead)
        /\ episodes' = Timeline!Removed(episodes, dead)
        /\ found' = found \ retain.listed
        /\ retain' = [at |-> "vectors", moment |-> retain.moment]
        /\ UNCHANGED <<crossed, life>>
    BY <1>4, RowFields DEF Timeline!RetainDeletesRows, Timeline!Removed, Timeline!Past, RowsTyped
  <2>. HIDE DEF dead
  <2>4. /\ events' \in [Events -> Timeline!EventRow \cup {NoRow}]
        /\ episodes' \in [Episodes -> Timeline!EpisodeRow \cup {NoRow}]
        /\ \A k \in Events \cup Episodes :
             RowOf(k)' = IF k \in dead THEN NoRow ELSE RowOf(k)
    BY <2>3, RowsRemoved
  <2>5. ASSUME NEW k \in (Events \cup Episodes) \ crossed
        PROVE  k \in found' <=> Timeline!Live(RowOf(k)')
    <3>1. Timeline!Holds(retain, k) /\ (k \in found <=> Timeline!Live(RowOf(k)))
      BY <2>1 DEF Timeline!Holds, SearchIsRight
    <3>2. RowOf(k) # NoRow =>
            (k \in retain.listed <=> Timeline!Expired(RowOf(k), retain.moment))
      BY <3>1 DEF SearchIsRight, ListsAreRight
    <3>. QED BY <2>2, <2>3, <2>4, <3>1, <3>2 DEF Timeline!Live
  <2>6. ASSUME NEW k \in (Events \cup Episodes) \ crossed, Timeline!Holds(life, k),
               Timeline!Live(RowOf(k)')
        PROVE  k \in life.listed <=> Timeline!Expired(RowOf(k)', life.cutoff)
    <3>1. RowOf(k)' = RowOf(k)
      BY <2>4, <2>6 DEF Timeline!Live
    <3>. QED BY <2>6, <3>1 DEF SearchIsRight, ListsAreRight
  <2>7. \A k : ~Timeline!Holds(retain', k)
    BY <2>3 DEF Timeline!Holds
  <2>8. SearchIsRight'
    BY <2>3, <2>5, <2>6, <2>7 DEF SearchIsRight, ListsAreRight
  <2>9. WithdrawnIsDead'
    BY <1>4, <2>4, RowFields DEF WithdrawnIsDead, RowsTyped, RowOf, Timeline!RetainDeletesRows,
       Timeline!reader, Timeline!Live
  <2>10. retain' \in [at : {"begun", "vectors"}, moment : Timeline!Times]
    BY <2>1, <2>3
  <2>. QED BY <1>4, <2>4, <2>8, <2>9, <2>10 DEF Timeline!RetainDeletesRows, Timeline!reader,
           Timeline!bounds, RowsTyped, IngestTyped, IndexTyped, SweepsTyped, RecallTyped,
           ServedWasCurrent
<1>5. CASE Timeline!RetainDeletesPoints
  <2>1. SearchIsRight'
    BY <1>5, SweepMoves DEF Timeline!RetainDeletesPoints, Timeline!rows, Timeline!Holds, Timeline!Idle
  <2>. QED BY <1>5, <2>1 DEF Timeline!RetainDeletesPoints, Timeline!rows, Timeline!reader,
           Timeline!bounds, RowsTyped, IngestTyped, IndexTyped, SweepsTyped, RecallTyped,
           WithdrawnIsDead, ServedWasCurrent
<1>6. CASE Timeline!RetainFails
  <2>1. SearchIsRight'
    BY <1>6, SweepMoves DEF Timeline!RetainFails, Timeline!store, Timeline!rows, Timeline!Holds,
       Timeline!Idle
  <2>. QED BY <1>6, <2>1, TimelineAssumption DEF Timeline!RetainFails, Timeline!Fails, Timeline!store,
           Timeline!rows, Timeline!reader, RowsTyped, IngestTyped, IndexTyped, SweepsTyped,
           RecallTyped, WithdrawnIsDead, ServedWasCurrent
<1>. QED BY <1>1, <1>2, <1>3, <1>4, <1>5, <1>6 DEF Timeline!Retention, Timeline!RetainActs

LEMMA RecallKeeps ==
  ASSUME TimelineInv, Timeline!Recalling
  PROVE  TimelineInv'
<1>. USE DEF TimelineInv, TasksTyped
<1>1. ASSUME NEW g \in Episodes, Timeline!RecallHits(g) PROVE TimelineInv'
  <2>1. points[g].made \in SUBSET Events
    BY <1>1, RowFields DEF Timeline!RecallHits, RowsTyped
  <2>. QED BY <1>1, <2>1, SearchStays DEF Timeline!RecallHits, Timeline!store, Timeline!rows, Timeline!tasks,
           Timeline!bounds, RowsTyped, IngestTyped, IndexTyped, SweepsTyped, RecallTyped,
           WithdrawnIsDead, ServedWasCurrent
<1>2. ASSUME NEW next, Timeline!RecallGoes(next), next # Timeline!Idle => RecallTyped',
             next # Timeline!Idle => ServedWasCurrent'
      PROVE  TimelineInv'
  BY <1>2, SearchStays DEF Timeline!RecallGoes, Timeline!store, Timeline!rows, Timeline!tasks,
     Timeline!bounds, RowsTyped, IngestTyped, IndexTyped, SweepsTyped, RecallTyped,
     WithdrawnIsDead, ServedWasCurrent, Timeline!Idle
<1>3. CASE Timeline!RecallReadsEpisode
  <2>. DEFINE row == episodes[recall.episode]
              next == IF Timeline!Current(row, clock) /\ row.made = recall.made
                      THEN Timeline!SourcesLeft(row) ELSE Timeline!Idle
  <2>1. Timeline!RecallGoes(next) /\ recall.episode \in Episodes
    BY <1>3 DEF Timeline!RecallReadsEpisode, RecallTyped, Timeline!Idle
  <2>2. recall' = next
    BY <2>1 DEF Timeline!RecallGoes
  <2>3. ASSUME next # Timeline!Idle PROVE RecallTyped' /\ ServedWasCurrent'
    <3>1. Timeline!Live(row) /\ next = Timeline!SourcesLeft(row)
      BY <2>3 DEF Timeline!Current
    <3>2. row \in Timeline!EpisodeRow /\ recall.episode \notin withdrawn
      BY <2>1, <3>1 DEF RowsTyped, Timeline!Live, WithdrawnIsDead
    <3>3. withdrawn' = withdrawn
      BY <2>1, <2>3 DEF Timeline!RecallGoes
    <3>. HIDE DEF next
    <3>. QED BY <2>1, <2>2, <3>1, <3>2, <3>3, RowFields DEF Timeline!SourcesLeft, RecallTyped,
             ServedWasCurrent, RowsTyped
  <2>. HIDE DEF next
  <2>. QED BY <1>2, <2>1, <2>3
<1>4. ASSUME NEW e \in Events, Timeline!RecallReadsEvent(e) PROVE TimelineInv'
  <2>. DEFINE next == IF Timeline!Current(events[e], recall.now)
                      THEN [recall EXCEPT !.left = @ \ {e}] ELSE Timeline!Idle
  <2>1. Timeline!RecallGoes(next) /\ recall.at = "sources"
    BY <1>4 DEF Timeline!RecallReadsEvent
  <2>2. recall \in [at : {"sources"}, episode : Episodes, now : Timeline!Times, left : SUBSET Events]
    BY <2>1 DEF RecallTyped, Timeline!Idle
  <2>3. recall' = next
    BY <2>1 DEF Timeline!RecallGoes
  <2>4. ASSUME next # Timeline!Idle PROVE RecallTyped' /\ ServedWasCurrent'
    <3>1. recall' = [recall EXCEPT !.left = @ \ {e}]
      BY <2>3, <2>4
    <3>2. withdrawn' = withdrawn
      BY <2>1, <2>4 DEF Timeline!RecallGoes
    <3>3. recall' \in [at : {"sources"}, episode : Episodes, now : Timeline!Times, left : SUBSET Events]
          /\ recall'.episode = recall.episode
      BY <2>2, <3>1
    <3>. QED BY <2>1, <3>2, <3>3 DEF RecallTyped, ServedWasCurrent
  <2>. HIDE DEF next
  <2>. QED BY <1>2, <2>1, <2>4
<1>5. CASE Timeline!RecallServes
  <2>. DEFINE next == [at |-> "served", episode |-> recall.episode]
  <2>1. Timeline!RecallGoes(next) /\ recall.at = "sources" /\ recall.episode \in Episodes
    BY <1>5 DEF Timeline!RecallServes, RecallTyped, Timeline!Idle
  <2>2. recall' = next /\ (next # Timeline!Idle => withdrawn' = withdrawn)
    BY <2>1 DEF Timeline!RecallGoes
  <2>3. ASSUME next # Timeline!Idle PROVE RecallTyped' /\ ServedWasCurrent'
    BY <2>1, <2>2, <2>3 DEF RecallTyped, ServedWasCurrent
  <2>. HIDE DEF next
  <2>. QED BY <1>2, <2>1, <2>3
<1>. QED BY <1>1, <1>3, <1>4, <1>5 DEF Timeline!Recalling

LEMMA TimelineInit == Timeline!Init => TimelineInv
  BY TimelineAssumption, RowFields DEF Timeline!Init, TimelineInv, RowsTyped, TasksTyped,
     IngestTyped, IndexTyped, SweepsTyped, RecallTyped, SearchIsRight, ListsAreRight, RowOf,
     Timeline!Holds, WithdrawnIsDead, ServedWasCurrent, Timeline!Live, Timeline!Times, Timeline!Idle

LEMMA TimelineNext == TimelineInv /\ [Timeline!Next]_TimelineState => TimelineInv'
<1>. SUFFICES ASSUME TimelineInv, [Timeline!Next]_TimelineState PROVE TimelineInv'
  OBVIOUS
<1>1. CASE Timeline!Tick
  BY <1>1, TimelineAssumption, SearchStays DEF TimelineInv, TasksTyped, Timeline!Tick, Timeline!store,
     Timeline!rows, Timeline!tasks, Timeline!reader, Timeline!Times,
     RowsTyped, IngestTyped, IndexTyped, SweepsTyped, RecallTyped, WithdrawnIsDead, ServedWasCurrent
<1>2. CASE Timeline!Killed
  BY <1>2, TimelineAssumption, SearchStays DEF TimelineInv, TasksTyped, Timeline!Killed, Timeline!Fails,
     Timeline!store, Timeline!rows, Timeline!reader,
     RowsTyped, IngestTyped, IndexTyped, SweepsTyped, RecallTyped, WithdrawnIsDead, ServedWasCurrent
<1>3. CASE UNCHANGED TimelineState
  BY <1>3, SearchStays DEF TimelineInv, TasksTyped, TimelineState, RowsTyped, IngestTyped, IndexTyped,
     SweepsTyped, RecallTyped, WithdrawnIsDead, ServedWasCurrent
<1>. QED BY <1>1, <1>2, <1>3, IngestKeeps, IndexKeeps, LifecycleKeeps, RetentionKeeps, RecallKeeps
         DEF Timeline!Next

LEMMA SearchMatches == TimelineInv => Timeline!SearchMatchesRows
  BY DEF TimelineInv, SearchIsRight, RowOf, Timeline!SearchMatchesRows, Timeline!LiveRow

-----------------------------------------------------------------------------
(***************************************************************************)
(* ManualMemory, for any number of memories: a deletion that has removed   *)
(* the point leaves nothing that could write it again, unless it is        *)
(* excused, and while sync() runs nobody deletes.                          *)
(***************************************************************************)
MemoryInv ==
    /\ Manual!MemoryTypeOK
    /\ Manual!PointsHaveRows
    /\ indexing \subseteq memories \cup excused /\ excused \subseteq 1..created
    /\ \A i \in Manual!MemoryIds :
          /\ deleting[i] # "no" => i \in memories /\ syncing = {}
          /\ deleting[i] = "unpointed" => i \in excused \/ i \notin vectors \cup indexing

LEMMA MemoryInit == Manual!Init => MemoryInv
  BY MemoryAssumption DEF Manual!Init, MemoryInv, Manual!MemoryTypeOK, Manual!PointsHaveRows,
     Manual!MemoryIds

LEMMA MemoryNext == MemoryInv /\ [Manual!Next]_ManualState => MemoryInv'
<1>. SUFFICES ASSUME MemoryInv, [Manual!Next]_ManualState PROVE MemoryInv'
  OBVIOUS
<1>. USE MemoryAssumption DEF MemoryInv, Manual!MemoryTypeOK, Manual!PointsHaveRows,
     Manual!MemoryIds, Manual!Serving, Manual!Trouble
<1>1. CASE Manual!MemoryCreated
  <2>1. /\ created' = created + 1 /\ created + 1 \in Manual!MemoryIds
        /\ memories' = memories \cup {created + 1}
        /\ indexing' \in {indexing, indexing \cup {created + 1}}
        /\ UNCHANGED <<vectors, deleting, available, syncing, excused, troubles>>
    BY <1>1 DEF Manual!MemoryCreated
  <2>2. created + 1 \notin memories /\ created + 1 \notin vectors
    OBVIOUS
  <2>3. deleting[created + 1] = "no"
    BY <2>1, <2>2
  <2>. QED BY <2>1, <2>2, <2>3
<1>2. CASE Manual!SyncFails
  BY <1>2 DEF Manual!SyncFails
<1>3. ASSUME NEW b \in BOOLEAN, Manual!MemoryRestarted(b) PROVE MemoryInv'
  BY <1>3 DEF Manual!MemoryRestarted
<1>4. ASSUME NEW i \in Manual!MemoryIds, Manual!MemoryIndexed(i) PROVE MemoryInv'
  <2>1. i \in memories \cup excused /\ (deleting[i] = "unpointed" => i \in excused)
    BY <1>4 DEF Manual!MemoryIndexed
  <2>2. vectors' \subseteq 1..created
    BY <1>4, <2>1 DEF Manual!MemoryIndexed
  <2>. QED BY <1>4, <2>1, <2>2 DEF Manual!MemoryIndexed
<1>5. ASSUME NEW i \in Manual!MemoryIds, Manual!IndexingFails(i) PROVE MemoryInv'
  BY <1>5 DEF Manual!IndexingFails
<1>6. ASSUME NEW i \in Manual!MemoryIds, Manual!SyncIndexes(i) PROVE MemoryInv'
  BY <1>6 DEF Manual!SyncIndexes
<1>7. ASSUME NEW i \in Manual!MemoryIds, Manual!DeletionLooks(i) PROVE MemoryInv'
  BY <1>7 DEF Manual!DeletionLooks
<1>8. ASSUME NEW i \in Manual!MemoryIds, Manual!DeletionUnpoints(i) PROVE MemoryInv'
  BY <1>8 DEF Manual!DeletionUnpoints
<1>9. ASSUME NEW i \in Manual!MemoryIds, Manual!DeletionEnds(i) PROVE MemoryInv'
  BY <1>9 DEF Manual!DeletionEnds
<1>10. ASSUME NEW i \in Manual!MemoryIds, Manual!DeletionFails(i) PROVE MemoryInv'
  BY <1>10 DEF Manual!DeletionFails
<1>11. CASE UNCHANGED ManualState
  BY <1>11 DEF ManualState
<1>. QED BY <1>1, <1>2, <1>3, <1>4, <1>5, <1>6, <1>7, <1>8, <1>9, <1>10, <1>11 DEF Manual!Next

-----------------------------------------------------------------------------
(***************************************************************************)
(* ScreenMemory, for any meetings and chunks. A chunk without a transcript *)
(* whose meeting is not done has not been paid for, but for the answers    *)
(* that were lost and the one the transcriber holds just now.              *)
(***************************************************************************)
ScribeShape ==
    \/ scribe = Screen!Idle
    \/ scribe \in [at : {"listed"}, todo : SUBSET Meetings]
    \/ scribe \in [at : {"chunks"}, todo : SUBSET Meetings, meeting : Meetings,
                   left : SUBSET ScreenChunks]
    \/ scribe \in [at : {"saving"}, todo : SUBSET Meetings, meeting : Meetings,
                   left : SUBSET ScreenChunks, chunk : ScreenChunks]

ScreenTyped ==
    /\ sent \in [ScreenChunks -> Nat] /\ lost \in [ScreenChunks -> Nat]
    /\ meetingJobs \in [Meetings -> {"none", "blocked", "completed"}]
    /\ ended \subseteq Meetings /\ ScribeShape

(* The meetings of the list are not done yet; the chunks are of the one    *)
(* that is open.                                                           *)
ScribeWorks ==
    /\ scribe.at # "idle" => \A m \in scribe.todo : meetingJobs[m] = "none"
    /\ scribe.at \in {"chunks", "saving"} =>
          /\ scribe.meeting \in scribe.todo
          /\ \A c \in scribe.left : MeetingOf[c] = scribe.meeting
    /\ scribe.at = "saving" => MeetingOf[scribe.chunk] = scribe.meeting

IsHeld(c) == scribe.at = "saving" /\ scribe.chunk = c
PaidUp ==
    \A c \in ScreenChunks :
        /\ sent[c] <= 1 + lost[c]
        /\ c \notin transcripts /\ meetingJobs[MeetingOf[c]] = "none" /\ ~IsHeld(c)
              => sent[c] <= lost[c]

ScreenInv == ScreenTyped /\ ScribeWorks /\ PaidUp

LEMMA ScreenInit == Screen!Init => ScreenInv
  BY DEF Screen!Init, ScreenInv, ScreenTyped, ScribeShape, ScribeWorks, PaidUp, Screen!Idle

LEMMA RestKeeps ==
  ASSUME ScreenTyped, scribe.at \in {"listed", "chunks"}, NEW m
  PROVE  /\ \/ Screen!Rest(m) = Screen!Idle
            \/ Screen!Rest(m) \in [at : {"listed"}, todo : SUBSET Meetings]
         /\ Screen!Rest(m).at \notin {"chunks", "saving"}
         /\ Screen!Rest(m).at # "idle" => Screen!Rest(m).todo = scribe.todo \ {m}
  BY DEF ScreenTyped, ScribeShape, Screen!Idle, Screen!Rest

LEMMA ListingKeeps ==
  ASSUME ScreenInv,
         \/ Screen!EpochNoted \/ Screen!MeetingsListed
         \/ \E m \in Meetings : Screen!MeetingOpened(m)
         \/ \E c \in ScreenChunks, b \in BOOLEAN : Screen!ChunkPassed(c, b)
  PROVE  ScreenInv'
<1>. USE DEF ScreenInv, ScreenTyped
<1>1. CASE Screen!EpochNoted
  BY <1>1 DEF Screen!EpochNoted, ScribeShape, ScribeWorks, PaidUp, IsHeld
<1>2. CASE Screen!MeetingsListed
  <2>1. PICK T \in SUBSET Meetings : /\ scribe' = [at |-> "listed", todo |-> T]
                                     /\ \A m \in T : meetingJobs[m] = "none"
    <3>1. {m \in ended \ early : meetingJobs[m] = "none"} \in SUBSET Meetings
      BY ScreenAssumption DEF ScreenTyped
    <3>. QED BY <1>2, <3>1 DEF Screen!MeetingsListed
  <2>. QED BY <1>2, <2>1 DEF Screen!MeetingsListed, ScribeShape, ScribeWorks, PaidUp, IsHeld, Screen!Idle
<1>3. ASSUME NEW m \in Meetings, Screen!MeetingOpened(m) PROVE ScreenInv'
  <2>1. scribe \in [at : {"listed"}, todo : SUBSET Meetings]
    BY <1>3 DEF Screen!MeetingOpened, ScribeShape, Screen!Idle
  <2>2. /\ ScribeShape' /\ ScribeWorks' /\ scribe'.at = "chunks"
    BY <1>3, <2>1 DEF Screen!MeetingOpened, ScribeShape, ScribeWorks, Screen!ChunksOf
  <2>. QED BY <1>3, <2>1, <2>2 DEF Screen!MeetingOpened, PaidUp, IsHeld
<1>4. ASSUME NEW c \in ScreenChunks, NEW b \in BOOLEAN, Screen!ChunkPassed(c, b) PROVE ScreenInv'
  <2>1. scribe \in [at : {"chunks"}, todo : SUBSET Meetings, meeting : Meetings,
                    left : SUBSET ScreenChunks]
    BY <1>4 DEF Screen!ChunkPassed, ScribeShape, Screen!Idle
  <2>2. /\ ScribeShape' /\ ScribeWorks' /\ scribe'.at = "chunks"
    BY <1>4, <2>1 DEF Screen!ChunkPassed, ScribeShape, ScribeWorks
  <2>. QED BY <1>4, <2>1, <2>2 DEF Screen!ChunkPassed, PaidUp, IsHeld
<1>. QED BY <1>1, <1>2, <1>3, <1>4

LEMMA HearingKeeps ==
  ASSUME ScreenInv, NEW c \in ScreenChunks, NEW b \in BOOLEAN, Screen!ChunkHeard(c, b)
  PROVE  ScreenInv'
<1>. USE DEF ScreenInv, ScreenTyped
<1>1. scribe \in [at : {"chunks"}, todo : SUBSET Meetings, meeting : Meetings,
                  left : SUBSET ScreenChunks]
  BY DEF Screen!ChunkHeard, ScribeShape, Screen!Idle
<1>2. /\ scribe' = Screen!Holding(c) /\ c \in scribe.left /\ c \notin transcripts
      /\ UNCHANGED <<transcripts, meetingJobs, lost>>
      /\ sent' = IF b THEN [sent EXCEPT ![c] = sent[c] + 1] ELSE sent
  BY DEF Screen!ChunkHeard
<1>3. ScribeShape' /\ ScribeWorks' /\ scribe'.at = "saving" /\ scribe'.chunk = c
  BY <1>1, <1>2 DEF Screen!Holding, ScribeShape, ScribeWorks
<1>4. sent[c] <= lost[c]
  BY <1>1, <1>2 DEF ScribeWorks, PaidUp, IsHeld
<1>5. ASSUME NEW d \in ScreenChunks
      PROVE  /\ sent'[d] <= 1 + lost[d]
             /\ d # c => sent'[d] = sent[d] /\ ~IsHeld(d)
  BY <1>1, <1>2, <1>4 DEF PaidUp, IsHeld
<1>6. PaidUp'
  BY <1>2, <1>3, <1>5 DEF PaidUp, IsHeld
<1>7. sent' \in [ScreenChunks -> Nat]
  BY <1>2
<1>. QED BY <1>2, <1>3, <1>6, <1>7 DEF Screen!ChunkHeard

LEMMA SavingKeeps ==
  ASSUME ScreenInv, Screen!ChunkSaved
  PROVE  ScreenInv'
<1>. USE DEF ScreenInv, ScreenTyped
<1>1. scribe \in [at : {"saving"}, todo : SUBSET Meetings, meeting : Meetings,
                  left : SUBSET ScreenChunks, chunk : ScreenChunks]
  BY DEF Screen!ChunkSaved, ScribeShape, Screen!Idle
<1>2. ScribeShape' /\ ScribeWorks' /\ scribe'.at = "chunks"
  BY <1>1 DEF Screen!ChunkSaved, ScribeShape, ScribeWorks
<1>. QED BY <1>1, <1>2 DEF Screen!ChunkSaved, PaidUp, IsHeld

LEMMA DoneKeeps ==
  ASSUME ScreenInv, NEW m \in Meetings,
         Screen!MeetingDenied(m) \/ (Screen!MeetingCompleted /\ m = scribe.meeting)
  PROVE  ScreenInv'
<1>. USE DEF ScreenInv, ScreenTyped
<1>1. /\ scribe.at \in {"listed", "chunks"} /\ scribe' = Screen!Rest(m)
      /\ UNCHANGED <<transcripts, sent, lost>>
      /\ \E s \in {"blocked", "completed"} : meetingJobs' = [meetingJobs EXCEPT ![m] = s]
  BY DEF Screen!MeetingDenied, Screen!MeetingCompleted
<1>2. ScribeShape' /\ ScribeWorks'
  BY <1>1, RestKeeps DEF ScribeShape, ScribeWorks, Screen!Idle
<1>3. ScreenTyped'
  BY <1>1, <1>2 DEF Screen!MeetingDenied, Screen!MeetingCompleted
<1>4. PaidUp'
  BY <1>1, <1>2, ScreenAssumption DEF PaidUp, IsHeld
<1>. QED BY <1>2, <1>3, <1>4

LEMMA LosingKeeps ==
  ASSUME ScreenInv, scribe' = Screen!Idle, lost' = Screen!LostNow,
         UNCHANGED <<ended, transcripts, meetingJobs, sent>>
  PROVE  ScreenInv'
<1>. USE DEF ScreenInv, ScreenTyped
<1>1. lost' \in [ScreenChunks -> Nat]
  BY DEF Screen!LostNow
<1>2. ASSUME NEW c \in ScreenChunks
      PROVE  /\ lost[c] <= lost'[c]
             /\ IsHeld(c) => sent[c] <= lost'[c]
  BY DEF Screen!LostNow, IsHeld, PaidUp
<1>3. PaidUp'
  BY <1>1, <1>2 DEF PaidUp
<1>. QED BY <1>1, <1>3 DEF ScribeShape, ScribeWorks, Screen!Idle

LEMMA ScreenNext == ScreenInv /\ [Screen!Next]_ScreenState => ScreenInv'
<1>. SUFFICES ASSUME ScreenInv, [Screen!Next]_ScreenState PROVE ScreenInv'
  OBVIOUS
<1>1. ASSUME ended' \subseteq Meetings, UNCHANGED <<transcripts, meetingJobs, sent, lost, scribe>>
      PROVE  ScreenInv'
  BY <1>1 DEF ScreenInv, ScreenTyped, ScribeShape, ScribeWorks, PaidUp, IsHeld
<1>2. CASE Screen!ScribeActs
  <2>1. CASE Screen!MeetingCompleted
    <3>1. scribe.meeting \in Meetings
      BY <2>1 DEF Screen!MeetingCompleted, ScreenInv, ScreenTyped, ScribeShape, Screen!Idle
    <3>. QED BY <2>1, <3>1, DoneKeeps
  <2>. QED BY <1>2, <2>1, ListingKeeps, HearingKeeps, SavingKeeps, DoneKeeps DEF Screen!ScribeActs
<1>3. CASE Screen!ScribeFails \/ Screen!Restarted
  BY <1>3, LosingKeeps DEF Screen!ScribeFails, Screen!Restarted
<1>4. CASE Screen!WorkerActs
  BY <1>1, <1>4 DEF ScreenInv, ScreenTyped, Screen!WorkerActs, Screen!transcribing, Screen!MigrationDone, Screen!PointsPruned,
     Screen!BankPruned, Screen!ActivitySeen, Screen!TranscriptsListed, Screen!RoundEnds,
     Screen!RoundBegins, Screen!RowMigrated, Screen!MeetingLooked, Screen!ActivityStored,
     Screen!MeetingStored
<1>5. CASE Screen!WorkerFails \/ Screen!BucketPasses \/ \E m \in Meetings : Screen!MemoryExpires(m)
  BY <1>1, <1>5 DEF ScreenInv, ScreenTyped, Screen!WorkerFails, Screen!BucketPasses, Screen!MemoryExpires, Screen!transcribing
<1>6. ASSUME NEW m \in Meetings, Screen!MeetingEnds(m) PROVE ScreenInv'
  BY <1>1, <1>6 DEF ScreenInv, ScreenTyped, Screen!MeetingEnds
<1>7. ASSUME NEW c \in ScreenChunks, Screen!TranscriptExpires(c) PROVE ScreenInv'
  BY <1>7 DEF Screen!TranscriptExpires, ScreenInv, ScreenTyped, ScribeShape, ScribeWorks, PaidUp, IsHeld
<1>8. CASE UNCHANGED ScreenState
  BY <1>1, <1>8 DEF ScreenInv, ScreenTyped, ScreenState
<1>. QED BY <1>2, <1>3, <1>4, <1>5, <1>6, <1>7, <1>8 DEF Screen!Next

-----------------------------------------------------------------------------
(***************************************************************************)
(* ContextShadow, for any finite set of requests: however the runs end, a  *)
(* slot is held by a run inside it or was lost with one that is cut, which *)
(* no later turn of the request takes up again.                            *)
(***************************************************************************)
InsideSlot == {"inside", "cutting", "closing"}
RunShape ==
    [at : {"none", "scheduled", "inside", "cutting", "closing", "tracing", "stating", "done",
           "failed", "cut"},
     verdict : Shadow!Verdicts, cut : BOOLEAN]

SlotsInv ==
    /\ run \in [Requests -> RunShape] /\ turn \in [Requests -> {"open", "over"}]
    /\ lostSlots \subseteq Requests /\ inflight \in Nat
    /\ \A r \in Requests : /\ turn[r] = "open" => run[r].at = "none"
                           /\ r \in lostSlots => run[r].at = "cut"
    /\ Shadow!SlotsComeBack

(* The count, by the Cardinality that the library's theorems are about.    *)
LEMMA SlotsCount ==
  /\ Shadow!SlotsComeBack <=> inflight = Cardinality(Shadow!InSlot) + Cardinality(lostSlots)
  /\ (Shadow!SlotsComeBack)'
        <=> inflight' = Cardinality(Shadow!InSlot') + Cardinality(lostSlots')
  BY DEF Shadow!SlotsComeBack, Shadow!Cardinality, Cardinality

LEMMA SlotsInit == Shadow!Init => SlotsInv
<1>. SUFFICES ASSUME Shadow!Init PROVE SlotsInv
  OBVIOUS
<1>1. Shadow!InSlot = {} /\ lostSlots = {}
  BY DEF Shadow!Init, Shadow!InSlot, Shadow!IdleRun
<1>2. Shadow!SlotsComeBack
  BY <1>1, FS_EmptySet, SlotsCount DEF Shadow!Init
<1>. QED BY <1>1, <1>2 DEF Shadow!Init, SlotsInv, RunShape, Shadow!IdleRun, Shadow!Verdicts

LEMMA SlotsAreFinite ==
  ASSUME SlotsInv
  PROVE  /\ IsFiniteSet(Shadow!InSlot) /\ IsFiniteSet(Shadow!Closing) /\ IsFiniteSet(lostSlots)
         /\ Shadow!InSlot \cap lostSlots = {}
<1>1. /\ Shadow!InSlot \subseteq Requests /\ Shadow!Closing \subseteq Requests
      /\ lostSlots \subseteq Requests
  BY DEF Shadow!InSlot, Shadow!Closing, SlotsInv
<1>2. Shadow!InSlot \cap lostSlots = {}
  BY DEF Shadow!InSlot, SlotsInv
<1>. QED BY <1>1, <1>2, ShadowAssumption, FS_Subset

(* One run moves on, and stays on its side of the slot.                    *)
LEMMA RunMoves ==
  ASSUME SlotsInv, NEW r \in Requests, NEW new \in RunShape, run' = [run EXCEPT ![r] = new],
         run[r].at # "cut", run[r].at \in InsideSlot <=> new.at \in InsideSlot,
         turn'[r] = "over", turn' \in [Requests -> {"open", "over"}],
         \A k \in Requests : k # r => turn'[k] = turn[k],
         UNCHANGED <<inflight, lostSlots>>
  PROVE  SlotsInv'
<1>1. run' \in [Requests -> RunShape] /\ run'[r] = new /\ \A k \in Requests : k # r => run'[k] = run[k]
  BY DEF SlotsInv
<1>2. Shadow!InSlot' = Shadow!InSlot
  BY <1>1 DEF Shadow!InSlot, InsideSlot
<1>3. (Shadow!SlotsComeBack)'
  BY <1>2, SlotsCount DEF SlotsInv
<1>. QED BY <1>1, <1>3 DEF SlotsInv

LEMMA EnteringKeeps ==
  ASSUME SlotsInv, NEW r \in Requests, Shadow!DualEnters(r)
  PROVE  SlotsInv'
<1>1. run[r] \in RunShape /\ run[r].at = "scheduled" /\ turn[r] = "over" /\ UNCHANGED <<turn, lostSlots>>
  BY DEF SlotsInv, Shadow!DualEnters
<1>2. CASE inflight >= MaxInflight
  <2>. DEFINE new == [run[r] EXCEPT !.at = "tracing", !.verdict = "uncertain"]
  <2>1. run' = [run EXCEPT ![r] = new] /\ UNCHANGED inflight
    BY <1>2 DEF Shadow!DualEnters, SlotsInv
  <2>2. new \in RunShape /\ new.at = "tracing"
    BY <1>1 DEF RunShape, Shadow!Verdicts
  <2>. HIDE DEF new
  <2>. QED BY <1>1, <2>1, <2>2, RunMoves DEF InsideSlot, SlotsInv
<1>3. CASE ~(inflight >= MaxInflight)
  <2>. DEFINE new == [run[r] EXCEPT !.at = "inside"]
  <2>1. run' = [run EXCEPT ![r] = new] /\ inflight' = inflight + 1
    BY <1>3 DEF Shadow!DualEnters, SlotsInv
  <2>2. new \in RunShape /\ new.at = "inside"
    BY <1>1 DEF RunShape
  <2>. HIDE DEF new
  <2>3. run' \in [Requests -> RunShape] /\ run'[r] = new /\ \A k \in Requests : k # r => run'[k] = run[k]
    BY <2>1, <2>2 DEF SlotsInv
  <2>4. Shadow!InSlot' = Shadow!InSlot \cup {r} /\ r \notin Shadow!InSlot
    BY <1>1, <2>2, <2>3 DEF Shadow!InSlot
  <2>5. Cardinality(Shadow!InSlot') = Cardinality(Shadow!InSlot) + 1
    BY <2>4, SlotsAreFinite, FS_AddElement
  <2>6. (Shadow!SlotsComeBack)' /\ inflight' \in Nat
    BY <1>1, <2>1, <2>5, SlotsAreFinite, FS_CardinalityType, SlotsCount
       DEF SlotsInv
  <2>. QED BY <1>1, <2>2, <2>3, <2>6 DEF SlotsInv
<1>. QED BY <1>2, <1>3

LEMMA LeavingKeepsSlots ==
  ASSUME SlotsInv, NEW r \in Requests, Shadow!DualLeaves(r)
  PROVE  SlotsInv'
<1>. DEFINE place == IF run[r].cut THEN "cut" ELSE "tracing"
            new == [run[r] EXCEPT !.at = place]
<1>1. run[r] \in RunShape /\ run[r].at = "closing" /\ turn[r] = "over" /\ UNCHANGED <<turn, lostSlots>>
  BY DEF SlotsInv, Shadow!DualLeaves
<1>2. run' = [run EXCEPT ![r] = new] /\ inflight' = inflight - 1
  BY DEF Shadow!DualLeaves, SlotsInv
<1>3. place \in {"cut", "tracing"}
  OBVIOUS
<1>. HIDE DEF place
<1>4. new \in RunShape /\ new.at = place
  BY <1>1, <1>3 DEF RunShape
<1>. HIDE DEF new
<1>5. run' \in [Requests -> RunShape] /\ run'[r] = new /\ \A k \in Requests : k # r => run'[k] = run[k]
  BY <1>2, <1>4 DEF SlotsInv
<1>6. Shadow!InSlot' = Shadow!InSlot \ {r} /\ r \in Shadow!InSlot /\ r \notin lostSlots
  BY <1>1, <1>3, <1>4, <1>5 DEF Shadow!InSlot, SlotsInv
<1>7. Cardinality(Shadow!InSlot') = Cardinality(Shadow!InSlot) - 1
  BY <1>6, SlotsAreFinite, FS_RemoveElement
<1>8. Cardinality(Shadow!InSlot) # 0
  BY <1>6, SlotsAreFinite, FS_EmptySet
<1>9. (Shadow!SlotsComeBack)' /\ inflight' \in Nat
  BY <1>1, <1>2, <1>7, <1>8, SlotsAreFinite, FS_CardinalityType, SlotsCount
     DEF SlotsInv
<1>. QED BY <1>1, <1>5, <1>6, <1>9 DEF SlotsInv

LEMMA StopKeepsSlots ==
  ASSUME SlotsInv, NEW written, Shadow!Stop(written)
  PROVE  SlotsInv'
<1>1. /\ turn' = [r \in Requests |-> "over"] /\ run' = [r \in Requests |-> Shadow!StopRun(run[r])]
      /\ lostSlots' = lostSlots \cup Shadow!Closing /\ inflight' = inflight
  BY DEF Shadow!Stop
<1>2. ASSUME NEW one \in RunShape
      PROVE  /\ Shadow!StopRun(one) \in RunShape
             /\ Shadow!StopRun(one).at \in InsideSlot <=> one.at \in {"inside", "cutting"}
             /\ one.at \in {"closing", "cut"} => Shadow!StopRun(one).at = "cut"
  BY DEF RunShape, Shadow!StopRun, Shadow!IdleRun, InsideSlot, Shadow!Verdicts
<1>3. \A r \in Requests : run[r] \in RunShape /\ run'[r] = Shadow!StopRun(run[r])
  BY <1>1 DEF SlotsInv
<1>4. /\ run' \in [Requests -> RunShape]
      /\ \A r \in Requests : run[r].at \in {"closing", "cut"} => run'[r].at = "cut"
  BY <1>1, <1>2, <1>3
<1>5. /\ Shadow!InSlot = Shadow!InSlot' \cup Shadow!Closing
      /\ Shadow!InSlot' \cap Shadow!Closing = {}
  BY <1>2, <1>3 DEF Shadow!InSlot, Shadow!Closing, InsideSlot
<1>6. lostSlots \cap Shadow!Closing = {}
  BY DEF SlotsInv, Shadow!Closing
<1>7. IsFiniteSet(Shadow!InSlot')
  BY <1>5, SlotsAreFinite, FS_Subset
<1>8. /\ Cardinality(Shadow!InSlot) = Cardinality(Shadow!InSlot') + Cardinality(Shadow!Closing)
      /\ Cardinality(lostSlots') = Cardinality(lostSlots) + Cardinality(Shadow!Closing)
  <2>1. ASSUME NEW S, NEW T, IsFiniteSet(S), IsFiniteSet(T), S \cap T = {}
        PROVE  Cardinality(S \cup T) = Cardinality(S) + Cardinality(T)
    <3>1. Cardinality(S \cup T) = Cardinality(S) + Cardinality(T) - Cardinality({})
      BY <2>1, FS_Union
    <3>. QED BY <2>1, <3>1, FS_EmptySet, FS_CardinalityType
  <2>2. Cardinality(Shadow!InSlot) = Cardinality(Shadow!InSlot') + Cardinality(Shadow!Closing)
    BY <1>5, <1>7, <2>1, SlotsAreFinite
  <2>. QED BY <1>1, <1>6, <2>1, <2>2, SlotsAreFinite
<1>9. (Shadow!SlotsComeBack)'
  BY <1>1, <1>7, <1>8, SlotsAreFinite, FS_CardinalityType, SlotsCount
     DEF SlotsInv
<1>10. \A r \in Requests : r \in lostSlots' => run'[r].at = "cut"
  BY <1>1, <1>4 DEF SlotsInv, Shadow!Closing
<1>11. lostSlots' \subseteq Requests /\ turn' \in [Requests -> {"open", "over"}]
  BY <1>1 DEF SlotsInv, Shadow!Closing
<1>. QED BY <1>1, <1>4, <1>9, <1>10, <1>11 DEF SlotsInv

LEMMA SlotsNext == SlotsInv /\ [Shadow!Next]_ShadowState => SlotsInv'
<1>. SUFFICES ASSUME SlotsInv, [Shadow!Next]_ShadowState PROVE SlotsInv'
  OBVIOUS
<1>1. ASSUME UNCHANGED <<run, turn, lostSlots, inflight>> PROVE SlotsInv'
  BY <1>1 DEF SlotsInv, Shadow!SlotsComeBack, Shadow!InSlot, Shadow!Cardinality, Cardinality
<1>2. ASSUME NEW r \in Requests, NEW steps \in BOOLEAN, Shadow!ScheduleContextDualTrack(r, steps)
      PROVE  SlotsInv'
  <2>1. /\ run[r] \in RunShape /\ run[r].at = "none" /\ turn' = [turn EXCEPT ![r] = "over"]
        /\ UNCHANGED <<inflight, lostSlots>>
    BY <1>2 DEF SlotsInv, Shadow!ScheduleContextDualTrack
  <2>. DEFINE new == IF ~steps /\ query[r] # "plain" THEN [run[r] EXCEPT !.at = "scheduled"] ELSE run[r]
  <2>2. run' = [run EXCEPT ![r] = new]
    BY <1>2 DEF SlotsInv, Shadow!ScheduleContextDualTrack
  <2>3. new \in RunShape /\ new.at \in {"scheduled", "none"}
    BY <2>1 DEF RunShape
  <2>. HIDE DEF new
  <2>4. /\ turn'[r] = "over" /\ turn' \in [Requests -> {"open", "over"}]
        /\ \A k \in Requests : k # r => turn'[k] = turn[k]
    BY <2>1 DEF SlotsInv
  <2>. QED BY <2>1, <2>2, <2>3, <2>4, RunMoves DEF InsideSlot
<1>3. ASSUME NEW r \in Requests, NEW new \in RunShape, run' = [run EXCEPT ![r] = new],
             run[r].at \notin {"cut", "none"}, run[r].at \in InsideSlot <=> new.at \in InsideSlot,
             UNCHANGED <<turn, inflight, lostSlots>>
      PROVE  SlotsInv'
  <2>1. turn[r] = "over"
    BY <1>3 DEF SlotsInv
  <2>. QED BY <1>3, <2>1, RunMoves DEF SlotsInv
<1>4. ASSUME NEW r \in Requests, NEW place, NEW verdict \in Shadow!Verdicts, Shadow!Decides(r, place, verdict),
             place \in {"closing", "cutting"}, run[r].at = "inside"
      PROVE  SlotsInv'
  <2>. DEFINE new == [run[r] EXCEPT !.at = place, !.verdict = verdict]
  <2>1. run' = [run EXCEPT ![r] = new] /\ run[r] \in RunShape /\ UNCHANGED <<turn, inflight, lostSlots>>
    BY <1>4 DEF Shadow!Decides, SlotsInv
  <2>2. new \in RunShape /\ new.at = place
    BY <1>4, <2>1 DEF RunShape
  <2>. HIDE DEF new
  <2>. QED BY <1>3, <1>4, <2>1, <2>2 DEF InsideSlot
<1>5. ASSUME NEW r \in Requests, Shadow!DualWaited(r) \/ Shadow!DualTimesOut(r) PROVE SlotsInv'
  <2>1. \A one, other : Shadow!ArbitrateContextPacks(one, other) \in Shadow!Verdicts
    BY DEF Shadow!ArbitrateContextPacks, Shadow!Verdicts
  <2>2. "uncertain" \in Shadow!Verdicts
    BY DEF Shadow!Verdicts
  <2>. QED BY <1>4, <1>5, <2>1, <2>2 DEF Shadow!DualWaited, Shadow!DualTimesOut
<1>6. ASSUME NEW r \in Requests,
             Shadow!DualCloses(r) \/ Shadow!SavesTrace(r) \/ Shadow!SavesStatement(r) \/ Shadow!RunFails(r)
      PROVE  SlotsInv'
  <2>1. run[r] \in RunShape
    BY DEF SlotsInv
  <2>2. PICK new \in RunShape : /\ run' = [run EXCEPT ![r] = new]
                                /\ run[r].at \in InsideSlot <=> new.at \in InsideSlot
    <3>1. CASE Shadow!DualCloses(r)
      <4>1. [run[r] EXCEPT !.at = "closing"] \in RunShape /\ [run[r] EXCEPT !.at = "closing"].at = "closing"
        BY <2>1 DEF RunShape
      <4>. QED BY <3>1, <4>1 DEF Shadow!DualCloses, InsideSlot, SlotsInv
    <3>2. CASE Shadow!SavesTrace(r)
      <4>. DEFINE new == [Shadow!IdleRun EXCEPT !.at = IF Shadow!States(r) THEN "stating" ELSE "done"]
      <4>1. new \in RunShape /\ new.at \in {"stating", "done"}
        BY DEF RunShape, Shadow!IdleRun, Shadow!Verdicts
      <4>. QED BY <3>2, <4>1 DEF Shadow!SavesTrace, InsideSlot, SlotsInv
    <3>3. CASE Shadow!SavesStatement(r)
      <4>1. [run[r] EXCEPT !.at = "done"] \in RunShape /\ [run[r] EXCEPT !.at = "done"].at = "done"
        BY <2>1 DEF RunShape
      <4>. QED BY <3>3, <4>1 DEF Shadow!SavesStatement, InsideSlot, SlotsInv
    <3>4. CASE Shadow!RunFails(r)
      <4>1. /\ [Shadow!IdleRun EXCEPT !.at = "failed"] \in RunShape
            /\ [Shadow!IdleRun EXCEPT !.at = "failed"].at = "failed"
        BY DEF RunShape, Shadow!IdleRun, Shadow!Verdicts
      <4>. QED BY <3>4, <4>1 DEF Shadow!RunFails, InsideSlot, SlotsInv
    <3>. QED BY <1>6, <3>1, <3>2, <3>3, <3>4
  <2>3. run[r].at \notin {"cut", "none"} /\ UNCHANGED <<turn, inflight, lostSlots>>
    BY <1>6 DEF Shadow!DualCloses, Shadow!SavesTrace, Shadow!SavesStatement, Shadow!RunFails
  <2>. QED BY <1>3, <2>2, <2>3
<1>7. CASE Shadow!Shadows
  BY <1>1, <1>7 DEF Shadow!Shadows, Shadow!ShadowBegins, Shadow!ShadowSaves, Shadow!ShadowFails,
     Shadow!ShadowEnds
<1>8. CASE Shadow!Tracks
  <2>1. UNCHANGED <<run, turn, lostSlots, inflight>>
    BY <1>8 DEF Shadow!Tracks, Shadow!WaveAnswers, Shadow!WaveUnanswered, Shadow!TrackRaises,
       Shadow!TurnsTo
  <2>. QED BY <1>1, <2>1
<1>9. ASSUME NEW r \in Requests, Shadow!ScheduleContextCascadeShadow(r) PROVE SlotsInv'
  BY <1>1, <1>9 DEF Shadow!ScheduleContextCascadeShadow
<1>10. CASE UNCHANGED ShadowState
  BY <1>1, <1>10 DEF ShadowState
<1>. QED BY <1>2, <1>5, <1>6, <1>7, <1>8, <1>9, <1>10, EnteringKeeps, LeavingKeepsSlots, StopKeepsSlots
         DEF Shadow!Next, Shadow!Handling, Shadow!Runs, Shadow!Stopping

-----------------------------------------------------------------------------
(***************************************************************************)
(* SituationLedger, for any evidence a caller brings and any promotions it *)
(* asks for: the policy lets nothing through that does not stand on its    *)
(* kind of evidence.                                                       *)
(***************************************************************************)
LedgerInv == (\E S : ledger \in Seq(S)) /\ Ledger!LedgerStandsOnEvidence

(* The place BestEvidence names is one of the class that was asked for.    *)
LEMMA BestIsAllowed ==
  ASSUME NEW resolved, Len(resolved) \in Nat, NEW allowed, NEW b,
         b = Ledger!BestEvidence(resolved, allowed), b # 0
  PROVE  b \in 1..Len(resolved) /\ resolved[b].trust \in allowed
<1>. DEFINE fit == {i \in 1..Len(resolved) : resolved[i].trust \in allowed}
            Less == {pair \in Nat \X Nat : pair[1] < pair[2]}
<1>1. fit \subseteq Nat
  OBVIOUS
<1>2. fit # {}
  BY DEF Ledger!BestEvidence
<1>3. IsWellFoundedOn(Less, Nat)
  BY NatLessThanWellFounded DEF OpToRel
<1>4. b = CHOOSE i \in fit : \A j \in fit : i <= j
  BY <1>2 DEF Ledger!BestEvidence
<1>. HIDE DEF Less, fit
<1>5. PICK x \in fit : \A y \in fit : ~(<<y, x>> \in Less)
  BY <1>1, <1>2, <1>3, WFMin
<1>6. ASSUME NEW y \in fit PROVE x <= y
  <2>1. x \in Nat /\ y \in Nat
    BY <1>1
  <2>2. y < x => <<y, x>> \in Less
    BY <2>1 DEF Less
  <2>. QED BY <1>5, <2>1, <2>2
<1>7. b \in fit
  BY <1>4, <1>6
<1>. QED BY <1>7 DEF fit

(* What the policy lets through, kind by kind.                             *)
LEMMA CommitmentIsBacked ==
  ASSUME NEW resolved, Len(resolved) \in Nat, NEW b, b = Ledger!EnforceCommitment(resolved), b # 0
  PROVE  resolved[b].trust \in Ledger!AcceptanceTrust /\ ~resolved[b].model
<1>1. b = Ledger!BestEvidence(resolved, Ledger!AcceptanceTrust) /\ ~resolved[b].model
  BY DEF Ledger!EnforceCommitment
<1>. QED BY <1>1, BestIsAllowed

LEMMA PassedIsBacked ==
  ASSUME NEW p, NEW resolved, Len(resolved) \in Nat, NEW b, b = Ledger!Enforce(p, resolved), b # 0,
         p.op \in {"propose", "promote"}
  PROVE  /\ p.kind = "commitment"
               => resolved[b].trust \in Ledger!AcceptanceTrust /\ ~resolved[b].model
         /\ p.kind \in {"fact", "decision"} => resolved[b].trust \in Ledger!FactTrust
<1>1. CASE p.op = "promote"
  <2>1. b = Ledger!EnforcePromote(p.from, p.kind, p.target, resolved)
    BY <1>1 DEF Ledger!Enforce
  <2>2. p.kind \in {"fact", "decision"} => b = Ledger!BestEvidence(resolved, Ledger!FactTrust)
    BY <2>1 DEF Ledger!EnforcePromote
  <2>3. p.kind = "commitment" => b = Ledger!EnforceCommitment(resolved)
    BY <2>1 DEF Ledger!EnforcePromote
  <2>. QED BY <2>2, <2>3, BestIsAllowed, CommitmentIsBacked
<1>2. CASE p.op # "promote"
  <2>1. b = Ledger!EnforceKind(p.kind, resolved)
    BY <1>2 DEF Ledger!Enforce
  <2>2. p.kind \in {"fact", "decision"} => b = Ledger!BestEvidence(resolved, Ledger!FactTrust)
    BY <2>1 DEF Ledger!EnforceKind
  <2>3. p.kind = "commitment" => b = Ledger!EnforceCommitment(resolved)
    BY <2>1 DEF Ledger!EnforceKind
  <2>. QED BY <2>2, <2>3, BestIsAllowed, CommitmentIsBacked
<1>. QED BY <1>1, <1>2

LEMMA LedgerAppends ==
  ASSUME LedgerInv, NEW p, p.op \in {"propose", "promote"}, NEW known, NEW refs \in Ledger!Refs,
         Ledger!Apply(p, known, refs)
  PROVE  LedgerInv'
<1>. DEFINE resolved == Ledger!Resolve(known, refs)
            best == Ledger!Enforce(p, resolved)
            new == [kind |-> p.kind, id |-> refs[best], evidence |-> resolved[best]]
<1>1. Len(refs) \in Nat /\ Len(resolved) = Len(refs)
  BY DEF Ledger!Refs, Ledger!Resolve
<1>2. best # 0 /\ ledger' = Append(ledger, new)
  BY DEF Ledger!Apply
<1>. HIDE DEF resolved
<1>3. /\ new.kind = "commitment"
            => new.evidence.trust \in Ledger!AcceptanceTrust /\ ~new.evidence.model
      /\ new.kind \in {"fact", "decision"} => new.evidence.trust \in Ledger!FactTrust
  BY <1>1, <1>2, PassedIsBacked
<1>. HIDE DEF new
<1>4. PICK S : ledger \in Seq(S)
  BY DEF LedgerInv
<1>5. ledger \in Seq(S \cup {new})
  BY <1>4
<1>6. /\ ledger' \in Seq(S \cup {new}) /\ Len(ledger') = Len(ledger) + 1 /\ Len(ledger) \in Nat
      /\ ledger'[Len(ledger) + 1] = new
      /\ \A i \in 1..Len(ledger) : ledger'[i] = ledger[i]
  BY <1>2, <1>5
<1>. QED BY <1>3, <1>6 DEF LedgerInv, Ledger!LedgerStandsOnEvidence

LEMMA LedgerInit == Ledger!Init => LedgerInv
<1>. SUFFICES ASSUME ledger = <<>> PROVE LedgerInv
  BY DEF Ledger!Init
<1>1. ledger \in Seq({})
  OBVIOUS
<1>. QED BY <1>1 DEF LedgerInv, Ledger!LedgerStandsOnEvidence

LEMMA LedgerNext == LedgerInv /\ [Ledger!Next]_ledger => LedgerInv'
<1>. SUFFICES ASSUME LedgerInv, [Ledger!Next]_ledger PROVE LedgerInv'
  OBVIOUS
<1>1. ASSUME NEW known, NEW refs \in Ledger!Refs, NEW kind \in Ledger!Kinds,
             Ledger!Apply(Ledger!Propose(kind), known, refs)
      PROVE  LedgerInv'
  BY <1>1, LedgerAppends DEF Ledger!Propose
<1>2. ASSUME NEW known, NEW refs \in Ledger!Refs, NEW from, NEW to, NEW target,
             Ledger!Apply(Ledger!Promote(from, to, target), known, refs)
      PROVE  LedgerInv'
  BY <1>2, LedgerAppends DEF Ledger!Promote
<1>3. CASE UNCHANGED ledger
  BY <1>3 DEF LedgerInv, Ledger!LedgerStandsOnEvidence
<1>. QED BY <1>1, <1>2, <1>3 DEF Ledger!Next

-----------------------------------------------------------------------------
(***************************************************************************)
(* SchemaMigration: whatever statement a start dies at, no row of the old  *)
(* shadow table is lost, and a start that comes up has the whole schema.   *)
(***************************************************************************)
(* The statements of the script, and what each of them is.                 *)
Statements ==
    {Schema!Stmt(d, w) : d \in {"tables", "fts", "rename", "remake", "copy", "drop", "commit", "policy"},
                         w \in {Schema!CommandTables, Schema!ShadowTables, Schema!RecordTables,
                                Schema!MeetingTables, Schema!ContextTables, Schema!FtsTables, {}}}
    \cup {Schema!Stmt(d, w) : d \in {"column", "index"}, w \in Schema!Late}

IsJoin(u, s, t) ==
    /\ Len(u) = Len(s) + Len(t)
    /\ \A i \in 1..Len(s) : u[i] = s[i]
    /\ \A i \in 1..Len(t) : u[Len(s) + i] = t[i]

LEMMA Joined ==
  ASSUME NEW S, NEW s \in Seq(S), NEW t \in Seq(S)
  PROVE  s \o t \in Seq(S) /\ IsJoin(s \o t, s, t)
<1>1. \A i \in 1..Len(s) + Len(t) : (s \o t)[i] = IF i <= Len(s) THEN s[i] ELSE t[i - Len(s)]
  BY ConcatProperties
<1>2. ASSUME NEW i \in 1..Len(t) PROVE (s \o t)[Len(s) + i] = t[i]
  <2>1. Len(s) + i \in 1..Len(s) + Len(t) /\ ~(Len(s) + i <= Len(s)) /\ (Len(s) + i) - Len(s) = i
    OBVIOUS
  <2>. QED BY <1>1, <2>1
<1>. QED BY <1>1, <1>2, ConcatProperties DEF IsJoin

LEMMA TablesAre ==
  /\ Schema!TableScript \in Seq(Statements) /\ Len(Schema!TableScript) = 6
  /\ Schema!TableScript[1] = Schema!Stmt("tables", Schema!CommandTables)
  /\ Schema!TableScript[2] = Schema!Stmt("tables", Schema!ShadowTables)
  /\ Schema!TableScript[3] = Schema!Stmt("tables", Schema!RecordTables)
  /\ Schema!TableScript[4] = Schema!Stmt("tables", Schema!MeetingTables)
  /\ Schema!TableScript[5] = Schema!Stmt("tables", Schema!ContextTables)
  /\ Schema!TableScript[6] = Schema!Stmt("fts", Schema!FtsTables)
<1>1. /\ Schema!Stmt("tables", Schema!CommandTables) \in Statements
      /\ Schema!Stmt("tables", Schema!ShadowTables) \in Statements
      /\ Schema!Stmt("tables", Schema!RecordTables) \in Statements
      /\ Schema!Stmt("tables", Schema!MeetingTables) \in Statements
      /\ Schema!Stmt("tables", Schema!ContextTables) \in Statements
      /\ Schema!Stmt("fts", Schema!FtsTables) \in Statements
  BY DEF Statements
<1>. QED BY <1>1 DEF Schema!TableScript

LEMMA MoveIs ==
  /\ Schema!MoveScript \in Seq(Statements) /\ Len(Schema!MoveScript) = 4
  /\ Schema!MoveScript[1] = Schema!Stmt("rename", {})
  /\ Schema!MoveScript[2] = Schema!Stmt("remake", {})
  /\ Schema!MoveScript[3] = Schema!Stmt("copy", {})
  /\ Schema!MoveScript[4] = Schema!Stmt("drop", {})
<1>1. /\ Schema!Stmt("rename", {}) \in Statements /\ Schema!Stmt("remake", {}) \in Statements
      /\ Schema!Stmt("copy", {}) \in Statements /\ Schema!Stmt("drop", {}) \in Statements
  BY DEF Statements
<1>. QED BY <1>1 DEF Schema!MoveScript

(* A list of pairs, made into statements of one kind.                      *)
Are(u, do, p) == Len(u) = Len(p) /\ \A i \in 1..Len(p) : u[i] = Schema!Stmt(do, p[i])

LEMMA ColumnsOfPairs ==
  ASSUME NEW p \in Seq(Schema!Late)
  PROVE  /\ Schema!Columns(p) \in Seq(Statements) /\ Are(Schema!Columns(p), "column", p)
         /\ Schema!Indexes(p) \in Seq(Statements) /\ Are(Schema!Indexes(p), "index", p)
<1>1. Len(p) \in Nat /\ \A i \in 1..Len(p) : p[i] \in Schema!Late
  OBVIOUS
<1>2. \A i \in 1..Len(p) : /\ Schema!Stmt("column", p[i]) \in Statements
                           /\ Schema!Stmt("index", p[i]) \in Statements
  BY <1>1 DEF Statements
<1>. QED BY <1>1, <1>2 DEF Schema!Columns, Schema!Indexes, Are

LEMMA ListsOf ==
  ASSUME NEW S, NEW a \in S, NEW b \in S, NEW c \in S, NEW d \in S, NEW e \in S, NEW f \in S
  PROVE  /\ <<a>> \in Seq(S) /\ Len(<<a>>) = 1 /\ <<a>>[1] = a
         /\ <<a, b>> \in Seq(S) /\ Len(<<a, b>>) = 2 /\ <<a, b>>[1] = a /\ <<a, b>>[2] = b
         /\ <<a, b, c, d>> \in Seq(S) /\ Len(<<a, b, c, d>>) = 4
         /\ <<a, b, c, d>>[1] = a /\ <<a, b, c, d>>[2] = b
         /\ <<a, b, c, d>>[3] = c /\ <<a, b, c, d>>[4] = d
         /\ <<a, b, c, d, e, f>> \in Seq(S) /\ Len(<<a, b, c, d, e, f>>) = 6
  OBVIOUS

LEMMA ExpiringAre ==
  LET X == Schema!Expiring
  IN /\ DOMAIN X = 1..8 /\ Len(X) = 8
     /\ X[1] = "commands" /\ X[2] = "command_events" /\ X[3] = "command_transcripts"
     /\ X[4] = "conversation" /\ X[5] = "screenpipe_transcripts" /\ X[6] = "meeting_sessions"
     /\ X[7] = "meeting_transcript_segments" /\ X[8] = "meeting_audio_files"
  BY DEF Schema!Expiring

LEMMA LateAre ==
  /\ <<"meeting_transcript_segments", "emotion_json">> \in Schema!Late
  /\ <<"conversation", "session_id">> \in Schema!Late
  /\ <<"commands", "client_created_at">> \in Schema!Late
  /\ \A i \in 1..8 : <<Schema!Expiring[i], "expires_at">> \in Schema!Late
  /\ <<"traces", "time_precision">> \in Schema!Late /\ <<"traces", "time_relation">> \in Schema!Late
  /\ <<"traces", "epistemic_role">> \in Schema!Late /\ <<"traces", "relevance_gate">> \in Schema!Late
<1>1. \A i \in 1..8 : Schema!Expiring[i] \in Schema!ToSet(Schema!Expiring)
  BY ExpiringAre DEF Schema!ToSet
<1>. QED BY <1>1 DEF Schema!Late

LEMMA ColumnsAre ==
  \E p \in Seq(Schema!Late) :
      /\ Len(p) = 11 /\ Schema!ColumnScript = Schema!Columns(p)
      /\ p[1] = <<"meeting_transcript_segments", "emotion_json">>
      /\ p[2] = <<"conversation", "session_id">> /\ p[11] = <<"commands", "client_created_at">>
      /\ \A i \in 1..8 : p[i + 2] = <<Schema!Expiring[i], "expires_at">>
<1>. DEFINE a == <<"meeting_transcript_segments", "emotion_json">>
            b == <<"conversation", "session_id">>
            c == <<"commands", "client_created_at">>
            x == [i \in 1..Len(Schema!Expiring) |-> <<Schema!Expiring[i], "expires_at">>]
            p == (<<a, b>> \o x) \o <<c>>
<1>1. Schema!ColumnScript = Schema!Columns(p)
  BY DEF Schema!ColumnScript
<1>2. a \in Schema!Late /\ b \in Schema!Late /\ c \in Schema!Late
  BY LateAre
<1>3. x \in Seq(Schema!Late) /\ Len(x) = 8 /\ \A i \in 1..8 : x[i] = <<Schema!Expiring[i], "expires_at">>
  BY ExpiringAre, LateAre
<1>. HIDE DEF a, b, c, x
<1>4. /\ <<a, b>> \in Seq(Schema!Late) /\ Len(<<a, b>>) = 2 /\ <<a, b>>[1] = a /\ <<a, b>>[2] = b
      /\ <<c>> \in Seq(Schema!Late) /\ Len(<<c>>) = 1 /\ <<c>>[1] = c
  BY <1>2
<1>. DEFINE ab == <<a, b>> 
            one == <<c>>
<1>5. ab \in Seq(Schema!Late) /\ one \in Seq(Schema!Late) /\ p = (ab \o x) \o one
  BY <1>4
<1>. HIDE DEF p
<1>. DEFINE abx == ab \o x
<1>6. Len(ab) = 2 /\ ab[1] = a /\ ab[2] = b /\ Len(one) = 1 /\ one[1] = c
  BY <1>4
<1>. HIDE DEF ab, one
<1>7. abx \in Seq(Schema!Late) /\ IsJoin(abx, ab, x)
  <2>1. x \in Seq(Schema!Late)
    BY <1>3
  <2>. QED BY <1>5, <2>1, Joined, Zenon
<1>. HIDE DEF abx
<1>. DEFINE whole == abx \o one
<1>8. whole \in Seq(Schema!Late) /\ IsJoin(whole, abx, one)
  BY <1>5, <1>7, Joined, Zenon
<1>13. p = whole
  BY <1>5 DEF abx
<1>. HIDE DEF whole
<1>14. Len(abx) = 10 /\ (\A i \in 1..2 : abx[i] = ab[i]) /\ (\A i \in 1..8 : abx[2 + i] = x[i])
  BY <1>3, <1>6, <1>7 DEF IsJoin
<1>9. /\ p \in Seq(Schema!Late) /\ Len(p) = 11 /\ \A i \in 1..10 : p[i] = abx[i]
      /\ p[11] = one[1]
  BY <1>6, <1>8, <1>13, <1>14 DEF IsJoin
<1>10. p[1] = a /\ p[2] = b /\ p[11] = c
  BY <1>6, <1>9, <1>14
<1>11. ASSUME NEW i \in 1..8 PROVE p[i + 2] = x[i]
  <2>1. i + 2 \in 1..10 /\ 2 + i = i + 2
    OBVIOUS
  <2>. QED BY <1>9, <1>14, <2>1
<1>. QED BY <1>1, <1>3, <1>9, <1>10, <1>11 DEF a, b, c

LEMMA TraceColumnsAre ==
  \E p \in Seq(Schema!Late) :
      /\ Len(p) = 4 /\ Schema!TraceScript = Schema!Columns(p)
      /\ p[1] = <<"traces", "time_precision">> /\ p[2] = <<"traces", "time_relation">>
      /\ p[3] = <<"traces", "epistemic_role">> /\ p[4] = <<"traces", "relevance_gate">>
<1>. DEFINE a == <<"traces", "time_precision">>
            b == <<"traces", "time_relation">>
            c == <<"traces", "epistemic_role">>
            d == <<"traces", "relevance_gate">>
<1>1. Schema!TraceScript = Schema!Columns(<<a, b, c, d>>)
  BY DEF Schema!TraceScript
<1>2. a \in Schema!Late /\ b \in Schema!Late /\ c \in Schema!Late /\ d \in Schema!Late
  BY LateAre
<1>. HIDE DEF a, b, c, d
<1>3. /\ <<a, b, c, d>> \in Seq(Schema!Late) /\ Len(<<a, b, c, d>>) = 4
      /\ <<a, b, c, d>>[1] = a /\ <<a, b, c, d>>[2] = b
      /\ <<a, b, c, d>>[3] = c /\ <<a, b, c, d>>[4] = d
  BY <1>2
<1>. QED BY <1>1, <1>3 DEF a, b, c, d

LEMMA IndexesAre ==
  /\ Schema!IndexScript \in Seq(Statements) /\ Len(Schema!IndexScript) = 8
  /\ Schema!IndexScript[2] = Schema!Stmt("commit", {})
  /\ \A i \in {1} \cup 3..8 : \E c \in Schema!Late : Schema!IndexScript[i] = Schema!Stmt("index", c)
<1>. DEFINE a == <<"conversation", "session_id">>
            x == Schema!Expiring
            e(i) == <<x[i], "expires_at">>
            one == <<a>>
            six == <<e(1), e(4), e(5), e(7), e(8), e(6)>>
            com == Schema!Stmt("commit", {})
            last == <<com>>
<1>1. Schema!IndexScript = (Schema!Indexes(one) \o last) \o Schema!Indexes(six)
  BY ExpiringAre DEF Schema!IndexScript
<1>2. a \in Schema!Late /\ \A i \in 1..8 : e(i) \in Schema!Late
  BY LateAre
<1>3. com \in Statements
  BY DEF Statements
<1>. HIDE DEF a, e, com
<1>4. one \in Seq(Schema!Late) /\ six \in Seq(Schema!Late) /\ last \in Seq(Statements)
  BY <1>2, <1>3
<1>5. Len(one) = 1 /\ Len(six) = 6 /\ Len(last) = 1 /\ last[1] = com
  OBVIOUS
<1>. HIDE DEF one, six, last
<1>. DEFINE s == Schema!Indexes(one)
            t == Schema!Indexes(six)
<1>6. /\ s \in Seq(Statements) /\ Are(s, "index", one)
      /\ t \in Seq(Statements) /\ Are(t, "index", six)
  BY <1>4, ColumnsOfPairs, Zenon
<1>. DEFINE r == s \o last
            q == r \o t
<1>. HIDE DEF s, t
<1>7. r \in Seq(Statements) /\ IsJoin(r, s, last)
  BY <1>4, <1>6, Joined, Zenon
<1>. HIDE DEF r
<1>8. q \in Seq(Statements) /\ IsJoin(q, r, t)
  BY <1>6, <1>7, Joined, Zenon
<1>9. Schema!IndexScript = q
  BY <1>1 DEF s, t, r
<1>. HIDE DEF q
<1>10. /\ Len(s) = 1 /\ s[1] = Schema!Stmt("index", one[1])
       /\ Len(t) = 6 /\ \A i \in 1..6 : t[i] = Schema!Stmt("index", six[i])
  BY <1>5, <1>6 DEF Are
<1>11. Len(r) = 2 /\ r[1] = s[1] /\ r[2] = com
  BY <1>5, <1>7, <1>10 DEF IsJoin
<1>12. Len(q) = 8 /\ q[1] = s[1] /\ q[2] = com /\ \A i \in 1..6 : q[2 + i] = t[i]
  BY <1>8, <1>10, <1>11 DEF IsJoin
<1>13. one[1] \in Schema!Late /\ \A i \in 1..6 : six[i] \in Schema!Late
  <2>1. (\A i \in 1..Len(one) : one[i] \in Schema!Late) /\ \A i \in 1..Len(six) : six[i] \in Schema!Late
    BY <1>4
  <2>. QED BY <1>5, <2>1
<1>14. ASSUME NEW i \in 3..8 PROVE \E c \in Schema!Late : q[i] = Schema!Stmt("index", c)
  <2>1. i - 2 \in 1..6 /\ 2 + (i - 2) = i
    OBVIOUS
  <2>2. q[i] = Schema!Stmt("index", six[i - 2])
    BY <1>10, <1>12, <2>1
  <2>. QED BY <1>13, <2>1, <2>2
<1>. QED BY <1>8, <1>9, <1>10, <1>12, <1>13, <1>14 DEF com

LEMMA ScriptJoins ==
  \E p \in Seq(Schema!Late), q \in Seq(Schema!Late) : \E a, b, c, d :
      LET S == Schema!Script
      IN /\ IsJoin(a, Schema!TableScript, Schema!Columns(p)) /\ IsJoin(b, a, Schema!MoveScript)
         /\ IsJoin(c, b, Schema!Columns(q)) /\ IsJoin(d, c, Schema!IndexScript)
         /\ IsJoin(S, d, <<Schema!Stmt("policy", {}), Schema!Stmt("commit", {})>>)
         /\ S \in Seq(Statements)
         /\ Len(p) = 11 /\ Len(q) = 4
         /\ p[1] = <<"meeting_transcript_segments", "emotion_json">>
         /\ p[2] = <<"conversation", "session_id">> /\ p[11] = <<"commands", "client_created_at">>
         /\ \A i \in 1..8 : p[i + 2] = <<Schema!Expiring[i], "expires_at">>
         /\ q[1] = <<"traces", "time_precision">> /\ q[2] = <<"traces", "time_relation">>
         /\ q[3] = <<"traces", "epistemic_role">> /\ q[4] = <<"traces", "relevance_gate">>
<1>1. PICK p \in Seq(Schema!Late) :
        /\ Len(p) = 11 /\ Schema!ColumnScript = Schema!Columns(p)
        /\ p[1] = <<"meeting_transcript_segments", "emotion_json">>
        /\ p[2] = <<"conversation", "session_id">> /\ p[11] = <<"commands", "client_created_at">>
        /\ \A i \in 1..8 : p[i + 2] = <<Schema!Expiring[i], "expires_at">>
  BY ColumnsAre, Zenon
<1>2. PICK q \in Seq(Schema!Late) :
        /\ Len(q) = 4 /\ Schema!TraceScript = Schema!Columns(q)
        /\ q[1] = <<"traces", "time_precision">> /\ q[2] = <<"traces", "time_relation">>
        /\ q[3] = <<"traces", "epistemic_role">> /\ q[4] = <<"traces", "relevance_gate">>
  BY TraceColumnsAre, Zenon
<1>. DEFINE a == Schema!TableScript \o Schema!Columns(p)
            b == a \o Schema!MoveScript
            c == b \o Schema!Columns(q)
            d == c \o Schema!IndexScript
            e == <<Schema!Stmt("policy", {}), Schema!Stmt("commit", {})>>
<1>3. Schema!Script = d \o e
  BY <1>1, <1>2 DEF Schema!Script, Schema!Schema
<1>4. Schema!Columns(p) \in Seq(Statements) /\ Schema!Columns(q) \in Seq(Statements)
  BY ColumnsOfPairs, Zenon
<1>5. e \in Seq(Statements)
  <2>1. Schema!Stmt("policy", {}) \in Statements /\ Schema!Stmt("commit", {}) \in Statements
    BY DEF Statements
  <2>. QED BY <2>1
<1>. HIDE DEF e
<1>6. a \in Seq(Statements) /\ IsJoin(a, Schema!TableScript, Schema!Columns(p))
  BY <1>4, TablesAre, Joined, Zenon
<1>. HIDE DEF a
<1>7. b \in Seq(Statements) /\ IsJoin(b, a, Schema!MoveScript)
  BY <1>6, MoveIs, Joined, Zenon
<1>. HIDE DEF b
<1>8. c \in Seq(Statements) /\ IsJoin(c, b, Schema!Columns(q))
  BY <1>4, <1>7, Joined, Zenon
<1>. HIDE DEF c
<1>9. d \in Seq(Statements) /\ IsJoin(d, c, Schema!IndexScript)
  BY <1>8, IndexesAre, Joined, Zenon
<1>. HIDE DEF d
<1>10. d \o e \in Seq(Statements) /\ IsJoin(d \o e, d, e)
  BY <1>5, <1>9, Joined, Zenon
<1>. QED BY <1>1, <1>2, <1>3, <1>6, <1>7, <1>8, <1>9, <1>10, Zenon DEF e

(* The script by position.                                                 *)
ScriptKnown ==
    LET S == Schema!Script
    IN /\ DOMAIN S = 1..35 /\ Len(S) = 35
       /\ S[1] = Schema!Stmt("tables", Schema!CommandTables)
       /\ S[2] = Schema!Stmt("tables", Schema!ShadowTables)
       /\ S[3] = Schema!Stmt("tables", Schema!RecordTables)
       /\ S[4] = Schema!Stmt("tables", Schema!MeetingTables)
       /\ S[5] = Schema!Stmt("tables", Schema!ContextTables)
       /\ S[6] = Schema!Stmt("fts", Schema!FtsTables)
       /\ \A i \in 7..17 : \E c \in Schema!Late : S[i] = Schema!Stmt("column", c)
       /\ S[18] = Schema!Stmt("rename", {}) /\ S[19] = Schema!Stmt("remake", {})
       /\ S[20] = Schema!Stmt("copy", {}) /\ S[21] = Schema!Stmt("drop", {})
       /\ \A i \in 22..25 : \E c \in Schema!Late : S[i] = Schema!Stmt("column", c)
       /\ \A i \in {26} \cup 28..33 : \E c \in Schema!Late : S[i] = Schema!Stmt("index", c)
       /\ S[27] = Schema!Stmt("commit", {})
       /\ S[34] = Schema!Stmt("policy", {}) /\ S[35] = Schema!Stmt("commit", {})
       /\ \A c \in Schema!Late : \E i \in 7..25 : S[i] = Schema!Stmt("column", c)

LEMMA ScriptIs == ScriptKnown
<1>0. PICK p \in Seq(Schema!Late), q \in Seq(Schema!Late) : \E a, b, c, d :
         /\ IsJoin(a, Schema!TableScript, Schema!Columns(p)) /\ IsJoin(b, a, Schema!MoveScript)
         /\ IsJoin(c, b, Schema!Columns(q)) /\ IsJoin(d, c, Schema!IndexScript)
         /\ IsJoin(Schema!Script, d, <<Schema!Stmt("policy", {}), Schema!Stmt("commit", {})>>)
         /\ Schema!Script \in Seq(Statements)
         /\ Len(p) = 11 /\ Len(q) = 4
         /\ p[1] = <<"meeting_transcript_segments", "emotion_json">>
         /\ p[2] = <<"conversation", "session_id">> /\ p[11] = <<"commands", "client_created_at">>
         /\ \A i \in 1..8 : p[i + 2] = <<Schema!Expiring[i], "expires_at">>
         /\ q[1] = <<"traces", "time_precision">> /\ q[2] = <<"traces", "time_relation">>
         /\ q[3] = <<"traces", "epistemic_role">> /\ q[4] = <<"traces", "relevance_gate">>
  BY ScriptJoins, Zenon
<1>1. PICK a, b, c, d :
         /\ IsJoin(a, Schema!TableScript, Schema!Columns(p)) /\ IsJoin(b, a, Schema!MoveScript)
         /\ IsJoin(c, b, Schema!Columns(q)) /\ IsJoin(d, c, Schema!IndexScript)
         /\ IsJoin(Schema!Script, d, <<Schema!Stmt("policy", {}), Schema!Stmt("commit", {})>>)
         /\ Schema!Script \in Seq(Statements)
         /\ Len(p) = 11 /\ Len(q) = 4
         /\ p[1] = <<"meeting_transcript_segments", "emotion_json">>
         /\ p[2] = <<"conversation", "session_id">> /\ p[11] = <<"commands", "client_created_at">>
         /\ \A i \in 1..8 : p[i + 2] = <<Schema!Expiring[i], "expires_at">>
         /\ q[1] = <<"traces", "time_precision">> /\ q[2] = <<"traces", "time_relation">>
         /\ q[3] = <<"traces", "epistemic_role">> /\ q[4] = <<"traces", "relevance_gate">>
  BY <1>0
<1>. DEFINE S == Schema!Script
            cp == Schema!Columns(p)
            cq == Schema!Columns(q)
            e == <<Schema!Stmt("policy", {}), Schema!Stmt("commit", {})>>
            T == Schema!TableScript
            M == Schema!MoveScript
            X == Schema!IndexScript
<1>2. Len(e) = 2 /\ e[1] = Schema!Stmt("policy", {}) /\ e[2] = Schema!Stmt("commit", {})
  OBVIOUS
<1>3. Are(cp, "column", p) /\ Are(cq, "column", q)
  BY ColumnsOfPairs, Zenon
<1>4. /\ IsJoin(a, T, cp) /\ IsJoin(b, a, M) /\ IsJoin(c, b, cq) /\ IsJoin(d, c, X) /\ IsJoin(S, d, e)
      /\ Len(p) = 11 /\ Len(q) = 4
  BY <1>1
<1>5. Len(T) = 6 /\ Len(M) = 4 /\ Len(X) = 8
  BY TablesAre, MoveIs, IndexesAre
<1>6. DOMAIN S = 1..Len(S)
  BY <1>1
<1>. HIDE DEF S, cp, cq, e, T, M, X
<1>21. /\ Len(cp) = 11 /\ (\A i \in 1..11 : cp[i] = Schema!Stmt("column", p[i]))
       /\ Len(cq) = 4 /\ (\A i \in 1..4 : cq[i] = Schema!Stmt("column", q[i]))
  BY <1>3, <1>4 DEF Are
<1>7. Len(a) = 17 /\ (\A i \in 1..6 : a[i] = T[i]) /\ (\A i \in 1..11 : a[6 + i] = Schema!Stmt("column", p[i]))
  <2>1. IsJoin(a, T, cp) /\ Len(T) = 6 /\ Len(cp) = 11
    BY <1>4, <1>5, <1>21
  <2>2. Len(a) = 17
    BY <2>1 DEF IsJoin
  <2>3. \A i \in 1..6 : a[i] = T[i]
    BY <2>1 DEF IsJoin
  <2>4. \A i \in 1..11 : a[6 + i] = cp[i]
    BY <2>1 DEF IsJoin
  <2>5. \A i \in 1..11 : cp[i] = Schema!Stmt("column", p[i])
    BY <1>21
  <2>. QED BY <2>2, <2>3, <2>4, <2>5
<1>8. Len(b) = 21 /\ (\A i \in 1..17 : b[i] = a[i]) /\ (\A i \in 1..4 : b[17 + i] = M[i])
  <2>1. IsJoin(b, a, M) /\ Len(a) = 17 /\ Len(M) = 4
    BY <1>4, <1>5, <1>7
  <2>2. Len(b) = 21
    BY <2>1 DEF IsJoin
  <2>3. \A i \in 1..17 : b[i] = a[i]
    BY <2>1 DEF IsJoin
  <2>4. \A i \in 1..4 : b[17 + i] = M[i]
    BY <2>1 DEF IsJoin
  <2>. QED BY <2>2, <2>3, <2>4
<1>9. Len(c) = 25 /\ (\A i \in 1..21 : c[i] = b[i]) /\ (\A i \in 1..4 : c[21 + i] = Schema!Stmt("column", q[i]))
  <2>1. IsJoin(c, b, cq) /\ Len(b) = 21 /\ Len(cq) = 4
    BY <1>4, <1>8, <1>21
  <2>2. Len(c) = 25
    BY <2>1 DEF IsJoin
  <2>3. \A i \in 1..21 : c[i] = b[i]
    BY <2>1 DEF IsJoin
  <2>4. \A i \in 1..4 : c[21 + i] = cq[i]
    BY <2>1 DEF IsJoin
  <2>5. \A i \in 1..4 : cq[i] = Schema!Stmt("column", q[i])
    BY <1>21
  <2>. QED BY <2>2, <2>3, <2>4, <2>5
<1>10. Len(d) = 33 /\ (\A i \in 1..25 : d[i] = c[i]) /\ (\A i \in 1..8 : d[25 + i] = X[i])
  <2>1. IsJoin(d, c, X) /\ Len(c) = 25 /\ Len(X) = 8
    BY <1>4, <1>5, <1>9
  <2>2. Len(d) = 33
    BY <2>1 DEF IsJoin
  <2>3. \A i \in 1..25 : d[i] = c[i]
    BY <2>1 DEF IsJoin
  <2>4. \A i \in 1..8 : d[25 + i] = X[i]
    BY <2>1 DEF IsJoin
  <2>. QED BY <2>2, <2>3, <2>4
<1>11. Len(S) = 35 /\ (\A i \in 1..33 : S[i] = d[i]) /\ (\A i \in 1..2 : S[33 + i] = e[i])
  <2>1. IsJoin(S, d, e) /\ Len(d) = 33 /\ Len(e) = 2
    BY <1>2, <1>4, <1>10
  <2>2. Len(S) = 35
    BY <2>1 DEF IsJoin
  <2>3. \A i \in 1..33 : S[i] = d[i]
    BY <2>1 DEF IsJoin
  <2>4. \A i \in 1..2 : S[33 + i] = e[i]
    BY <2>1 DEF IsJoin
  <2>. QED BY <2>2, <2>3, <2>4
<1>12. (\A i \in 1..11 : p[i] \in Schema!Late) /\ (\A i \in 1..4 : q[i] \in Schema!Late)
  <2>1. (\A i \in 1..Len(p) : p[i] \in Schema!Late) /\ (\A i \in 1..Len(q) : q[i] \in Schema!Late)
    OBVIOUS
  <2>. QED BY <1>4, <2>1
<1>13. /\ \A i \in 1..6 : S[i] = T[i]
       /\ \A i \in 1..11 : S[6 + i] = Schema!Stmt("column", p[i])
       /\ \A i \in 1..4 : S[17 + i] = M[i]
       /\ \A i \in 1..4 : S[21 + i] = Schema!Stmt("column", q[i])
       /\ \A i \in 1..8 : S[25 + i] = X[i]
       /\ S[34] = Schema!Stmt("policy", {}) /\ S[35] = Schema!Stmt("commit", {})
  <2>1. ASSUME NEW i \in 1..25 PROVE S[i] = c[i]
    <3>1. i \in 1..33
      OBVIOUS
    <3>. QED BY <1>10, <1>11, <3>1, Zenon
  <2>2. ASSUME NEW i \in 1..21 PROVE S[i] = b[i]
    <3>1. i \in 1..25
      OBVIOUS
    <3>. QED BY <1>9, <2>1, <3>1, Zenon
  <2>3. ASSUME NEW i \in 1..17 PROVE S[i] = a[i]
    <3>1. i \in 1..21
      OBVIOUS
    <3>. QED BY <1>8, <2>2, <3>1, Zenon
  <2>4. ASSUME NEW i \in 1..6 PROVE S[i] = T[i]
    <3>1. i \in 1..17
      OBVIOUS
    <3>. QED BY <1>7, <2>3, <3>1, Zenon
  <2>5. ASSUME NEW i \in 1..11 PROVE S[6 + i] = Schema!Stmt("column", p[i])
    <3>1. 6 + i \in 1..17
      OBVIOUS
    <3>. QED BY <1>7, <2>3, <3>1
  <2>6. ASSUME NEW i \in 1..4 PROVE S[17 + i] = M[i]
    <3>1. 17 + i \in 1..21
      OBVIOUS
    <3>. QED BY <1>8, <2>2, <3>1
  <2>7. ASSUME NEW i \in 1..4 PROVE S[21 + i] = Schema!Stmt("column", q[i])
    <3>1. 21 + i \in 1..25
      OBVIOUS
    <3>. QED BY <1>9, <2>1, <3>1
  <2>8. ASSUME NEW i \in 1..8 PROVE S[25 + i] = X[i]
    <3>1. 25 + i \in 1..33
      OBVIOUS
    <3>. QED BY <1>10, <1>11, <3>1
  <2>9. S[33 + 1] = e[1] /\ S[33 + 2] = e[2]
    BY <1>11
  <2>. QED BY <1>2, <2>4, <2>5, <2>6, <2>7, <2>8, <2>9
<1>14. ASSUME NEW i \in 7..17 PROVE \E x \in Schema!Late : S[i] = Schema!Stmt("column", x)
  <2>1. i - 6 \in 1..11 /\ 6 + (i - 6) = i
    OBVIOUS
  <2>. QED BY <1>12, <1>13, <2>1
<1>15. ASSUME NEW i \in 22..25 PROVE \E x \in Schema!Late : S[i] = Schema!Stmt("column", x)
  <2>1. i - 21 \in 1..4 /\ 21 + (i - 21) = i
    OBVIOUS
  <2>. QED BY <1>12, <1>13, <2>1
<1>16. ASSUME NEW i \in {26} \cup 28..33 PROVE \E x \in Schema!Late : S[i] = Schema!Stmt("index", x)
  <2>1. i - 25 \in {1} \cup 3..8 /\ i - 25 \in 1..8 /\ 25 + (i - 25) = i
    OBVIOUS
  <2>2. \E x \in Schema!Late : X[i - 25] = Schema!Stmt("index", x)
    BY <2>1, IndexesAre, Zenon DEF X
  <2>. QED BY <1>13, <2>1, <2>2
<1>17. S[27] = Schema!Stmt("commit", {})
  <2>1. X[2] = Schema!Stmt("commit", {})
    BY IndexesAre, Zenon DEF X
  <2>2. 2 \in 1..8 /\ 25 + 2 = 27
    OBVIOUS
  <2>3. S[25 + 2] = X[2]
    BY <1>13, <2>2, Zenon
  <2>. QED BY <2>1, <2>2, <2>3
<1>18. /\ S[18] = Schema!Stmt("rename", {}) /\ S[19] = Schema!Stmt("remake", {})
       /\ S[20] = Schema!Stmt("copy", {}) /\ S[21] = Schema!Stmt("drop", {})
  <2>1. /\ M[1] = Schema!Stmt("rename", {}) /\ M[2] = Schema!Stmt("remake", {})
        /\ M[3] = Schema!Stmt("copy", {}) /\ M[4] = Schema!Stmt("drop", {})
    BY MoveIs, Zenon DEF M
  <2>2. /\ 1 \in 1..4 /\ 17 + 1 = 18 /\ 2 \in 1..4 /\ 17 + 2 = 19
        /\ 3 \in 1..4 /\ 17 + 3 = 20 /\ 4 \in 1..4 /\ 17 + 4 = 21
    OBVIOUS
  <2>3. S[17 + 1] = M[1] /\ S[17 + 2] = M[2] /\ S[17 + 3] = M[3] /\ S[17 + 4] = M[4]
    BY <1>13, <2>2, Zenon
  <2>. QED BY <2>1, <2>2, <2>3
<1>19. /\ S[1] = Schema!Stmt("tables", Schema!CommandTables)
       /\ S[2] = Schema!Stmt("tables", Schema!ShadowTables)
       /\ S[3] = Schema!Stmt("tables", Schema!RecordTables)
       /\ S[4] = Schema!Stmt("tables", Schema!MeetingTables)
       /\ S[5] = Schema!Stmt("tables", Schema!ContextTables)
       /\ S[6] = Schema!Stmt("fts", Schema!FtsTables)
  <2>1. /\ T[1] = Schema!Stmt("tables", Schema!CommandTables)
        /\ T[2] = Schema!Stmt("tables", Schema!ShadowTables)
        /\ T[3] = Schema!Stmt("tables", Schema!RecordTables)
        /\ T[4] = Schema!Stmt("tables", Schema!MeetingTables)
        /\ T[5] = Schema!Stmt("tables", Schema!ContextTables)
        /\ T[6] = Schema!Stmt("fts", Schema!FtsTables)
    BY TablesAre, Zenon DEF T
  <2>2. S[1] = T[1] /\ S[2] = T[2] /\ S[3] = T[3] /\ S[4] = T[4] /\ S[5] = T[5] /\ S[6] = T[6]
    BY <1>13
  <2>. QED BY <2>1, <2>2
<1>20. ASSUME NEW x \in Schema!Late PROVE \E i \in 7..25 : S[i] = Schema!Stmt("column", x)
  <2>1. /\ \A i \in 1..11 : 6 + i \in 7..25 /\ S[6 + i] = Schema!Stmt("column", p[i])
        /\ \A i \in 1..4 : 21 + i \in 7..25 /\ S[21 + i] = Schema!Stmt("column", q[i])
    BY <1>13
  <2>2. (\E i \in 1..11 : x = p[i]) \/ (\E i \in 1..4 : x = q[i])
    <3>1. CASE x \in {<<t, "expires_at">> : t \in Schema!ToSet(Schema!Expiring)}
      <4>1. PICK i \in 1..8 : x = <<Schema!Expiring[i], "expires_at">>
        BY <3>1, ExpiringAre DEF Schema!ToSet
      <4>2. i + 2 \in 1..11 /\ x = p[i + 2]
        BY <1>1, <4>1
      <4>. QED BY <4>2
    <3>2. CASE x \in {<<"traces", k>> : k \in {"time_precision", "time_relation", "epistemic_role",
                                                "relevance_gate"}}
      <4>1. \/ x = <<"traces", "time_precision">> \/ x = <<"traces", "time_relation">>
            \/ x = <<"traces", "epistemic_role">> \/ x = <<"traces", "relevance_gate">>
        BY <3>2, Zenon
      <4>2. x = q[1] \/ x = q[2] \/ x = q[3] \/ x = q[4]
        BY <1>1, <4>1, Zenon
      <4>. QED BY <4>2
    <3>3. CASE x \in {<<"meeting_transcript_segments", "emotion_json">>, <<"conversation", "session_id">>,
                      <<"commands", "client_created_at">>}
      <4>1. x = p[1] \/ x = p[2] \/ x = p[11]
        BY <1>1, <3>3, Zenon
      <4>. QED BY <4>1
    <3>. QED BY <3>1, <3>2, <3>3, Zenon DEF Schema!Late
  <2>. QED BY <2>1, <2>2
<1>22. DOMAIN S = 1..35 /\ Len(S) = 35
  BY <1>6, <1>11
<1>. QED BY <1>13, <1>14, <1>15, <1>16, <1>17, <1>18, <1>19, <1>20, <1>22, Zenon DEF ScriptKnown, S

DiskShape == [tables : SUBSET (Schema!Tables \cup Schema!FtsTables), columns : SUBSET Schema!Late,
              old : BOOLEAN, main : SUBSET OldRows, legacy : SUBSET OldRows, policy : BOOLEAN]

SchemaTyped ==
    /\ database \in DiskShape /\ seen \in DiskShape /\ open \in BOOLEAN
    /\ kept \subseteq OldRows /\ before \subseteq OldRows /\ at \in 0..36
    /\ (~open => database = seen) /\ (at \in {0, 36} => ~open)

(* A row is in the table or in the one put aside, for a crash and for the  *)
(* connection; between the rename and the drop the rows are in memory too, *)
(* and the drop finds the copies made.                                     *)
RowsAreSomewhere ==
    /\ before \subseteq database.main \cup database.legacy
    /\ before \subseteq seen.main \cup seen.legacy
    /\ (database.old => database.legacy = {}) /\ (seen.old => seen.legacy = {})
    /\ at \in 19..21 => before \subseteq kept
    /\ at = 21 => kept \subseteq seen.main

(* What the statements before the present one have made of a database.     *)
MadeBy(d, k) ==
    /\ \A i \in 1..5 : i < k => Schema!Script[i].what \ {"shadow"} \subseteq d.tables
    /\ k > 2 /\ k # 19 => "shadow" \in d.tables
    /\ \A i \in 7..25 : i < k /\ Schema!Script[i].do = "column" => Schema!Script[i].what \in d.columns
    /\ k > 18 => ~d.old
    /\ k > 34 => d.policy

SchemaInv == SchemaTyped /\ RowsAreSomewhere /\ MadeBy(seen, at)

LEMMA KindsAre ==
  /\ \A i \in 1..5 : Schema!Script[i].do = "tables"
  /\ Schema!Script[6].do = "fts"
  /\ \A i \in 7..17 \cup 22..25 : Schema!Script[i].do = "column" /\ Schema!Script[i].what \in Schema!Late
  /\ \A i \in {26} \cup 28..33 : Schema!Script[i].do = "index" /\ Schema!Script[i].what \in Schema!Late
  /\ Schema!Script[18].do = "rename" /\ Schema!Script[19].do = "remake"
  /\ Schema!Script[20].do = "copy" /\ Schema!Script[21].do = "drop"
  /\ Schema!Script[27].do = "commit" /\ Schema!Script[35].do = "commit"
  /\ Schema!Script[34].do = "policy"
<1>. DEFINE S == Schema!Script
<1>1. /\ S[1] = Schema!Stmt("tables", Schema!CommandTables) /\ S[2] = Schema!Stmt("tables", Schema!ShadowTables)
      /\ S[3] = Schema!Stmt("tables", Schema!RecordTables) /\ S[4] = Schema!Stmt("tables", Schema!MeetingTables)
      /\ S[5] = Schema!Stmt("tables", Schema!ContextTables)
  BY ScriptIs, Zenon DEF ScriptKnown
<1>2. /\ S[6] = Schema!Stmt("fts", Schema!FtsTables)
      /\ S[18] = Schema!Stmt("rename", {}) /\ S[19] = Schema!Stmt("remake", {})
      /\ S[20] = Schema!Stmt("copy", {}) /\ S[21] = Schema!Stmt("drop", {})
      /\ S[27] = Schema!Stmt("commit", {})
      /\ S[34] = Schema!Stmt("policy", {}) /\ S[35] = Schema!Stmt("commit", {})
  BY ScriptIs, Zenon DEF ScriptKnown
<1>3. ASSUME NEW i \in 7..17 \cup 22..25
      PROVE S[i].do = "column" /\ S[i].what \in Schema!Late
  <2>1. \E c \in Schema!Late : S[i] = Schema!Stmt("column", c)
    BY ScriptIs, Zenon DEF ScriptKnown
  <2>. HIDE DEF S
  <2>. QED BY <2>1 DEF Schema!Stmt
<1>4. ASSUME NEW i \in {26} \cup 28..33
      PROVE S[i].do = "index" /\ S[i].what \in Schema!Late
  <2>1. \E c \in Schema!Late : S[i] = Schema!Stmt("index", c)
    BY ScriptIs, Zenon DEF ScriptKnown
  <2>. HIDE DEF S
  <2>. QED BY <2>1 DEF Schema!Stmt
<1>. HIDE DEF S
<1>5. S[1].do = "tables" /\ S[2].do = "tables" /\ S[3].do = "tables" /\ S[4].do = "tables" /\ S[5].do = "tables"
  BY <1>1 DEF Schema!Stmt
<1>6. /\ S[6].do = "fts" /\ S[18].do = "rename" /\ S[19].do = "remake" /\ S[20].do = "copy"
      /\ S[21].do = "drop" /\ S[27].do = "commit" /\ S[35].do = "commit" /\ S[34].do = "policy"
  BY <1>2 DEF Schema!Stmt
<1>7. \A i \in 1..5 : S[i].do = "tables"
  BY <1>5
<1>. QED BY <1>3, <1>4, <1>6, <1>7, Zenon DEF S

LEMMA PlacesAre ==
  ASSUME NEW i \in DOMAIN Schema!Script
  PROVE  LET do == Schema!Script[i].do
         IN /\ i \in 1..35
            /\ (do = "tables" => i \in 1..5) /\ (do = "fts" => i = 6)
            /\ (do = "column" => i \in 7..17 \cup 22..25) /\ (do = "rename" => i = 18)
            /\ (do = "remake" => i = 19) /\ (do = "copy" => i = 20) /\ (do = "drop" => i = 21)
            /\ (do = "index" => i \in {26} \cup 28..33) /\ (do = "commit" => i \in {27, 35})
            /\ (do = "policy" => i = 34)
<1>. DEFINE do == Schema!Script[i].do
<1>1. i \in 1..35
  BY ScriptIs DEF ScriptKnown
<1>2. /\ (i \in 1..5 => do = "tables") /\ (i = 6 => do = "fts")
      /\ (i \in 7..17 \cup 22..25 => do = "column") /\ (i \in {26} \cup 28..33 => do = "index")
      /\ (i = 18 => do = "rename") /\ (i = 19 => do = "remake") /\ (i = 20 => do = "copy")
      /\ (i = 21 => do = "drop") /\ (i = 27 => do = "commit") /\ (i = 35 => do = "commit")
      /\ (i = 34 => do = "policy")
  BY KindsAre, Zenon
<1>. HIDE DEF do
<1>3. /\ (do = "tables" => i \in 1..5) /\ (do = "fts" => i = 6)
      /\ (do = "column" => i \in 7..17 \cup 22..25) /\ (do = "rename" => i = 18)
      /\ (do = "remake" => i = 19) /\ (do = "copy" => i = 20) /\ (do = "drop" => i = 21)
      /\ (do = "index" => i \in {26} \cup 28..33) /\ (do = "commit" => i \in {27, 35})
      /\ (do = "policy" => i = 34)
  BY <1>1, <1>2
<1>. QED BY <1>1, <1>3, Zenon DEF do

LEMMA UpIs == Schema!Up = 36 /\ Schema!Down = 0 /\ Schema!Len(Schema!MoveScript) = 4
  BY ScriptIs, MoveIs DEF ScriptKnown, Schema!Up, Schema!Down

(* A statement that alters the schema: what it makes has to hold the rows  *)
(* and what the statements before it made.                                 *)
LEMMA AltersKeeps ==
  ASSUME SchemaInv, NEW new \in DiskShape, Schema!Alters(new), kept' \subseteq OldRows,
         at \in 1..34,
         before \subseteq new.main \cup new.legacy, new.old => new.legacy = {},
         at + 1 \in 19..21 => before \subseteq kept', at + 1 = 21 => kept' \subseteq new.main,
         MadeBy(new, at + 1)
  PROVE  SchemaInv'
<1>. USE DEF SchemaInv, Schema!Alters, Schema!Advances
<1>1. /\ seen' = new /\ database' = (IF open THEN database ELSE new) /\ open' = open
      /\ at' = at + 1 /\ before' = before
  OBVIOUS
<1>2. SchemaTyped'
  BY <1>1 DEF SchemaTyped
<1>3. RowsAreSomewhere'
  BY <1>1 DEF SchemaTyped, RowsAreSomewhere
<1>4. MadeBy(seen, at)'
  BY <1>1, Zenon DEF MadeBy
<1>. QED BY <1>2, <1>3, <1>4

(* Each step of a start.                                                   *)
LEMMA TablesKeep ==
  ASSUME SchemaInv, Schema!CreateTables
  PROVE  SchemaInv'
<1>. DEFINE made == Schema!Script[at].what \ seen.tables
            new == [seen EXCEPT !.tables = @ \cup made,
                                !.columns = @ \cup UNION {Schema!ColumnsOf(t) : t \in made}]
<1>1. at \in 1..5 /\ at + 1 \in 1..6 /\ Schema!Alters(new) /\ kept' = kept
  BY PlacesAre DEF Schema!CreateTables, Schema!AtStmt
<1>2. Schema!Script[at].what \subseteq Schema!Tables
  <2>1. at = 1 \/ at = 2 \/ at = 3 \/ at = 4 \/ at = 5
    BY <1>1
  <2>. QED BY <2>1, ScriptIs DEF ScriptKnown, Schema!Stmt, Schema!Tables
<1>3. at = 2 => "shadow" \in Schema!Script[at].what
  BY ScriptIs DEF ScriptKnown, Schema!Stmt, Schema!ShadowTables
<1>4. seen \in DiskShape
  BY DEF SchemaInv, SchemaTyped
<1>5. made \subseteq Schema!Tables /\ UNION {Schema!ColumnsOf(t) : t \in made} \subseteq Schema!Late
  BY <1>2 DEF Schema!ColumnsOf
<1>6. /\ new \in DiskShape
      /\ new.tables = seen.tables \cup made
      /\ new.columns = seen.columns \cup UNION {Schema!ColumnsOf(t) : t \in made}
      /\ new.main = seen.main /\ new.legacy = seen.legacy /\ new.old = seen.old /\ new.policy = seen.policy
  <2>. HIDE DEF made
  <2>. QED BY <1>4, <1>5 DEF DiskShape
<1>7. Schema!Script[at].what \subseteq new.tables
  BY <1>6
<1>. HIDE DEF new, made
<1>8. MadeBy(new, at + 1)
  BY <1>1, <1>3, <1>6, <1>7 DEF SchemaInv, MadeBy
<1>. QED BY <1>1, <1>6, <1>8, AltersKeeps DEF SchemaInv, SchemaTyped, RowsAreSomewhere

LEMMA FtsKeeps ==
  ASSUME SchemaInv, Schema!CreateFts
  PROVE  SchemaInv'
<1>. DEFINE made == [seen EXCEPT !.tables = @ \cup Schema!FtsTables]
<1>1. PICK new \in {made, seen} : Schema!Alters(new)
  BY DEF Schema!CreateFts
<1>2. at = 6 /\ kept' = kept
  BY PlacesAre DEF Schema!CreateFts, Schema!AtStmt
<1>3. /\ new \in DiskShape /\ seen.tables \subseteq new.tables /\ new.columns = seen.columns
      /\ new.main = seen.main /\ new.legacy = seen.legacy /\ new.old = seen.old /\ new.policy = seen.policy
  BY DEF SchemaInv, SchemaTyped, DiskShape
<1>. HIDE DEF made
<1>4. MadeBy(new, at + 1)
  <2>1. ASSUME NEW i \in 7..25, i < at + 1 PROVE FALSE
    BY <1>2, <2>1
  <2>. QED BY <1>2, <1>3, <2>1 DEF SchemaInv, MadeBy
<1>. QED BY <1>1, <1>2, <1>3, <1>4, AltersKeeps DEF SchemaInv, SchemaTyped, RowsAreSomewhere

LEMMA ColumnKeeps ==
  ASSUME SchemaInv, Schema!AddColumn
  PROVE  SchemaInv'
<1>. DEFINE new == [seen EXCEPT !.columns = @ \cup {Schema!Script[at].what}]
<1>1. at \in 7..17 \cup 22..25 /\ Schema!Alters(new) /\ kept' = kept
  BY PlacesAre DEF Schema!AddColumn, Schema!AtStmt
<1>2. Schema!Script[at].what \in Schema!Late
  BY <1>1, KindsAre, Zenon
<1>3. /\ new \in DiskShape /\ new.tables = seen.tables
      /\ seen.columns \subseteq new.columns /\ Schema!Script[at].what \in new.columns
      /\ new.main = seen.main /\ new.legacy = seen.legacy /\ new.old = seen.old /\ new.policy = seen.policy
  BY <1>2 DEF SchemaInv, SchemaTyped, DiskShape
<1>. HIDE DEF new
<1>4. MadeBy(new, at + 1)
  <2>1. ASSUME NEW i \in 7..25, i < at + 1, Schema!Script[i].do = "column"
        PROVE Schema!Script[i].what \in new.columns
    <3>1. i = at \/ i < at
      BY <1>1, <2>1
    <3>. QED BY <1>3, <2>1, <3>1 DEF SchemaInv, MadeBy
  <2>2. ASSUME NEW i \in 1..5, i < at + 1 PROVE Schema!Script[i].what \ {"shadow"} \subseteq new.tables
    <3>1. i < at
      BY <1>1
    <3>. QED BY <1>3, <3>1 DEF SchemaInv, MadeBy
  <2>3. (at + 1 > 2 /\ at + 1 # 19 => "shadow" \in new.tables) /\ (at + 1 > 18 => ~new.old)
        /\ (at + 1 > 34 => new.policy)
    BY <1>1, <1>3 DEF SchemaInv, MadeBy
  <2>. QED BY <2>1, <2>2, <2>3 DEF MadeBy
<1>5. at + 1 \notin 19..21 /\ at \in 1..34
  BY <1>1
<1>. QED BY <1>1, <1>3, <1>4, <1>5, AltersKeeps DEF SchemaInv, SchemaTyped, RowsAreSomewhere

(* A step that leaves the tables, the columns and the kind of the table as *)
(* they were, at a statement that makes none of these.                     *)
LEMMA MadeGoesOn ==
  ASSUME SchemaInv, NEW d, seen.tables \subseteq d.tables, d.columns = seen.columns, d.old => seen.old,
         seen.policy => d.policy, at \in 20..35, at \notin 22..25, at = 34 => d.policy
  PROVE  MadeBy(d, at + 1)
<1>1. ASSUME NEW i \in 1..5 PROVE Schema!Script[i].what \ {"shadow"} \subseteq d.tables
  BY DEF SchemaInv, MadeBy
<1>2. "shadow" \in d.tables /\ ~d.old /\ (at + 1 > 34 => d.policy)
  BY DEF SchemaInv, MadeBy
<1>3. ASSUME NEW i \in 7..25, i < at + 1, Schema!Script[i].do = "column"
      PROVE Schema!Script[i].what \in d.columns
  <2>1. i # at
    <3>1. CASE at = 20
      BY <1>3, <3>1, KindsAre
    <3>2. CASE at = 21
      BY <1>3, <3>2, KindsAre
    <3>. QED BY <3>1, <3>2
  <2>2. i < at
    BY <1>3, <2>1
  <2>. QED BY <1>3, <2>2 DEF SchemaInv, MadeBy
<1>. QED BY <1>1, <1>2, <1>3 DEF MadeBy

LEMMA IndexMadeKeeps ==
  ASSUME SchemaInv, Schema!CreateIndex
  PROVE  SchemaInv'
<1>1. at \in {26} \cup 28..33 /\ Schema!Alters(seen) /\ kept' = kept
  BY PlacesAre DEF Schema!CreateIndex, Schema!AtStmt
<1>2. MadeBy(seen, at + 1)
  <2>1. at \in 20..35 /\ at \notin 22..25 /\ at # 34
    BY <1>1
  <2>. QED BY <2>1, MadeGoesOn
<1>3. at \in 1..34 /\ at + 1 \notin 19..21
  BY <1>1
<1>. QED BY <1>1, <1>2, <1>3, AltersKeeps DEF SchemaInv, SchemaTyped, RowsAreSomewhere

LEMMA RenameKeeps ==
  ASSUME SchemaInv, Schema!RenameOld
  PROVE  SchemaInv'
<1>. DEFINE new == [seen EXCEPT !.old = FALSE, !.tables = @ \ {"shadow"}, !.main = {},
                                !.legacy = seen.main]
<1>1. at = 18 /\ Schema!Alters(new) /\ kept' = seen.main /\ seen.old
  BY PlacesAre DEF Schema!RenameOld, Schema!AtStmt
<1>2. seen \in DiskShape
  BY DEF SchemaInv, SchemaTyped
<1>3. /\ new \in DiskShape /\ new.tables = seen.tables \ {"shadow"} /\ new.columns = seen.columns
      /\ new.main = {} /\ new.legacy = seen.main /\ new.old = FALSE /\ new.policy = seen.policy
  BY <1>2 DEF DiskShape
<1>. HIDE DEF new
<1>4. seen.main \subseteq OldRows /\ before \subseteq seen.main
  BY <1>1, <1>2 DEF SchemaInv, RowsAreSomewhere, DiskShape
<1>5. MadeBy(new, at + 1)
  <2>1. ASSUME NEW i \in 1..5 PROVE Schema!Script[i].what \ {"shadow"} \subseteq new.tables
    BY <1>1, <1>3 DEF SchemaInv, MadeBy
  <2>2. ASSUME NEW i \in 7..25, i < at + 1, Schema!Script[i].do = "column"
        PROVE Schema!Script[i].what \in new.columns
    <3>1. i # 18
      BY <2>2, KindsAre
    <3>2. i < at
      BY <1>1, <2>2, <3>1
    <3>. QED BY <1>3, <2>2, <3>2 DEF SchemaInv, MadeBy
  <2>. QED BY <1>1, <1>3, <2>1, <2>2 DEF MadeBy
<1>. QED BY <1>1, <1>3, <1>4, <1>5, AltersKeeps

LEMMA NothingKeeps ==
  ASSUME SchemaInv, Schema!NothingToMove
  PROVE  SchemaInv'
<1>1. /\ at = 18 /\ at' = 22 /\ ~seen.old
      /\ database' = database /\ seen' = seen /\ open' = open /\ kept' = kept /\ before' = before
  BY PlacesAre, UpIs DEF Schema!NothingToMove, Schema!AtStmt
<1>2. SchemaTyped' /\ RowsAreSomewhere'
  BY <1>1 DEF SchemaInv, SchemaTyped, RowsAreSomewhere
<1>3. MadeBy(seen, 22)
  <2>1. ASSUME NEW i \in 1..5 PROVE Schema!Script[i].what \ {"shadow"} \subseteq seen.tables
    BY <1>1 DEF SchemaInv, MadeBy
  <2>2. ASSUME NEW i \in 7..25, i < 22, Schema!Script[i].do = "column"
        PROVE Schema!Script[i].what \in seen.columns
    <3>1. i # 18 /\ i # 19 /\ i # 20 /\ i # 21
      BY <2>2, KindsAre
    <3>2. i < at
      BY <1>1, <2>2, <3>1
    <3>. QED BY <2>2, <3>2 DEF SchemaInv, MadeBy
  <2>3. "shadow" \in seen.tables
    BY <1>1 DEF SchemaInv, MadeBy
  <2>. QED BY <1>1, <2>1, <2>2, <2>3 DEF MadeBy
<1>4. MadeBy(seen, at)'
  BY <1>1, <1>3, Zenon DEF MadeBy
<1>. QED BY <1>2, <1>4 DEF SchemaInv

LEMMA RemakeKeeps ==
  ASSUME SchemaInv, Schema!RemakeTable
  PROVE  SchemaInv'
<1>. DEFINE new == [seen EXCEPT !.tables = @ \cup {"shadow"}]
<1>1. at = 19 /\ Schema!Alters(new) /\ kept' = kept
  BY PlacesAre DEF Schema!RemakeTable, Schema!AtStmt
<1>2. "shadow" \in Schema!Tables
  BY DEF Schema!Tables, Schema!ShadowTables
<1>3. /\ new \in DiskShape /\ new.tables = seen.tables \cup {"shadow"} /\ new.columns = seen.columns
      /\ new.main = seen.main /\ new.legacy = seen.legacy /\ new.old = seen.old /\ new.policy = seen.policy
  BY <1>2 DEF SchemaInv, SchemaTyped, DiskShape
<1>. HIDE DEF new
<1>4. MadeBy(new, at + 1)
  <2>1. ASSUME NEW i \in 1..5 PROVE Schema!Script[i].what \ {"shadow"} \subseteq new.tables
    BY <1>1, <1>3 DEF SchemaInv, MadeBy
  <2>2. ASSUME NEW i \in 7..25, i < at + 1, Schema!Script[i].do = "column"
        PROVE Schema!Script[i].what \in new.columns
    <3>1. i # 19
      BY <2>2, KindsAre
    <3>2. i < at
      BY <1>1, <2>2, <3>1
    <3>. QED BY <1>3, <2>2, <3>2 DEF SchemaInv, MadeBy
  <2>3. ~new.old
    BY <1>1, <1>3 DEF SchemaInv, MadeBy
  <2>. QED BY <1>1, <1>3, <2>1, <2>2, <2>3 DEF MadeBy
<1>5. at \in 1..34 /\ at + 1 = 20 /\ before \subseteq kept
  BY <1>1 DEF SchemaInv, RowsAreSomewhere
<1>. QED BY <1>1, <1>3, <1>4, <1>5, AltersKeeps DEF SchemaInv, SchemaTyped, RowsAreSomewhere

LEMMA CopyKeeps ==
  ASSUME SchemaInv, Schema!CopyRows
  PROVE  SchemaInv'
<1>1. at = 20 /\ kept' = kept /\ before \subseteq kept /\ before \subseteq seen.main \cup seen.legacy
  BY PlacesAre DEF Schema!CopyRows, Schema!AtStmt, SchemaInv, RowsAreSomewhere
<1>2. CASE kept = {} /\ Schema!Alters(seen)
  <2>1. MadeBy(seen, at + 1)
    BY <1>1, MadeGoesOn
  <2>2. at \in 1..34 /\ at + 1 = 21
    BY <1>1
  <2>. QED BY <1>1, <1>2, <2>1, <2>2, AltersKeeps DEF SchemaInv, SchemaTyped, RowsAreSomewhere
<1>. DEFINE new == [seen EXCEPT !.main = kept]
<1>3. CASE Schema!Writes(new)
  <2>1. /\ new \in DiskShape /\ new.tables = seen.tables /\ new.columns = seen.columns
        /\ new.main = kept /\ new.legacy = seen.legacy /\ new.old = seen.old /\ new.policy = seen.policy
    BY DEF SchemaInv, SchemaTyped, DiskShape
  <2>2. /\ seen' = new /\ open' = TRUE /\ database' = database /\ at' = at + 1 /\ before' = before
    BY <1>3 DEF Schema!Writes, Schema!Advances
  <2>. HIDE DEF new
  <2>3. MadeBy(new, at + 1)
    BY <1>1, <2>1, MadeGoesOn
  <2>4. MadeBy(seen, at)'
    BY <2>2, <2>3, Zenon DEF MadeBy
  <2>5. SchemaTyped'
    BY <1>1, <2>1, <2>2 DEF SchemaInv, SchemaTyped
  <2>6. RowsAreSomewhere'
    BY <1>1, <2>1, <2>2 DEF SchemaInv, RowsAreSomewhere
  <2>. QED BY <2>4, <2>5, <2>6 DEF SchemaInv
<1>. QED BY <1>2, <1>3 DEF Schema!CopyRows

LEMMA DropKeeps ==
  ASSUME SchemaInv, Schema!DropLegacy
  PROVE  SchemaInv'
<1>. DEFINE new == [seen EXCEPT !.legacy = {}]
<1>1. at = 21 /\ Schema!Alters(new) /\ kept' = kept
  BY PlacesAre DEF Schema!DropLegacy, Schema!AtStmt
<1>2. /\ new \in DiskShape /\ new.tables = seen.tables /\ new.columns = seen.columns
      /\ new.main = seen.main /\ new.legacy = {} /\ new.old = seen.old /\ new.policy = seen.policy
  BY DEF SchemaInv, SchemaTyped, DiskShape
<1>. HIDE DEF new
<1>3. before \subseteq new.main
  BY <1>1, <1>2 DEF SchemaInv, RowsAreSomewhere
<1>4. MadeBy(new, at + 1)
  BY <1>1, <1>2, MadeGoesOn
<1>5. at \in 1..34 /\ at + 1 \notin 19..21
  BY <1>1
<1>. QED BY <1>1, <1>2, <1>3, <1>4, <1>5, AltersKeeps DEF SchemaInv, SchemaTyped, RowsAreSomewhere

LEMMA CommitKeeps ==
  ASSUME SchemaInv, Schema!Commit
  PROVE  SchemaInv'
<1>1. /\ at \in {27, 35} /\ database' = seen /\ open' = FALSE /\ at' = at + 1
      /\ before' = before /\ seen' = seen /\ kept' = kept
  BY PlacesAre DEF Schema!Commit, Schema!AtStmt, Schema!Advances
<1>2. SchemaTyped'
  <2>1. at' \in 0..36 /\ seen \in DiskShape /\ kept \subseteq OldRows /\ before \subseteq OldRows
    BY <1>1 DEF SchemaInv, SchemaTyped
  <2>. QED BY <1>1, <2>1, Zenon DEF SchemaTyped
<1>5. at' \notin 19..21
  BY <1>1
<1>6. RowsAreSomewhere'
  BY <1>1, <1>5 DEF SchemaInv, RowsAreSomewhere
<1>3. MadeBy(seen, at + 1)
  BY <1>1, MadeGoesOn
<1>4. MadeBy(seen, at)'
  BY <1>1, <1>3, Zenon DEF MadeBy
<1>. QED BY <1>2, <1>4, <1>6 DEF SchemaInv

LEMMA PolicyKeeps ==
  ASSUME SchemaInv, Schema!SetPolicy
  PROVE  SchemaInv'
<1>. DEFINE new == [seen EXCEPT !.policy = TRUE]
<1>1. at = 34 /\ Schema!Writes(new) /\ kept' = kept
  BY PlacesAre DEF Schema!SetPolicy, Schema!AtStmt
<1>2. /\ new \in DiskShape /\ new.tables = seen.tables /\ new.columns = seen.columns
      /\ new.main = seen.main /\ new.legacy = seen.legacy /\ new.old = seen.old /\ new.policy = TRUE
  BY DEF SchemaInv, SchemaTyped, DiskShape
<1>3. seen' = new /\ open' = TRUE /\ database' = database /\ at' = 35 /\ before' = before
  BY <1>1 DEF Schema!Writes, Schema!Advances
<1>. HIDE DEF new
<1>4. MadeBy(new, at + 1)
  BY <1>1, <1>2, MadeGoesOn
<1>5. MadeBy(new, 35)
  BY <1>1, <1>4
<1>6. MadeBy(seen, at)'
  BY <1>3, <1>5, Zenon DEF MadeBy
<1>7. SchemaTyped' /\ RowsAreSomewhere'
  BY <1>1, <1>2, <1>3 DEF SchemaInv, SchemaTyped, RowsAreSomewhere
<1>. QED BY <1>6, <1>7 DEF SchemaInv

(* Nothing is made yet at the first statement, or with no start under way. *)
LEMMA StartsAfresh ==
  ASSUME SchemaInv, at' \in {0, 1}, seen' = database, database' = database, open' = FALSE,
         kept' = {}, before' = before
  PROVE  SchemaInv'
<1>1. SchemaTyped'
  <2>1. /\ at' \in 0..36 /\ database \in DiskShape /\ {} \subseteq OldRows
        /\ before \subseteq OldRows
    BY DEF SchemaInv, SchemaTyped
  <2>. QED BY <2>1, Zenon DEF SchemaTyped
<1>4. at' \notin 19..21
  OBVIOUS
<1>5. RowsAreSomewhere'
  BY <1>4 DEF SchemaInv, RowsAreSomewhere
<1>2. MadeBy(database, 0) /\ MadeBy(database, 1)
  BY DEF MadeBy
<1>3. MadeBy(seen, at)'
  BY <1>2, Zenon DEF MadeBy
<1>. QED BY <1>1, <1>3, <1>5 DEF SchemaInv

LEMMA SchemaStart == Schema!Init => SchemaInv
<1>. SUFFICES ASSUME Schema!Init PROVE SchemaInv
  OBVIOUS
<1>1. PICK tables \in OldTables, columns \in OldColumns, isOld \in BOOLEAN, left \in SUBSET OldRows :
         /\ database = [Schema!NoDisk EXCEPT !.tables = tables, !.old = isOld, !.main = left,
                                             !.columns = {c \in columns : c[1] \in tables}]
         /\ before = left
  BY DEF Schema!Init
<1>2. seen = database /\ open = FALSE /\ at = 0 /\ kept = {}
  BY UpIs DEF Schema!Init
<1>3. tables \subseteq Schema!Tables /\ {c \in columns : c[1] \in tables} \subseteq Schema!Late
  BY SchemaAssumption
<1>4. /\ database \in DiskShape /\ database.main = left /\ database.legacy = {}
  BY <1>1, <1>3 DEF DiskShape, Schema!NoDisk
<1>5. SchemaTyped
  <2>1. at \in 0..36 /\ {} \subseteq OldRows /\ before \subseteq OldRows
    BY <1>1, <1>2
  <2>. QED BY <1>2, <1>4, <2>1, Zenon DEF SchemaTyped
<1>6. MadeBy(seen, at)
  BY <1>2 DEF MadeBy
<1>7. at \notin 19..21
  BY <1>2
<1>8. RowsAreSomewhere
  BY <1>1, <1>2, <1>4, <1>7 DEF RowsAreSomewhere
<1>. QED BY <1>5, <1>6, <1>8 DEF SchemaInv

LEMMA SchemaMoves == SchemaInv /\ [Schema!Next]_SchemaState => SchemaInv'
<1>. SUFFICES ASSUME SchemaInv, [Schema!Next]_SchemaState PROVE SchemaInv'
  OBVIOUS
<1>1. CASE Schema!Opens
  BY <1>1, StartsAfresh DEF Schema!Opens
<1>2. CASE Schema!Dies
  BY <1>2, UpIs, StartsAfresh DEF Schema!Dies
<1>3. CASE UNCHANGED SchemaState
  <2>1. /\ at' = at /\ seen' = seen /\ database' = database /\ open' = open /\ kept' = kept
        /\ before' = before
    BY <1>3 DEF SchemaState
  <2>. QED BY <2>1, Zenon DEF SchemaInv, SchemaTyped, RowsAreSomewhere, MadeBy
<1>. QED BY <1>1, <1>2, <1>3, TablesKeep, FtsKeeps, ColumnKeeps, IndexMadeKeeps, RenameKeeps, NothingKeeps,
            RemakeKeeps, CopyKeeps, DropKeeps, CommitKeeps, PolicyKeeps, Zenon DEF Schema!Next

LEMMA SchemaIsSound == SchemaInv => Schema!NoRowIsLost /\ Schema!StartsAreCurrent
<1>. SUFFICES ASSUME SchemaInv PROVE Schema!NoRowIsLost /\ Schema!StartsAreCurrent
  OBVIOUS
<1>1. Schema!NoRowIsLost
  BY DEF SchemaInv, RowsAreSomewhere, Schema!NoRowIsLost
<1>2. ASSUME at > 25 PROVE Schema!Late \subseteq seen.columns
  <2>1. SUFFICES ASSUME NEW c \in Schema!Late PROVE c \in seen.columns
    OBVIOUS
  <2>2. PICK i \in 7..25 : Schema!Script[i] = Schema!Stmt("column", c)
    BY ScriptIs, Zenon DEF ScriptKnown
  <2>3. Schema!Script[i].do = "column" /\ Schema!Script[i].what = c
    BY <2>2 DEF Schema!Stmt
  <2>4. i < at
    BY <1>2 DEF SchemaInv, SchemaTyped
  <2>. QED BY <2>3, <2>4 DEF SchemaInv, MadeBy
<1>3. ASSUME Schema!AtStmt("index") PROVE Schema!Script[at].what \in seen.columns
  <2>1. at \in {26} \cup 28..33
    BY <1>3, PlacesAre DEF Schema!AtStmt
  <2>2. Schema!Script[at].what \in Schema!Late
    BY <2>1, KindsAre, Zenon
  <2>3. at > 25
    BY <2>1
  <2>. QED BY <1>2, <2>2, <2>3
<1>4. ASSUME at = Schema!Up
      PROVE  /\ Schema!Tables \subseteq database.tables /\ database.columns = Schema!Late
             /\ ~database.old /\ database.policy /\ ~open
  <2>1. at = 36 /\ ~open /\ database = seen /\ seen \in DiskShape
    BY <1>4, UpIs DEF SchemaInv, SchemaTyped
  <2>2. \A i \in 1..5 : Schema!Script[i].what \ {"shadow"} \subseteq seen.tables
    BY <2>1 DEF SchemaInv, MadeBy
  <2>3. "shadow" \in seen.tables /\ ~seen.old /\ seen.policy
    BY <2>1 DEF SchemaInv, MadeBy
  <2>4. \A i \in 1..5 : Schema!Script[i].what \subseteq seen.tables
    BY <2>2, <2>3
  <2>5. /\ Schema!Script[1].what \subseteq seen.tables /\ Schema!Script[2].what \subseteq seen.tables
        /\ Schema!Script[3].what \subseteq seen.tables /\ Schema!Script[4].what \subseteq seen.tables
        /\ Schema!Script[5].what \subseteq seen.tables
    BY <2>4
  <2>6. /\ Schema!Script[1].what = Schema!CommandTables /\ Schema!Script[2].what = Schema!ShadowTables
        /\ Schema!Script[3].what = Schema!RecordTables /\ Schema!Script[4].what = Schema!MeetingTables
        /\ Schema!Script[5].what = Schema!ContextTables
    BY ScriptIs DEF ScriptKnown, Schema!Stmt
  <2>7. Schema!Tables \subseteq seen.tables
    BY <2>5, <2>6, Zenon DEF Schema!Tables
  <2>8. seen.columns = Schema!Late
    <3>1. seen.columns \subseteq Schema!Late
      BY <2>1 DEF DiskShape
    <3>2. at > 25
      BY <2>1
    <3>. QED BY <1>2, <3>1, <3>2, Zenon
  <2>. QED BY <2>1, <2>3, <2>7, <2>8
<1>. QED BY <1>1, <1>3, <1>4, Zenon DEF Schema!StartsAreCurrent

-----------------------------------------------------------------------------
(***************************************************************************)
(* RoutingCalibration, for any texts, sessions and numbers of rows: what a *)
(* ready artifact was judged on stays apart from what it was trained on,   *)
(* from the fit to the probability that is told.                           *)
(***************************************************************************)
HeldOut(file) ==
    file.status = "ready" =>
        /\ file.split.evaluate # {}
        /\ \A r \in file.split.train \cup file.split.evaluate : r.release = file.release
        /\ \A t \in file.split.train, e \in file.split.evaluate : t.id < e.id
        /\ \E S \in SUBSET file.seen :
             /\ file.split.train \subseteq S /\ file.split.evaluate \cap S = {}
             /\ \A r \in S, s \in file.seen \ S : r.text # s.text /\ r.session # s.session

CalibrationInv ==
    /\ release \in Releases /\ observed \in 0..MaxObserved
    /\ batches \in Seq(Calibration!Row) /\ keeper \in Calibration!Row \cup {NoRun}
    /\ observations \subseteq Calibration!Row /\ IsFiniteSet(observations)
    /\ labels \subseteq {r \in observations : r.role = "representative"}
    /\ HeldOut(artifact) /\ HeldOut(loaded)
    /\ given # NoRun => given.status = "ready" /\ HeldOut(given) /\ given.release = release

(* The least and the greatest of some numbers.                             *)
LEMMA LeastOf ==
  ASSUME NEW T \in SUBSET Nat, T # {}
  PROVE  Calibration!Min(T) \in T /\ \A y \in T : Calibration!Min(T) <= y
<1>. DEFINE Less == {pair \in Nat \X Nat : pair[1] < pair[2]}
<1>1. IsWellFoundedOn(Less, Nat)
  BY NatLessThanWellFounded DEF OpToRel
<1>. HIDE DEF Less
<1>2. PICK x \in T : \A y \in T : ~(<<y, x>> \in Less)
  BY <1>1, WFMin
<1>3. ASSUME NEW y \in T PROVE x <= y
  <2>1. x \in Nat /\ y \in Nat
    OBVIOUS
  <2>2. y < x => <<y, x>> \in Less
    BY <2>1 DEF Less
  <2>. QED BY <1>2, <2>1, <2>2
<1>. QED BY <1>3 DEF Calibration!Min

LEMMA GreatestOf ==
  ASSUME NEW n \in Nat, NEW T \in SUBSET (1..n), T # {}
  PROVE  Calibration!Max(T) \in T /\ \A y \in T : y <= Calibration!Max(T)
<1>. DEFINE Gap == {n - y : y \in T}
<1>0. \A y \in T : y \in Nat /\ n - y \in Nat
  OBVIOUS
<1>1. Gap \in SUBSET Nat /\ Gap # {}
  BY <1>0
<1>. HIDE DEF Gap
<1>2. PICK g \in Gap : \A h \in Gap : g <= h
  BY <1>1, LeastOf
<1>3. PICK x \in T : g = n - x
  BY DEF Gap
<1>4. ASSUME NEW y \in T PROVE y <= x
  <2>1. g <= n - y
    BY <1>2 DEF Gap
  <2>. QED BY <1>0, <1>3, <2>1
<1>. QED BY <1>4 DEF Calibration!Max

(* A component begins and ends with rows of its own.                       *)
LEMMA EndsOfRows ==
  ASSUME NEW c \in SUBSET Calibration!Row, c # {}
  PROVE  /\ Calibration!Starts(c) \in 1..MaxObserved /\ Calibration!Ends(c) \in 1..MaxObserved
         /\ \A r \in c : /\ r.id \in 1..MaxObserved
                         /\ Calibration!Starts(c) <= r.id /\ r.id <= Calibration!Ends(c)
<1>. DEFINE T == {r.id : r \in c}
<1>1. \A r \in c : r.id \in 1..MaxObserved
  BY DEF Calibration!Row
<1>2. T \in SUBSET (1..MaxObserved) /\ T # {} /\ \A r \in c : r.id \in T
  BY <1>1
<1>3. T \in SUBSET Nat
  BY <1>2
<1>4. Calibration!Starts(c) = Calibration!Min(T) /\ Calibration!Ends(c) = Calibration!Max(T)
  BY DEF Calibration!Starts, Calibration!Ends
<1>. HIDE DEF T
<1>5. Calibration!Min(T) \in T /\ \A y \in T : Calibration!Min(T) <= y
  BY <1>2, <1>3, LeastOf
<1>6. Calibration!Max(T) \in T /\ \A y \in T : y <= Calibration!Max(T)
  BY <1>2, CalibrationAssumption, GreatestOf
<1>. QED BY <1>1, <1>2, <1>4, <1>5, <1>6

(* There is a cutoff wherever there are components: not later than the last *)
(* of their ends, when all of them are over.                               *)
LEMMA CutoffIs ==
  ASSUME NEW C \in SUBSET (SUBSET Calibration!Row), IsFiniteSet(C), C # {}, {} \notin C
  PROVE  Calibration!Cutoff(C) \in Nat
<1>. DEFINE n == Cardinality(C)
            target == IF (n * 4) \div 5 = 0 THEN 1 ELSE (n * 4) \div 5
            E == {Calibration!Ends(c) : c \in C}
            Over(t) == {c \in C : Calibration!Ends(c) <= t}
            T == {t \in E : Cardinality(Over(t)) >= target}
<1>1. \A c \in C : Calibration!Ends(c) \in 1..MaxObserved
  BY EndsOfRows
<1>2. E \in SUBSET (1..MaxObserved) /\ E # {} /\ T \in SUBSET Nat
  BY <1>1
<1>3. PICK m \in E : \A t \in E : t <= m
  <2>. HIDE DEF E
  <2>. QED BY <1>2, CalibrationAssumption, GreatestOf
<1>4. Over(m) = C
  BY <1>3
<1>5. n \in Nat /\ n # 0
  BY FS_CardinalityType, FS_EmptySet
<1>6. target <= n
  <2>. HIDE DEF n
  <2>1. (n * 4) \div 5 <= n /\ 1 <= n
    BY <1>5
  <2>. QED BY <2>1
<1>7. m \in T
  BY <1>3, <1>4, <1>5, <1>6
<1>8. Calibration!Cutoff(C) = Calibration!Min(T)
  BY DEF Calibration!Cutoff, Calibration!Cardinality, Cardinality
<1>. HIDE DEF T
<1>. QED BY <1>2, <1>7, <1>8, LeastOf

(* The split of some rows: later than all that is trained on, and tied to  *)
(* none of it.                                                             *)
LEMMA SplitIsApart ==
  ASSUME NEW all \in SUBSET Calibration!Row, IsFiniteSet(all), NEW known \in SUBSET all,
         NEW split, split = Calibration!TemporalGroupSplit(known, all), split.evaluate # {}
  PROVE  /\ split.train \subseteq known /\ split.evaluate \subseteq known
         /\ \A t \in split.train, e \in split.evaluate : t.id < e.id
         /\ \E S \in SUBSET all :
              /\ split.train \subseteq S /\ split.evaluate \cap S = {}
              /\ \A r \in S, s \in all \ S : r.text # s.text /\ r.session # s.session
<1>. DEFINE C == Calibration!ComponentGroups(all)
            cut == Calibration!Cutoff(C)
            S == UNION {c \in C : Calibration!Ends(c) <= cut}
            L == UNION {c \in C : Calibration!Starts(c) > cut}
<1>1. known # {}
  BY DEF Calibration!TemporalGroupSplit
<1>2. split.train = known \cap S /\ split.evaluate = known \cap L
  BY <1>1 DEF Calibration!TemporalGroupSplit
<1>3. \A c \in C : c \in SUBSET all /\ c # {} /\ Calibration!Tied(c, all)
  BY DEF Calibration!ComponentGroups
<1>4. IsFiniteSet(C)
  BY <1>3, FS_SUBSET, FS_Subset
<1>. HIDE DEF C
<1>5. C # {}
  BY <1>2
<1>6. cut \in Nat
  BY <1>3, <1>4, <1>5, CutoffIs
<1>. HIDE DEF cut
<1>7. ASSUME NEW t \in S, NEW e \in L PROVE t.id < e.id
  <2>1. PICK c \in C : t \in c /\ Calibration!Ends(c) <= cut
    OBVIOUS
  <2>2. PICK d \in C : e \in d /\ Calibration!Starts(d) > cut
    OBVIOUS
  <2>3. t.id \in 1..MaxObserved /\ t.id <= Calibration!Ends(c) /\ Calibration!Ends(c) \in 1..MaxObserved
    BY <1>3, <2>1, EndsOfRows
  <2>4. e.id \in 1..MaxObserved /\ Calibration!Starts(d) <= e.id /\ Calibration!Starts(d) \in 1..MaxObserved
    BY <1>3, <2>2, EndsOfRows
  <2>. QED BY <1>6, <2>1, <2>2, <2>3, <2>4
<1>8. ASSUME NEW r \in L, r \in S PROVE FALSE
  <2>1. r.id < r.id /\ r \in all
    BY <1>3, <1>7, <1>8
  <2>2. r.id \in 1..MaxObserved
    BY <2>1 DEF Calibration!Row
  <2>. QED BY <2>1, <2>2
<1>9. ASSUME NEW r \in S, NEW s \in all \ S PROVE r.text # s.text /\ r.session # s.session
  <2>1. PICK c \in C : r \in c /\ Calibration!Ends(c) <= cut
    OBVIOUS
  <2>2. s \in all \ c
    BY <2>1
  <2>. QED BY <1>3, <2>1, <2>2 DEF Calibration!Tied, Calibration!SharesToken
<1>10. S \in SUBSET all
  BY <1>3
<1>. QED BY <1>2, <1>7, <1>8, <1>9, <1>10

(* All rows that are labelled are of the one release of the context.       *)
LEMMA OneContext ==
  ASSUME NEW all, IsFiniteSet(all), Calibration!Cardinality(Calibration!Contexts(all)) <= 1,
         NEW r \in all, r.role = "representative"
  PROVE  r.release = CHOOSE c \in Calibration!Contexts(all) : TRUE
<1>. DEFINE K == Calibration!Contexts(all)
<1>1. r.release \in K
  BY DEF Calibration!Contexts
<1>2. IsFiniteSet(K)
  <2>. DEFINE D == {s \in all : s.role = "representative"}
  <2>1. IsFiniteSet(D)
    BY FS_Subset
  <2>2. K = {s.release : s \in D}
    BY DEF Calibration!Contexts
  <2>. DEFINE of == [s \in D |-> s.release]
  <2>3. of \in Surjection(D, K)
    BY <2>2 DEF Surjection
  <2>. HIDE DEF D, K, of
  <2>. QED BY <2>1, <2>3, FS_Surjection
<1>3. Cardinality(K) <= 1
  BY DEF Calibration!Cardinality, Cardinality
<1>. HIDE DEF K
<1>4. Cardinality(K) \in Nat /\ Cardinality(K) # 0
  BY <1>1, <1>2, FS_CardinalityType, FS_EmptySet
<1>5. Cardinality(K) = 1
  BY <1>3, <1>4
<1>6. \E x : K = {x}
  BY <1>2, <1>5, FS_Singleton
<1>. QED BY <1>1, <1>6 DEF K

LEMMA CalibrationInit == Calibration!Init => CalibrationInv
<1>. SUFFICES ASSUME Calibration!Init PROVE CalibrationInv
  OBVIOUS
<1>1. observations = {} /\ IsFiniteSet(observations) /\ labels = {}
  BY FS_EmptySet DEF Calibration!Init
<1>2. HeldOut(artifact) /\ HeldOut(loaded)
  BY DEF Calibration!Init, Calibration!NoArtifact, HeldOut
<1>3. batches \in Seq(Calibration!Row)
  BY DEF Calibration!Init
<1>. QED BY <1>1, <1>2, <1>3, CalibrationAssumption DEF Calibration!Init, CalibrationInv

LEMMA FitKeeps ==
  ASSUME CalibrationInv, Calibration!Fit
  PROVE  CalibrationInv'
<1>1. UNCHANGED <<release, batches, keeper, observations, labels, observed, loaded, given>>
  BY DEF Calibration!Fit
<1>. DEFINE split == Calibration!TemporalGroupSplit(labels, observations)
            old == CHOOSE c \in Calibration!Contexts(observations) : TRUE
            ready == [status |-> "ready", split |-> split, seen |-> observations, release |-> old]
<1>2. \/ artifact' = [status |-> "insufficient"] \/ artifact' = [status |-> "not reportable"]
      \/ artifact' = ready /\ split.evaluate # {}
  BY DEF Calibration!Fit, Calibration!ValidWindows
<1>3. ASSUME artifact' = ready, split.evaluate # {} PROVE HeldOut(artifact)'
  <2>1. labels \in SUBSET observations /\ observations \in SUBSET Calibration!Row /\ IsFiniteSet(observations)
    BY DEF CalibrationInv
  <2>2. /\ split.train \subseteq labels /\ split.evaluate \subseteq labels
        /\ \A t \in split.train, e \in split.evaluate : t.id < e.id
        /\ \E S \in SUBSET observations :
             /\ split.train \subseteq S /\ split.evaluate \cap S = {}
             /\ \A r \in S, s \in observations \ S : r.text # s.text /\ r.session # s.session
    BY <1>3, <2>1, SplitIsApart
  <2>3. Calibration!Cardinality(Calibration!Contexts(observations)) <= 1
    BY DEF Calibration!Fit
  <2>4. \A r \in split.train \cup split.evaluate : r.release = old
    BY <2>1, <2>2, <2>3, OneContext DEF CalibrationInv
  <2>. HIDE DEF split, old
  <2>. QED BY <1>3, <2>2, <2>4 DEF HeldOut
<1>. HIDE DEF ready, split, old
<1>4. HeldOut(artifact)'
  <2>1. ASSUME NEW word \in {"insufficient", "not reportable"}, artifact' = [status |-> word]
        PROVE  HeldOut(artifact)'
    BY <2>1 DEF HeldOut
  <2>. QED BY <1>2, <1>3, <2>1
<1>5. HeldOut(loaded)'
  <2>1. loaded' = loaded /\ HeldOut(loaded)
    BY <1>1 DEF CalibrationInv
  <2>. QED BY <2>1, Zenon DEF HeldOut
<1>6. (given # NoRun => given.status = "ready" /\ HeldOut(given) /\ given.release = release)'
  <2>1. given' = given /\ release' = release
    BY <1>1
  <2>2. given # NoRun => given.status = "ready" /\ HeldOut(given) /\ given.release = release
    BY DEF CalibrationInv
  <2>. QED BY <2>1, <2>2, Zenon DEF HeldOut
<1>. QED BY <1>1, <1>4, <1>5, <1>6 DEF CalibrationInv

LEMMA CalibrationNext ==
  CalibrationInv /\ [Calibration!Next]_CalibrationState => CalibrationInv'
<1>. SUFFICES ASSUME CalibrationInv, [Calibration!Next]_CalibrationState PROVE CalibrationInv'
  OBVIOUS
<1>. USE CalibrationAssumption
<1>1. ASSUME NEW text \in Texts, NEW session \in Talks, NEW role \in Calibration!Roles,
             Calibration!Record(text, session, role)
      PROVE  CalibrationInv'
  <2>. DEFINE row == [id |-> observed + 1, text |-> text, session |-> session, role |-> role,
                      release |-> release]
  <2>1. observed' \in 0..MaxObserved /\ observed + 1 \in 1..MaxObserved
    BY <1>1 DEF Calibration!Record, CalibrationInv
  <2>2. row \in Calibration!Row
    BY <2>1 DEF Calibration!Row, CalibrationInv
  <2>3. batches' = batches \/ batches' = Append(batches, row)
    BY <1>1 DEF Calibration!Record
  <2>. HIDE DEF row
  <2>4. batches' \in Seq(Calibration!Row)
    BY <2>2, <2>3, AppendProperties DEF CalibrationInv
  <2>. QED BY <1>1, <2>1, <2>4 DEF Calibration!Record, CalibrationInv
<1>2. CASE Calibration!WorkerTakes
  <2>1. batches \in Seq(Calibration!Row) /\ batches # <<>>
    BY <1>2 DEF Calibration!WorkerTakes, CalibrationInv
  <2>2. Head(batches) \in Calibration!Row /\ Tail(batches) \in Seq(Calibration!Row)
    BY <2>1, HeadTailProperties
  <2>. QED BY <1>2, <2>2 DEF Calibration!WorkerTakes, CalibrationInv
<1>3. CASE Calibration!WorkerStores
  <2>1. keeper \in Calibration!Row
    BY <1>3 DEF Calibration!WorkerStores, CalibrationInv
  <2>2. IsFiniteSet(observations')
    BY <1>3, FS_AddElement DEF Calibration!WorkerStores, CalibrationInv
  <2>. QED BY <1>3, <2>1, <2>2 DEF Calibration!WorkerStores, CalibrationInv
<1>4. CASE Calibration!WorkerFails
  BY <1>4 DEF Calibration!WorkerFails, CalibrationInv
<1>5. ASSUME NEW row \in observations, Calibration!Label(row) PROVE CalibrationInv'
  BY <1>5 DEF Calibration!Label, CalibrationInv
<1>6. CASE Calibration!Fit
  BY <1>6, FitKeeps
<1>7. CASE Calibration!Infer
  BY <1>7 DEF Calibration!Infer, Calibration!StatusForExpectations, CalibrationInv
<1>8. ASSUME NEW to \in Releases, Calibration!Restart(to) PROVE CalibrationInv'
  BY <1>8 DEF Calibration!Restart, CalibrationInv
<1>9. CASE UNCHANGED CalibrationState
  BY <1>9 DEF CalibrationState, CalibrationInv
<1>. QED BY <1>1, <1>2, <1>3, <1>4, <1>5, <1>6, <1>7, <1>8, <1>9 DEF Calibration!Next

LEMMA CalibrationHolds == CalibrationInv => Calibration!ProbabilityIsHeldOut
  BY DEF CalibrationInv, HeldOut, Calibration!ProbabilityIsHeldOut

-----------------------------------------------------------------------------
(***************************************************************************)
(* The shape of what is kept, where the invariants above do not say it: of *)
(* every variable of a component that a step may write.                    *)
(***************************************************************************)
(* ContextTimeline and SchemaMigration: what their invariants say already. *)
LEMMA TimelineTypesMean == ASSUME TimelineInv PROVE Timeline!TypeOK
<1>1. ingest.at \in {"idle", "events"} /\ index.at \in {"idle", "listed", "embedding", "marking"}
  BY DEF TimelineInv, TasksTyped, IngestTyped, IndexTyped, Timeline!Idle
<1>2. /\ life.at \in {"idle", "points", "listing", "listed"}
      /\ retain.at \in {"idle", "begun", "listing", "listed", "vectors"}
  BY DEF TimelineInv, TasksTyped, SweepsTyped, Timeline!Idle
<1>3. recall.at \in {"idle", "hit", "sources", "served"}
  BY DEF TimelineInv, TasksTyped, RecallTyped, Timeline!Idle
<1>. QED BY <1>1, <1>2, <1>3 DEF TimelineInv, RowsTyped, Timeline!TypeOK

LEMMA SchemaTypesMean == ASSUME SchemaInv PROVE Schema!SchemaTypeOK
<1>1. \A d \in DiskShape : /\ d.tables \subseteq Schema!Tables \cup Schema!FtsTables
                           /\ d.columns \subseteq Schema!Late
                           /\ d.main \subseteq OldRows /\ d.legacy \subseteq OldRows
                           /\ d.old \in BOOLEAN /\ d.policy \in BOOLEAN
  BY DEF DiskShape
<1>2. at \in Schema!Down..Schema!Up
  BY UpIs DEF SchemaInv, SchemaTyped
<1>. QED BY <1>1, <1>2 DEF SchemaInv, SchemaTyped, Schema!SchemaTypeOK

(* RoutingCalibration: what was observed was kept or dropped, and what was *)
(* kept waits, is being stored, is stored or was lost.                     *)
CalibrationFields ==
    /\ Len(batches) <= QueueLimit
    /\ {accepted, dropped, lostBatches} \subseteq Nat
    /\ accepted + dropped = observed
    /\ lostBatches + Len(batches) + (IF keeper = NoRun THEN 0 ELSE 1) <= accepted
    /\ artifact.status \in Calibration!Statuses /\ loaded.status \in Calibration!Statuses

LEMMA CalibrationFieldsKept ==
    ASSUME CalibrationInv, CalibrationFields, [Calibration!Next]_CalibrationState
    PROVE  CalibrationFields'
<1>0. batches \in Seq(Calibration!Row) /\ Len(batches) \in Nat /\ QueueLimit \in Nat
      /\ observed \in Nat
  BY CalibrationAssumption DEF CalibrationInv
<1>1. ASSUME NEW text \in Texts, NEW session \in Talks, NEW role \in Calibration!Roles,
             Calibration!Record(text, session, role)
      PROVE  CalibrationFields'
  <2>. DEFINE row == [id |-> observed + 1, text |-> text, session |-> session, role |-> role,
                      release |-> release]
  <2>1. Len(Append(batches, row)) = Len(batches) + 1
    BY <1>0
  <2>2. \/ /\ Len(batches) < QueueLimit /\ batches' = Append(batches, row)
           /\ accepted' = accepted + 1 /\ dropped' = dropped
        \/ batches' = batches /\ accepted' = accepted /\ dropped' = dropped + 1
    BY <1>1 DEF Calibration!Record
  <2>3. observed' = observed + 1 /\ UNCHANGED <<lostBatches, keeper, artifact, loaded>>
    BY <1>1 DEF Calibration!Record
  <2>. HIDE DEF row
  <2>. QED BY <1>0, <2>1, <2>2, <2>3 DEF CalibrationFields
<1>2. CASE Calibration!WorkerTakes
  <2>1. Len(Tail(batches)) = Len(batches) - 1
    BY <1>0, <1>2 DEF Calibration!WorkerTakes
  <2>. QED BY <1>0, <1>2, <2>1 DEF Calibration!WorkerTakes, CalibrationFields
<1>3. CASE Calibration!WorkerStores \/ Calibration!WorkerFails
  BY <1>0, <1>3 DEF Calibration!WorkerStores, Calibration!WorkerFails, CalibrationFields
<1>4. CASE Calibration!Fit
  <2>1. \E words : artifact' = [status |-> "insufficient"] \/ artifact' = [status |-> "not reportable"]
                   \/ (artifact' = words /\ words.status = "ready")
    <3>. DEFINE split == Calibration!TemporalGroupSplit(labels, observations)
                old == CHOOSE c \in Calibration!Contexts(observations) : TRUE
                words == [status |-> "ready", split |-> split, seen |-> observations, release |-> old]
    <3>1. \/ artifact' = [status |-> "insufficient"] \/ artifact' = [status |-> "not reportable"]
          \/ artifact' = words
      BY <1>4 DEF Calibration!Fit
    <3>2. words.status = "ready"
      OBVIOUS
    <3>. HIDE DEF words
    <3>. QED BY <3>1, <3>2
  <2>2. artifact'.status \in {"insufficient", "not reportable", "ready"}
    <3>1. \A word : artifact' = [status |-> word] => artifact'.status = word
      OBVIOUS
    <3>. QED BY <2>1, <3>1, Zenon
  <2>3. artifact'.status \in Calibration!Statuses
    BY <2>2, Zenon DEF Calibration!Statuses
  <2>4. UNCHANGED <<batches, accepted, dropped, lostBatches, observed, keeper, loaded>>
    BY <1>4 DEF Calibration!Fit
  <2>. QED BY <1>0, <2>3, <2>4 DEF CalibrationFields
<1>5. ASSUME \/ \E row \in observations : Calibration!Label(row)
             \/ Calibration!Infer \/ \E to \in Releases : Calibration!Restart(to)
             \/ UNCHANGED CalibrationState
      PROVE CalibrationFields'
  <2>1. /\ UNCHANGED <<batches, accepted, dropped, lostBatches, observed, keeper, artifact>>
        /\ loaded' \in {loaded, artifact}
    BY <1>5 DEF Calibration!Label, Calibration!Infer, Calibration!Restart, CalibrationState
  <2>. QED BY <1>0, <2>1 DEF CalibrationFields
<1>. QED BY <1>1, <1>2, <1>3, <1>4, <1>5 DEF Calibration!Next

LEMMA CalibrationFieldsBegin == ASSUME Calibration!Init PROVE CalibrationFields
<1>1. Len(<<>>) = 0 /\ QueueLimit \in Nat
  BY CalibrationAssumption
<1>. QED BY <1>1 DEF Calibration!Init, Calibration!NoArtifact, Calibration!Statuses, CalibrationFields

LEMMA CalibrationTypesMean ==
    ASSUME CalibrationInv, CalibrationFields
    PROVE  Calibration!CalibrationTypeOK
<1>1. Len(batches) \in Nat /\ MaxObserved \in Nat /\ observed \in 0..MaxObserved
  BY CalibrationAssumption DEF CalibrationInv
<1>2. {observed, accepted, dropped, lostBatches} \subseteq 0..MaxObserved
  BY <1>1 DEF CalibrationFields
<1>. QED BY <1>2 DEF CalibrationFields, CalibrationInv, Calibration!CalibrationTypeOK

(* SituationLedger: every event is of the kinds and the evidence there are.*)
LedgerRow == [kind : Ledger!Kinds, id : Ids, evidence : Ledger!Evidence]
LedgerFields == ledger \in Seq(LedgerRow) /\ Len(ledger) <= MaxEvents

(* What the policy lets through is a place among what was cited.           *)
LEMMA PassedIsCited ==
    ASSUME NEW p, NEW resolved, Len(resolved) \in Nat, NEW b, b = Ledger!Enforce(p, resolved), b # 0,
           Len(resolved) # 0
    PROVE  b \in 1..Len(resolved) /\ resolved[b] # Ledger!Unknown
<1>1. \/ b = 1 \/ \E allowed : b = Ledger!BestEvidence(resolved, allowed)
  BY DEF Ledger!Enforce, Ledger!EnforceKind, Ledger!EnforcePromote, Ledger!EnforceCommitment
<1>2. b \in 1..Len(resolved)
  BY <1>1, BestIsAllowed
<1>3. ~Ledger!Contains(resolved, Ledger!Unknown)
  BY DEF Ledger!Enforce
<1>. QED BY <1>2, <1>3 DEF Ledger!Contains

LEMMA LatestOf ==
    ASSUME LedgerFields, NEW id
    PROVE  Ledger!OfLedger(id) \in Ledger!Evidence \cup {Ledger!Unknown}
<1>. DEFINE of == {i \in 1..Len(ledger) : ledger[i].id = id}
<1>1. Len(ledger) \in Nat /\ of \in SUBSET (1..Len(ledger))
  BY DEF LedgerFields
<1>2. Ledger!OfLedger(id) = IF of = {} THEN Ledger!Unknown ELSE ledger[Ledger!Max(of)].evidence
  BY DEF Ledger!OfLedger
<1>. HIDE DEF of
<1>3. of # {} => Ledger!Max(of) \in 1..Len(ledger)
  BY <1>1, GreatestOf DEF Ledger!Max, Calibration!Max
<1>4. \A i \in 1..Len(ledger) : ledger[i] \in LedgerRow
  BY DEF LedgerFields
<1>. QED BY <1>2, <1>3, <1>4 DEF LedgerRow

LEMMA LedgerFieldsAppended ==
    ASSUME LedgerFields, Len(ledger) < MaxEvents, NEW p, p.kind \in Ledger!Kinds,
           NEW known \in Ledger!Indexes, NEW refs \in Ledger!Refs, Ledger!Apply(p, known, refs)
    PROVE  LedgerFields'
<1>. DEFINE resolved == Ledger!Resolve(known, refs)
            best == Ledger!Enforce(p, resolved)
            new == [kind |-> p.kind, id |-> refs[best], evidence |-> resolved[best]]
<1>1. /\ Len(refs) \in Nat /\ Len(resolved) = Len(refs) /\ Len(refs) # 0
      /\ \A i \in 1..Len(refs) : refs[i] \in Ids
  BY DEF Ledger!Refs, Ledger!Resolve
<1>2. best # 0 /\ ledger' = Append(ledger, new)
  BY DEF Ledger!Apply
<1>3. \A i \in 1..Len(resolved) : resolved[i] \in Ledger!Evidence \cup {Ledger!Unknown}
  <2>1. \A x \in DOMAIN known : known[x] \in Ledger!Evidence
    BY LedgerAssumption DEF Ledger!Indexes
  <2>. QED BY <1>1, <2>1, LatestOf DEF Ledger!Resolve
<1>. HIDE DEF resolved
<1>4. best \in 1..Len(resolved) /\ resolved[best] # Ledger!Unknown
  BY <1>1, <1>2, PassedIsCited
<1>5. new \in LedgerRow
  BY <1>1, <1>3, <1>4 DEF LedgerRow
<1>. HIDE DEF new
<1>6. Append(ledger, new) \in Seq(LedgerRow) /\ Len(Append(ledger, new)) = Len(ledger) + 1
  BY <1>5 DEF LedgerFields
<1>7. Len(ledger) \in Nat /\ MaxEvents \in Nat
  BY LedgerAssumption DEF LedgerFields
<1>. QED BY <1>2, <1>6, <1>7 DEF LedgerFields

LEMMA LedgerFieldsKept ==
    ASSUME LedgerFields, [Ledger!Next]_ledger
    PROVE  LedgerFields'
<1>1. ASSUME NEW known \in Ledger!Indexes, NEW refs \in Ledger!Refs, NEW kind \in Ledger!Kinds,
             Len(ledger) < MaxEvents, Ledger!Apply(Ledger!Propose(kind), known, refs)
      PROVE  LedgerFields'
  BY <1>1, LedgerFieldsAppended DEF Ledger!Propose
<1>2. ASSUME NEW known \in Ledger!Indexes, NEW refs \in Ledger!Refs, NEW pair \in Promotions,
             NEW target, Len(ledger) < MaxEvents,
             Ledger!Apply(Ledger!Promote(pair[1], pair[2], target), known, refs)
      PROVE  LedgerFields'
  <2>1. Ledger!Promote(pair[1], pair[2], target).kind \in Ledger!Kinds
    BY LedgerAssumption DEF Ledger!Promote
  <2>. QED BY <1>2, <2>1, LedgerFieldsAppended
<1>3. CASE UNCHANGED ledger
  BY <1>3 DEF LedgerFields
<1>. QED BY <1>1, <1>2, <1>3 DEF Ledger!Next

LEMMA LedgerTypesMean == ASSUME LedgerFields PROVE Ledger!LedgerTypeOK
<1>1. ASSUME NEW i \in 1..Len(ledger)
      PROVE  ledger[i].kind \in Ledger!Kinds /\ ledger[i].id \in Ids /\ ledger[i].evidence \in Ledger!Evidence
  <2>. DEFINE K == Ledger!Kinds
              E == Ledger!Evidence
  <2>1. ledger[i] \in LedgerRow
    BY DEF LedgerFields
  <2>2. LedgerRow = [kind : K, id : Ids, evidence : E]
    BY DEF LedgerRow
  <2>. HIDE DEF K, E
  <2>3. ledger[i].kind \in K /\ ledger[i].id \in Ids /\ ledger[i].evidence \in E
    BY <2>1, <2>2
  <2>. QED BY <2>3 DEF K, E
<1>. QED BY <1>1 DEF LedgerFields, Ledger!LedgerTypeOK

(* ScreenMemory: the task of the worker, and the rest of the state. An     *)
(* answer is lost with a mishap only.                                      *)
WorkerShape ==
    \/ worker = Screen!Idle
    \/ worker \in [at : {"migrating"}, todo : SUBSET Meetings]
    \/ worker \in [at : {"pruning", "bank", "activity"}]
    \/ worker \in [at : {"digesting"}, bucket : Buckets, content : Contents]
    \/ worker \in [at : {"meetings"}, todo : SUBSET (Meetings \X SUBSET ScreenChunks),
                   read : BOOLEAN]
    \/ worker \in [at : {"storing"}, meeting : Meetings, made : SUBSET ScreenChunks,
                   todo : SUBSET (Meetings \X SUBSET ScreenChunks)]

ScribeFields == early \subseteq ended /\ epoch \in BOOLEAN /\ transcripts \subseteq ScreenChunks
MemoryFields ==
    /\ meetingPoints \in [Meetings -> Screen!Memories \cup {None}]
    /\ bucketPoints \in [Buckets -> Contents \cup {None}]
    /\ bank \subseteq Meetings /\ due \subseteq Meetings
    /\ migrated \in BOOLEAN /\ copied \in BOOLEAN
LostByMishap == mishaps \in 0..MaxMishaps /\ \A c \in ScreenChunks : lost[c] <= mishaps
ScreenFields ==
    ScribeFields /\ MemoryFields /\ WorkerShape /\ LostByMishap /\ bucket \in Buckets /\ screen \in Contents

LEMMA WorkerAt ==
    ASSUME WorkerShape
    PROVE  /\ worker.at = "migrating" => worker \in [at : {"migrating"}, todo : SUBSET Meetings]
           /\ worker.at = "digesting" =>
                worker \in [at : {"digesting"}, bucket : Buckets, content : Contents]
           /\ worker.at = "meetings" =>
                worker \in [at : {"meetings"}, todo : SUBSET (Meetings \X SUBSET ScreenChunks),
                            read : BOOLEAN]
           /\ worker.at = "storing" =>
                worker \in [at : {"storing"}, meeting : Meetings, made : SUBSET ScreenChunks,
                            todo : SUBSET (Meetings \X SUBSET ScreenChunks)]
BY DEF WorkerShape, Screen!Idle

(* The worker looks for something and touches no row.                      *)
LEMMA WorkerLooks ==
    ASSUME ScreenFields,
           \/ Screen!ActivitySeen \/ Screen!TranscriptsListed \/ Screen!RoundEnds
           \/ \E m \in Meetings, made \in SUBSET ScreenChunks : Screen!MeetingLooked(m, made)
    PROVE  MemoryFields' /\ WorkerShape'
<1>1. UNCHANGED <<meetingPoints, bucketPoints, bank, due, migrated, copied>>
  BY DEF Screen!ActivitySeen, Screen!TranscriptsListed, Screen!RoundEnds, Screen!MeetingLooked
<1>2. CASE Screen!ActivitySeen
  <2>1. \/ worker' = [at |-> "meetings", todo |-> {}, read |-> FALSE]
        \/ worker' = [at |-> "digesting", bucket |-> bucket, content |-> screen]
    BY <1>2 DEF Screen!ActivitySeen
  <2>2. worker' \in [at : {"meetings"}, todo : SUBSET (Meetings \X SUBSET ScreenChunks),
                     read : BOOLEAN]
           \cup [at : {"digesting"}, bucket : Buckets, content : Contents]
    <3>1. bucket \in Buckets /\ screen \in Contents
      BY DEF ScreenFields
    <3>2. [at |-> "digesting", bucket |-> bucket, content |-> screen]
            \in [at : {"digesting"}, bucket : Buckets, content : Contents]
      BY <3>1
    <3>3. [at |-> "meetings", todo |-> {}, read |-> FALSE]
            \in [at : {"meetings"}, todo : SUBSET (Meetings \X SUBSET ScreenChunks), read : BOOLEAN]
      OBVIOUS
    <3>. QED BY <2>1, <3>2, <3>3
  <2>3. WorkerShape'
    BY <2>2 DEF WorkerShape
  <2>. QED BY <1>1, <2>3 DEF ScreenFields, MemoryFields
<1>3. CASE Screen!TranscriptsListed
  <2>. DEFINE T == {<<m, Screen!ChunksOf(m) \cap transcripts>> :
                      m \in {MeetingOf[c] : c \in transcripts}}
  <2>1. T \in SUBSET (Meetings \X SUBSET ScreenChunks)
    BY ScreenAssumption DEF ScreenFields, ScribeFields
  <2>2. worker' = [at |-> "meetings", read |-> TRUE, todo |-> T]
    BY <1>3 DEF Screen!TranscriptsListed
  <2>. HIDE DEF T
  <2>. QED BY <1>1, <2>1, <2>2 DEF ScreenFields, MemoryFields, WorkerShape
<1>4. CASE Screen!RoundEnds
  BY <1>1, <1>4 DEF Screen!RoundEnds, ScreenFields, MemoryFields, WorkerShape
<1>5. ASSUME NEW m \in Meetings, NEW made \in SUBSET ScreenChunks, Screen!MeetingLooked(m, made)
      PROVE  MemoryFields' /\ WorkerShape'
  <2>1. worker \in [at : {"meetings"}, todo : SUBSET (Meetings \X SUBSET ScreenChunks),
                    read : BOOLEAN]
    BY <1>5, WorkerAt DEF Screen!MeetingLooked, ScreenFields
  <2>2. worker.todo \ {<<m, made>>} \in SUBSET (Meetings \X SUBSET ScreenChunks)
    BY <2>1
  <2>3. \/ worker' = [worker EXCEPT !.todo = worker.todo \ {<<m, made>>}]
        \/ worker' = [at |-> "storing", meeting |-> m, made |-> made,
                      todo |-> worker.todo \ {<<m, made>>}]
    BY <1>5 DEF Screen!MeetingLooked
  <2>4. WorkerShape'
    <3>. DEFINE Todos == SUBSET (Meetings \X SUBSET ScreenChunks)
                left == worker.todo \ {<<m, made>>}
    <3>1. worker \in [at : {"meetings"}, todo : Todos, read : BOOLEAN] /\ left \in Todos
      BY <2>1, <2>2
    <3>. HIDE DEF Todos, left
    <3>2. \/ worker' \in [at : {"meetings"}, todo : Todos, read : BOOLEAN]
          \/ worker' \in [at : {"storing"}, meeting : Meetings, made : SUBSET ScreenChunks, todo : Todos]
      BY <2>3, <3>1 DEF left
    <3>. QED BY <3>2 DEF Todos, WorkerShape
  <2>. QED BY <1>1, <2>4 DEF ScreenFields, MemoryFields
<1>. QED BY <1>2, <1>3, <1>4, <1>5

(* It writes or removes points and rows.                                   *)
LEMMA WorkerWrites ==
    ASSUME ScreenFields,
           \/ Screen!MigrationDone \/ Screen!PointsPruned \/ Screen!BankPruned
           \/ \E m \in Meetings : Screen!RoundBegins(m) \/ Screen!RowMigrated(m)
           \/ \E skipped \in BOOLEAN : Screen!ActivityStored(skipped) \/ Screen!MeetingStored(skipped)
    PROVE  MemoryFields' /\ WorkerShape'
<1>. USE DEF ScreenFields, MemoryFields
<1>1. CASE Screen!MigrationDone \/ Screen!PointsPruned \/ Screen!BankPruned
  <2>1. worker' \in [at : {"pruning", "bank", "activity"}]
    BY <1>1 DEF Screen!MigrationDone, Screen!PointsPruned, Screen!BankPruned
  <2>2. meetingPoints' \in [Meetings -> Screen!Memories \cup {None}]
    BY <1>1 DEF Screen!MigrationDone, Screen!PointsPruned, Screen!BankPruned
  <2>3. /\ bank' \subseteq Meetings /\ due' \subseteq Meetings
        /\ migrated' \in BOOLEAN /\ copied' \in BOOLEAN /\ bucketPoints' = bucketPoints
    BY <1>1 DEF Screen!MigrationDone, Screen!PointsPruned, Screen!BankPruned
  <2>. QED BY <2>1, <2>2, <2>3 DEF WorkerShape
<1>2. ASSUME NEW m \in Meetings, Screen!RoundBegins(m) PROVE MemoryFields' /\ WorkerShape'
  <2>1. UNCHANGED <<meetingPoints, bucketPoints, bank, due, copied>>
    BY <1>2 DEF Screen!RoundBegins
  <2>2. migrated' \in BOOLEAN
    BY <1>2 DEF Screen!RoundBegins
  <2>3. \/ worker' = [at |-> "pruning"] \/ worker' = [at |-> "migrating", todo |-> bank]
    BY <1>2 DEF Screen!RoundBegins
  <2>. QED BY <2>1, <2>2, <2>3 DEF WorkerShape
<1>3. ASSUME NEW m \in Meetings, Screen!RowMigrated(m) PROVE MemoryFields' /\ WorkerShape'
  <2>1. worker \in [at : {"migrating"}, todo : SUBSET Meetings]
    BY <1>3, WorkerAt DEF Screen!RowMigrated
  <2>2. worker' = [worker EXCEPT !.todo = worker.todo \ {m}]
        /\ UNCHANGED <<bucketPoints, bank, due, migrated, copied>>
    BY <1>3 DEF Screen!RowMigrated
  <2>3. worker' \in [at : {"migrating"}, todo : SUBSET Meetings]
    BY <2>1, <2>2
  <2>4. meetingPoints' \in [Meetings -> Screen!Memories \cup {None}]
    <3>. DEFINE copy == [kind |-> "legacy", made |-> {}]
    <3>1. copy \in Screen!Memories
      BY DEF Screen!Memories
    <3>2. meetingPoints' = meetingPoints \/ meetingPoints' = [meetingPoints EXCEPT ![m] = copy]
      BY <1>3 DEF Screen!RowMigrated
    <3>. HIDE DEF copy
    <3>. QED BY <3>1, <3>2
  <2>. QED BY <2>2, <2>3, <2>4 DEF WorkerShape
<1>4. ASSUME NEW skipped \in BOOLEAN, Screen!ActivityStored(skipped)
      PROVE  MemoryFields' /\ WorkerShape'
  <2>1. worker.bucket \in Buckets /\ worker.content \in Contents
    BY <1>4, WorkerAt DEF Screen!ActivityStored
  <2>2. /\ UNCHANGED <<meetingPoints, bank, due, migrated, copied>>
        /\ worker' = [at |-> "meetings", todo |-> {}, read |-> FALSE]
        /\ bucketPoints' \in {bucketPoints, [bucketPoints EXCEPT ![worker.bucket] = worker.content]}
    BY <1>4 DEF Screen!ActivityStored
  <2>3. bucketPoints' \in [Buckets -> Contents \cup {None}]
    BY <2>1, <2>2
  <2>. QED BY <2>2, <2>3 DEF WorkerShape
<1>5. ASSUME NEW skipped \in BOOLEAN, Screen!MeetingStored(skipped)
      PROVE  MemoryFields' /\ WorkerShape'
  <2>1. worker \in [at : {"storing"}, meeting : Meetings, made : SUBSET ScreenChunks,
                    todo : SUBSET (Meetings \X SUBSET ScreenChunks)]
    BY <1>5, WorkerAt DEF Screen!MeetingStored
  <2>. DEFINE digest == [kind |-> "digest", made |-> worker.made]
  <2>2. digest \in Screen!Memories /\ worker.meeting \in Meetings
    BY <2>1 DEF Screen!Memories
  <2>3. meetingPoints' = meetingPoints \/ meetingPoints' = [meetingPoints EXCEPT ![worker.meeting] = digest]
    BY <1>5 DEF Screen!MeetingStored
  <2>4. /\ worker' = [at |-> "meetings", read |-> TRUE, todo |-> worker.todo]
        /\ bank' \subseteq bank \cup {worker.meeting} /\ due' \subseteq due
        /\ UNCHANGED <<bucketPoints, migrated, copied>>
    BY <1>5 DEF Screen!MeetingStored
  <2>. HIDE DEF digest
  <2>5. meetingPoints' \in [Meetings -> Screen!Memories \cup {None}]
    BY <2>2, <2>3
  <2>6. worker' \in [at : {"meetings"}, todo : SUBSET (Meetings \X SUBSET ScreenChunks),
                     read : BOOLEAN]
    BY <2>1, <2>4
  <2>. QED BY <2>2, <2>4, <2>5, <2>6 DEF WorkerShape
<1>. QED BY <1>1, <1>2, <1>3, <1>4, <1>5

LEMMA WorkerKeepsFields ==
    ASSUME ScreenInv, ScreenFields, Screen!WorkerActs \/ Screen!WorkerFails
    PROVE  ScreenFields'
<1>1. UNCHANGED <<ended, epoch, early, transcripts, lost, bucket, screen>>
  BY DEF Screen!WorkerActs, Screen!WorkerFails, Screen!transcribing, Screen!present, Screen!MigrationDone,
     Screen!PointsPruned, Screen!BankPruned, Screen!ActivitySeen, Screen!TranscriptsListed,
     Screen!RoundEnds, Screen!RoundBegins, Screen!RowMigrated, Screen!MeetingLooked,
     Screen!ActivityStored, Screen!MeetingStored
<1>2. MemoryFields' /\ WorkerShape'
  <2>1. CASE Screen!WorkerFails
    BY <2>1 DEF Screen!WorkerFails, ScreenFields, MemoryFields, WorkerShape
  <2>. QED BY <2>1, WorkerLooks, WorkerWrites DEF Screen!WorkerActs
<1>3. mishaps' = mishaps \/ (mishaps < MaxMishaps /\ mishaps' = mishaps + 1)
  BY DEF Screen!WorkerActs, Screen!WorkerFails, Screen!Mishap, Screen!MigrationDone, Screen!PointsPruned,
     Screen!BankPruned, Screen!ActivitySeen, Screen!TranscriptsListed, Screen!RoundEnds,
     Screen!RoundBegins, Screen!RowMigrated, Screen!MeetingLooked, Screen!ActivityStored,
     Screen!MeetingStored
<1>4. LostByMishap'
  <2>1. \A c \in ScreenChunks : lost[c] \in Nat /\ lost[c] <= mishaps
    BY DEF ScreenInv, ScreenTyped, ScreenFields, LostByMishap
  <2>2. mishaps \in Nat /\ MaxMishaps \in Nat
    BY ScreenAssumption DEF ScreenFields, LostByMishap
  <2>. QED BY <1>1, <1>3, <2>1, <2>2 DEF ScreenFields, LostByMishap
<1>. QED BY <1>1, <1>2, <1>4 DEF ScreenFields, ScribeFields

LEMMA ScreenFieldsKept ==
    ASSUME ScreenInv, ScreenFields, [Screen!Next]_ScreenState
    PROVE  ScreenFields'
<1>0. /\ \A c \in ScreenChunks : lost[c] \in Nat /\ lost[c] <= mishaps
      /\ mishaps \in Nat /\ MaxMishaps \in Nat /\ mishaps <= MaxMishaps
  BY ScreenAssumption DEF ScreenInv, ScreenTyped, ScreenFields, LostByMishap
<1>. DEFINE Rest == <<meetingPoints, bucketPoints, bank, due, migrated, copied, worker, bucket, screen>>
<1>1. CASE UNCHANGED <<Rest, lost, mishaps, epoch, ended, early, transcripts>>
  BY <1>1 DEF ScreenFields, ScribeFields, MemoryFields, WorkerShape, LostByMishap
<1>2. CASE Screen!ScribeActs
  <2>1. UNCHANGED <<Rest, lost, mishaps, ended, early>>
    BY <1>2 DEF Screen!ScribeActs, Screen!remembering, Screen!present, Screen!EpochNoted,
       Screen!MeetingsListed, Screen!ChunkSaved, Screen!MeetingCompleted, Screen!MeetingDenied,
       Screen!MeetingOpened, Screen!ChunkPassed, Screen!ChunkHeard
  <2>2. epoch' \in BOOLEAN
    BY <1>2 DEF Screen!ScribeActs, Screen!EpochNoted, ScreenFields, ScribeFields,
       Screen!MeetingsListed, Screen!ChunkSaved, Screen!MeetingCompleted, Screen!MeetingDenied,
       Screen!MeetingOpened, Screen!ChunkPassed, Screen!ChunkHeard
  <2>3. transcripts' \subseteq ScreenChunks
    <3>1. CASE Screen!ChunkSaved
      <4>1. scribe.chunk \in ScreenChunks
        BY <3>1 DEF Screen!ChunkSaved, ScreenInv, ScreenTyped, ScribeShape, Screen!Idle
      <4>. QED BY <3>1, <4>1 DEF Screen!ChunkSaved, ScreenFields, ScribeFields
    <3>2. CASE ~Screen!ChunkSaved
      BY <1>2, <3>2 DEF Screen!ScribeActs, Screen!EpochNoted, ScreenFields, ScribeFields,
         Screen!MeetingsListed, Screen!MeetingCompleted, Screen!MeetingDenied,
         Screen!MeetingOpened, Screen!ChunkPassed, Screen!ChunkHeard
    <3>. QED BY <3>1, <3>2
  <2>. QED BY <2>1, <2>2, <2>3 DEF ScreenFields, ScribeFields, MemoryFields, WorkerShape, LostByMishap
<1>3. CASE Screen!ScribeFails \/ Screen!Restarted
  <2>1. /\ UNCHANGED <<meetingPoints, bucketPoints, bank, due, copied, bucket, screen>>
        /\ UNCHANGED <<epoch, ended, early, transcripts>>
        /\ lost' = Screen!LostNow /\ mishaps < MaxMishaps /\ mishaps' = mishaps + 1
        /\ \/ UNCHANGED <<worker, migrated>>
           \/ worker' = Screen!Idle /\ migrated' = FALSE
    BY <1>3 DEF Screen!ScribeFails, Screen!Restarted, Screen!Mishap, Screen!remembering, Screen!present
  <2>2. \A c \in ScreenChunks : lost'[c] <= lost[c] + 1
    BY <1>0, <2>1 DEF Screen!LostNow
  <2>3. LostByMishap'
    <3>1. \A c \in ScreenChunks : lost'[c] \in Nat
      BY <1>0, <2>1 DEF Screen!LostNow
    <3>. QED BY <1>0, <2>1, <2>2, <3>1 DEF LostByMishap
  <2>4. WorkerShape' /\ MemoryFields'
    BY <2>1 DEF ScreenFields, MemoryFields, WorkerShape
  <2>. QED BY <2>1, <2>3, <2>4 DEF ScreenFields, ScribeFields
<1>4. CASE Screen!WorkerActs \/ Screen!WorkerFails
  BY <1>4, WorkerKeepsFields
<1>5. CASE Screen!BucketPasses
  <2>1. /\ bucket < Screen!Max(Buckets) /\ bucket' = bucket + 1 /\ screen' \in Contents
        /\ UNCHANGED <<meetingPoints, bucketPoints, bank, due, migrated, copied, worker>>
        /\ UNCHANGED <<lost, mishaps, epoch, ended, early, transcripts>>
    BY <1>5 DEF Screen!BucketPasses, Screen!transcribing, Screen!remembering
  <2>2. bucket + 1 \in Buckets
    <3>1. SUFFICES ASSUME \A c \in Buckets : c <= bucket PROVE FALSE
      BY ScreenAssumption DEF ScreenFields
    <3>2. bucket \in Buckets /\ bucket \in Nat /\ \A c \in Buckets : bucket >= c
      BY <3>1, ScreenAssumption DEF ScreenFields
    <3>3. Screen!Max(Buckets) \in Buckets
      BY <3>2 DEF Screen!Max
    <3>4. Screen!Max(Buckets) <= bucket /\ Screen!Max(Buckets) \in Nat
      BY <3>1, <3>3, ScreenAssumption
    <3>5. bucket < Screen!Max(Buckets)
      BY <2>1
    <3>. QED BY <3>2, <3>4, <3>5
  <2>. QED BY <2>1, <2>2 DEF ScreenFields, ScribeFields, MemoryFields, WorkerShape, LostByMishap
<1>6. ASSUME NEW m \in Meetings, Screen!MemoryExpires(m) PROVE ScreenFields'
  <2>1. /\ due' = due \cup {m}
        /\ UNCHANGED <<meetingPoints, bucketPoints, bank, migrated, copied, worker, bucket, screen>>
        /\ UNCHANGED <<lost, mishaps, epoch, ended, early, transcripts>>
    BY <1>6 DEF Screen!MemoryExpires, Screen!transcribing, Screen!present
  <2>. QED BY <2>1 DEF ScreenFields, ScribeFields, MemoryFields, WorkerShape, LostByMishap
<1>7. ASSUME NEW m \in Meetings, Screen!MeetingEnds(m) PROVE ScreenFields'
  <2>1. UNCHANGED <<Rest, lost, mishaps, epoch, transcripts>>
    BY <1>7 DEF Screen!MeetingEnds, Screen!remembering, Screen!present
  <2>2. early' \subseteq ended'
    BY <1>7 DEF Screen!MeetingEnds, ScreenFields, ScribeFields
  <2>. QED BY <2>1, <2>2 DEF ScreenFields, ScribeFields, MemoryFields, WorkerShape, LostByMishap
<1>8. ASSUME NEW c \in ScreenChunks, Screen!TranscriptExpires(c) PROVE ScreenFields'
  <2>1. UNCHANGED <<Rest, lost, mishaps, epoch, ended, early>> /\ transcripts' \subseteq transcripts
    BY <1>8 DEF Screen!TranscriptExpires, Screen!remembering, Screen!present
  <2>. QED BY <2>1 DEF ScreenFields, ScribeFields, MemoryFields, WorkerShape, LostByMishap
<1>9. CASE UNCHANGED ScreenState
  BY <1>1, <1>9 DEF ScreenState
<1>. QED BY <1>2, <1>3, <1>4, <1>5, <1>6, <1>7, <1>8, <1>9 DEF Screen!Next

LEMMA ScreenFieldsBegin == ASSUME Screen!Init PROVE ScreenFields
<1>1. Screen!Min(Buckets) \in Buckets
  BY ScreenAssumption, LeastOf DEF Screen!Min, Calibration!Min
<1>2. ScribeFields
  BY DEF Screen!Init, ScribeFields
<1>3. MemoryFields
  BY DEF Screen!Init, MemoryFields
<1>4. WorkerShape
  BY DEF Screen!Init, WorkerShape
<1>5. LostByMishap
  <2>1. lost = [c \in ScreenChunks |-> 0] /\ mishaps = 0 /\ MaxMishaps \in Nat
    BY ScreenAssumption DEF Screen!Init
  <2>. QED BY <2>1 DEF LostByMishap
<1>6. bucket \in Buckets /\ screen \in Contents
  BY <1>1 DEF Screen!Init
<1>. QED BY <1>2, <1>3, <1>4, <1>5, <1>6 DEF ScreenFields

LEMMA ScreenTypesMean == ASSUME ScreenInv, ScreenFields PROVE Screen!TypeOK
<1>1. scribe.at \in {"idle", "listed", "chunks", "saving"}
  BY DEF ScreenInv, ScreenTyped, ScribeShape, Screen!Idle
<1>2. worker.at \in {"idle", "migrating", "pruning", "bank", "activity", "digesting", "meetings",
                     "storing"}
  BY DEF ScreenFields, WorkerShape, Screen!Idle
<1>3. \A c \in ScreenChunks : lost[c] \in 0..MaxMishaps /\ sent[c] \in 0..MaxMishaps + 1
  <2>1. mishaps \in Nat /\ MaxMishaps \in Nat /\ mishaps <= MaxMishaps
    BY ScreenAssumption DEF ScreenFields, LostByMishap
  <2>. QED BY <2>1 DEF ScreenInv, ScreenTyped, PaidUp, ScreenFields, LostByMishap
<1>4. lost \in [ScreenChunks -> 0..MaxMishaps] /\ sent \in [ScreenChunks -> 0..MaxMishaps + 1]
  BY <1>3 DEF ScreenInv, ScreenTyped
<1>. QED BY <1>1, <1>2, <1>4 DEF ScreenInv, ScreenTyped, ScreenFields, ScribeFields, MemoryFields,
     LostByMishap, Screen!TypeOK

(* ContextShadow: a pack is a sequence of items without repetition.        *)
LEMMA PackIs ==
    \A s : s \in Shadow!Packs <=> /\ s \in Seq(Items) /\ Len(s) <= Limit
                                  /\ \A i, j \in 1..Len(s) : s[i] = s[j] => i = j
<1>. SUFFICES ASSUME NEW s
              PROVE  s \in Shadow!Packs <=> /\ s \in Seq(Items) /\ Len(s) <= Limit
                                            /\ \A i, j \in 1..Len(s) : s[i] = s[j] => i = j
  OBVIOUS
<1>1. s \in UNION {[1..n -> Items] : n \in 0..Limit} <=> s \in Seq(Items) /\ Len(s) <= Limit
  <2>1. ASSUME NEW n \in 0..Limit, s \in [1..n -> Items]
        PROVE  s \in Seq(Items) /\ Len(s) <= Limit
    BY <2>1, ShadowAssumption
  <2>2. ASSUME s \in Seq(Items), Len(s) <= Limit
        PROVE  \E n \in 0..Limit : s \in [1..n -> Items]
    <3>1. Len(s) \in 0..Limit
      BY <2>2, ShadowAssumption
    <3>2. s \in [1..Len(s) -> Items]
      BY <2>2
    <3>. QED BY <3>1, <3>2
  <2>. QED BY <2>1, <2>2
<1>2. s \in Seq(Items) => DOMAIN s = 1..Len(s)
  OBVIOUS
<1>. QED BY <1>1, <1>2 DEF Shadow!Packs, Shadow!IsInjective

LEMMA EmptyPack == <<>> \in Shadow!Packs
<1>. DEFINE s == <<>>
<1>1. s \in Seq(Items) /\ Len(s) = 0 /\ Limit \in Nat
  BY ShadowAssumption
<1>. HIDE DEF s
<1>2. Len(s) <= Limit /\ \A i, j \in 1..Len(s) : s[i] = s[j] => i = j
  BY <1>1
<1>3. s \in Shadow!Packs
  BY <1>1, <1>2, PackIs
<1>. QED BY <1>3 DEF s

LEMMA AdmitIsPack ==
    ASSUME NEW pack \in Shadow!Packs, NEW hit \in Items
    PROVE  Shadow!Admit(pack, hit) \in Shadow!Packs
<1>1. pack \in Seq(Items) /\ Len(pack) \in Nat /\ Limit \in Nat
      /\ \A i, j \in 1..Len(pack) : pack[i] = pack[j] => i = j
  BY PackIs, ShadowAssumption
<1>2. CASE Shadow!Contains(pack, hit) \/ Len(pack) >= Limit
  BY <1>2 DEF Shadow!Admit
<1>3. CASE ~(Shadow!Contains(pack, hit) \/ Len(pack) >= Limit)
  <2>. DEFINE more == Append(pack, hit)
  <2>1. /\ more \in Seq(Items) /\ Len(more) = Len(pack) + 1 /\ more[Len(pack) + 1] = hit
        /\ \A i \in 1..Len(pack) : more[i] = pack[i]
    BY <1>1
  <2>2. Shadow!Admit(pack, hit) = more
    BY <1>3 DEF Shadow!Admit
  <2>3. \A i \in 1..Len(pack) : pack[i] # hit
    BY <1>3 DEF Shadow!Contains
  <2>. HIDE DEF more
  <2>4. Len(more) <= Limit
    BY <1>1, <1>3, <2>1
  <2>5. ASSUME NEW i \in 1..Len(more), NEW j \in 1..Len(more), more[i] = more[j] PROVE i = j
    <3>1. (i \in 1..Len(pack) \/ i = Len(pack) + 1) /\ (j \in 1..Len(pack) \/ j = Len(pack) + 1)
      BY <1>1, <2>1
    <3>. QED BY <1>1, <2>1, <2>3, <2>5, <3>1
  <2>. QED BY <2>1, <2>2, <2>4, <2>5, PackIs
<1>. QED BY <1>2, <1>3

(* A function that begins with the pack there is and takes one hit after   *)
(* the other exists, by the least number of hits for which there is none.  *)
LEMMA AdmittedIsPack ==
    ASSUME NEW got \in Shadow!Packs, NEW hits \in Seq(Items)
    PROVE  Shadow!Admitted(got, hits) \in Shadow!Packs
<1>. DEFINE Follows(f, n) == \A k \in 1..n : f[k] = Shadow!Admit(f[k - 1], hits[k])
            Taken(n) == {f \in [0..n -> Shadow!Packs] : f[0] = got /\ Follows(f, n)}
            Untaken == {n \in 0..Len(hits) : Taken(n) = {}}
            Less == {pair \in Nat \X Nat : pair[1] < pair[2]}
<1>0. Len(hits) \in Nat /\ \A k \in 1..Len(hits) : hits[k] \in Items
  OBVIOUS
<1>1. Taken(0) # {}
  <2>. DEFINE f == [k \in 0..0 |-> got]
  <2>1. f \in [0..0 -> Shadow!Packs] /\ f[0] = got /\ Follows(f, 0)
    OBVIOUS
  <2>. QED BY <2>1
<1>2. ASSUME NEW n \in 1..Len(hits), NEW f \in Taken(n - 1) PROVE Taken(n) # {}
  <2>. DEFINE g == [k \in 0..n |-> IF k = n THEN Shadow!Admit(f[n - 1], hits[n]) ELSE f[k]]
  <2>1. /\ f \in [0..(n - 1) -> Shadow!Packs] /\ f[0] = got
        /\ \A k \in 1..(n - 1) : f[k] = Shadow!Admit(f[k - 1], hits[k])
    OBVIOUS
  <2>2. f[n - 1] \in Shadow!Packs /\ hits[n] \in Items
    BY <1>0, <2>1
  <2>3. Shadow!Admit(f[n - 1], hits[n]) \in Shadow!Packs
    BY <2>2, AdmitIsPack
  <2>4. g \in [0..n -> Shadow!Packs] /\ g[0] = got
    BY <1>0, <2>1, <2>3
  <2>5. Follows(g, n)
    <3>. SUFFICES ASSUME NEW k \in 1..n PROVE g[k] = Shadow!Admit(g[k - 1], hits[k])
      OBVIOUS
    <3>1. k - 1 \in 0..n /\ k - 1 # n /\ k \in 0..n
      BY <1>0
    <3>2. g[k - 1] = f[k - 1]
      BY <3>1
    <3>3. CASE k = n
      BY <3>1, <3>2, <3>3
    <3>4. CASE k # n
      <4>1. k \in 1..(n - 1) /\ g[k] = f[k]
        BY <1>0, <3>1, <3>4
      <4>. QED BY <2>1, <3>2, <4>1
    <3>. QED BY <3>3, <3>4
  <2>. QED BY <2>4, <2>5
<1>3. Taken(Len(hits)) # {}
  <2>. SUFFICES ASSUME Untaken # {} PROVE FALSE
    BY <1>0
  <2>1. IsWellFoundedOn(Less, Nat)
    BY NatLessThanWellFounded DEF OpToRel
  <2>2. Untaken \in SUBSET Nat
    BY <1>0
  <2>. HIDE DEF Less, Untaken
  <2>3. PICK n \in Untaken : \A m \in Untaken : ~(<<m, n>> \in Less)
    BY <2>1, <2>2, WFMin
  <2>4. n \in 0..Len(hits) /\ Taken(n) = {}
    BY <2>3 DEF Untaken
  <2>5. n \in 1..Len(hits) /\ n - 1 \in 0..Len(hits) /\ <<n - 1, n>> \in Less
    <3>1. n # 0
      BY <1>1, <2>4
    <3>. QED BY <1>0, <2>4, <3>1 DEF Less
  <2>6. n - 1 \notin Untaken
    BY <2>3, <2>5
  <2>7. Taken(n - 1) # {}
    BY <2>5, <2>6 DEF Untaken
  <2>. QED BY <1>2, <2>4, <2>5, <2>7
<1>4. PICK f \in Taken(Len(hits)) : TRUE
  BY <1>3
<1>. DEFINE N == 0..Len(hits)
            body(p) == [k \in N |-> IF k = 0 THEN got ELSE Shadow!Admit(p[k - 1], hits[k])]
            pack == CHOOSE p : p = body(p)
<1>5. f = body(f)
  <2>1. f \in [N -> Shadow!Packs] /\ f[0] = got
        /\ \A k \in 1..Len(hits) : f[k] = Shadow!Admit(f[k - 1], hits[k])
    BY <1>4
  <2>2. \A k \in N : k = 0 \/ k \in 1..Len(hits)
    BY <1>0
  <2>. QED BY <2>1, <2>2
<1>6. pack = body(pack)
  BY <1>5
<1>7. Shadow!Admitted(got, hits) = pack[Len(hits)]
  BY DEF Shadow!Admitted
<1>. HIDE DEF pack, Taken
<1>8. \A k \in N : pack[k] = IF k = 0 THEN got ELSE Shadow!Admit(pack[k - 1], hits[k])
  BY <1>6
<1>. DEFINE Astray == {k \in N : pack[k] \notin Shadow!Packs}
<1>9. Astray = {}
  <2>. SUFFICES ASSUME Astray # {} PROVE FALSE
    OBVIOUS
  <2>1. IsWellFoundedOn(Less, Nat)
    BY NatLessThanWellFounded DEF OpToRel
  <2>2. Astray \in SUBSET Nat
    BY <1>0
  <2>. HIDE DEF Less, Astray
  <2>3. PICK n \in Astray : \A m \in Astray : ~(<<m, n>> \in Less)
    BY <2>1, <2>2, WFMin
  <2>4. n \in N /\ pack[n] \notin Shadow!Packs
    BY <2>3 DEF Astray
  <2>5. n # 0
    BY <1>8, <2>4
  <2>6. n \in 1..Len(hits) /\ n - 1 \in N /\ <<n - 1, n>> \in Less
    BY <1>0, <2>4, <2>5 DEF Less
  <2>7. pack[n - 1] \in Shadow!Packs
    BY <2>3, <2>6 DEF Astray
  <2>. QED BY <1>0, <1>8, <2>4, <2>5, <2>6, <2>7, AdmitIsPack
<1>10. Len(hits) \in N
  BY <1>0
<1>. QED BY <1>7, <1>9, <1>10

(* The tracks, the shadow task and what was written.                       *)
Track == [at : {"off", "runs", "ended", "raised"}, wave : Nat, got : Shadow!Packs]
ShadowPlaces == {"none", "scheduled", "stating", "searching", "done", "failed", "cut"}
TracksShape == tracks \in [Requests -> [Shadow!TrackNames -> Track]]
WrittenShape ==
    /\ query \in [Requests -> {"plain", "bounded", "statement"}] /\ cascadeOn \in BOOLEAN
    /\ shadow \in [Requests -> ShadowPlaces] /\ traces \in [Requests -> Shadow!Verdicts]
    /\ statements \subseteq Requests
ShadowFields ==
    /\ TracksShape /\ WrittenShape /\ inflight <= MaxInflight
    /\ stops \in 0..MaxStops /\ broken \in 0..MaxFailures

LEMMA ShadowBounds == MaxInflight \in Nat /\ MaxStops \in Nat /\ MaxFailures \in Nat
BY ShadowAssumption, TimelineAssumption

LEMMA TrackTurns ==
    ASSUME TracksShape, NEW r \in Requests, NEW n \in Shadow!TrackNames, NEW new \in Track,
           Shadow!TurnsTo(r, n, new)
    PROVE  TracksShape'
BY DEF Shadow!TurnsTo, TracksShape

(* Both tracks of a run begin, or are put away.                            *)
LEMMA TracksSet ==
    ASSUME TracksShape, NEW r \in Requests, NEW new \in Track,
           tracks' = [tracks EXCEPT ![r] = [n \in Shadow!TrackNames |-> new]]
    PROVE  TracksShape'
BY DEF TracksShape

LEMMA OffIsTrack ==
    /\ Shadow!Off \in Track /\ [Shadow!Off EXCEPT !.at = "raised"] \in Track
    /\ [Shadow!Off EXCEPT !.at = "runs", !.wave = 1] \in Track
<1>. DEFINE P == Shadow!Packs
<1>1. <<>> \in P
  BY EmptyPack
<1>. HIDE DEF P
<1>2. Track = [at : {"off", "runs", "ended", "raised"}, wave : Nat, got : P]
  BY DEF P, Track
<1>. QED BY <1>1, <1>2 DEF Shadow!Off

LEMMA TracksKeep ==
    ASSUME ShadowFields, Shadow!Tracks
    PROVE  TracksShape'
<1>1. ASSUME NEW r \in Requests, NEW n \in Shadow!TrackNames
      PROVE  /\ tracks[r][n] \in Track /\ tracks[r][n].got \in Shadow!Packs
             /\ tracks[r][n].wave \in Nat
  BY DEF ShadowFields, TracksShape, Track
<1>2. ASSUME NEW place \in {"off", "runs", "ended", "raised"}, NEW wave \in Nat, NEW got \in Shadow!Packs
      PROVE  [at |-> place, wave |-> wave, got |-> got] \in Track
  BY DEF Track
<1>3. ASSUME NEW r \in Requests, NEW n \in Shadow!TrackNames, NEW hits \in Shadow!Packs,
             Shadow!WaveAnswers(r, n, hits)
      PROVE  TracksShape'
  <2>. DEFINE pack == Shadow!Admitted(tracks[r][n].got, hits)
              wave == tracks[r][n].wave
              over == [at |-> "ended", wave |-> 0, got |-> pack]
              more == [at |-> "runs", wave |-> wave + 1, got |-> pack]
  <2>1. Shadow!TurnsTo(r, n, IF Shadow!SearchIsOver(n, wave, pack) THEN over ELSE more)
    BY <1>3 DEF Shadow!WaveAnswers
  <2>2. hits \in Seq(Items) /\ pack \in Shadow!Packs
    BY <1>1, PackIs, AdmittedIsPack
  <2>3. wave + 1 \in Nat
    BY <1>1
  <2>. HIDE DEF pack, wave
  <2>4. over \in Track /\ more \in Track
    BY <1>2, <2>2, <2>3
  <2>. HIDE DEF over, more
  <2>. QED BY <2>1, <2>4, TrackTurns DEF ShadowFields
<1>4. ASSUME NEW r \in Requests, NEW n \in Shadow!TrackNames, NEW got \in Shadow!Packs,
             Shadow!WaveUnanswered(r, n, got)
      PROVE  TracksShape'
  <2>1. [at |-> "ended", wave |-> 0, got |-> got] \in Track
    BY <1>2
  <2>. QED BY <1>4, <2>1, TrackTurns DEF Shadow!WaveUnanswered, ShadowFields
<1>5. ASSUME NEW r \in Requests, NEW n \in Shadow!TrackNames, Shadow!TrackRaises(r, n)
      PROVE  TracksShape'
  BY <1>5, OffIsTrack, TrackTurns DEF Shadow!TrackRaises, ShadowFields
<1>. QED BY <1>3, <1>4, <1>5 DEF Shadow!Tracks

LEMMA RunsKeep ==
    ASSUME SlotsInv, ShadowFields, Shadow!Runs
    PROVE  ShadowFields'
<1>0. inflight \in Nat /\ TracksShape /\ WrittenShape /\ inflight <= MaxInflight
      /\ stops \in 0..MaxStops /\ broken \in 0..MaxFailures
  BY DEF SlotsInv, ShadowFields
<1>1. ASSUME NEW r \in Requests, Shadow!DualEnters(r) PROVE ShadowFields'
  <2>1. UNCHANGED <<query, cascadeOn, shadow, traces, statements, stops, broken>>
    BY <1>1 DEF Shadow!DualEnters, Shadow!setting, Shadow!rows, Shadow!bounds
  <2>2. \/ UNCHANGED <<tracks, inflight>>
        \/ /\ ~(inflight >= MaxInflight) /\ inflight' = inflight + 1
           /\ tracks' = [tracks EXCEPT ![r] =
                           [n \in Shadow!TrackNames |-> [Shadow!Off EXCEPT !.at = "runs", !.wave = 1]]]
    BY <1>1 DEF Shadow!DualEnters
  <2>3. TracksShape'
    BY <1>0, <2>2, OffIsTrack, TracksSet DEF TracksShape
  <2>4. inflight' <= MaxInflight
    BY <1>0, <2>2, ShadowBounds
  <2>. QED BY <1>0, <2>1, <2>3, <2>4 DEF ShadowFields, WrittenShape
<1>2. ASSUME NEW r \in Requests, Shadow!DualWaited(r) \/ Shadow!DualTimesOut(r) PROVE ShadowFields'
  <2>1. /\ UNCHANGED <<query, cascadeOn, shadow, traces, statements, stops, broken, inflight>>
        /\ tracks' = [tracks EXCEPT ![r] = [n \in Shadow!TrackNames |-> Shadow!Off]]
    BY <1>2 DEF Shadow!DualWaited, Shadow!DualTimesOut, Shadow!Decides,
       Shadow!setting, Shadow!rows, Shadow!bounds
  <2>2. TracksShape'
    BY <1>0, <2>1, OffIsTrack, TracksSet
  <2>. QED BY <1>0, <2>1, <2>2 DEF ShadowFields, WrittenShape
<1>3. ASSUME NEW r \in Requests, Shadow!DualCloses(r) \/ Shadow!DualLeaves(r) PROVE ShadowFields'
  <2>1. /\ UNCHANGED <<query, cascadeOn, shadow, traces, statements, stops, broken, tracks>>
        /\ inflight' \in {inflight, inflight - 1}
    BY <1>3 DEF Shadow!DualCloses, Shadow!DualLeaves, Shadow!setting, Shadow!rows, Shadow!bounds
  <2>2. inflight' <= MaxInflight
    BY <1>0, <2>1, ShadowBounds
  <2>. QED BY <1>0, <2>1, <2>2 DEF ShadowFields, WrittenShape, TracksShape
<1>4. ASSUME NEW r \in Requests, Shadow!SavesTrace(r) PROVE ShadowFields'
  <2>1. /\ UNCHANGED <<query, cascadeOn, shadow, statements, stops, broken, tracks, inflight>>
        /\ traces' = [traces EXCEPT ![r] = run[r].verdict]
    BY <1>4 DEF Shadow!SavesTrace, Shadow!setting, Shadow!bounds
  <2>2. run[r].verdict \in Shadow!Verdicts
    BY DEF SlotsInv, RunShape
  <2>3. traces' \in [Requests -> Shadow!Verdicts]
    BY <1>0, <2>1, <2>2 DEF WrittenShape
  <2>. QED BY <1>0, <2>1, <2>3 DEF ShadowFields, WrittenShape, TracksShape
<1>5. ASSUME NEW r \in Requests, Shadow!SavesStatement(r) \/ Shadow!RunFails(r) PROVE ShadowFields'
  <2>1. /\ UNCHANGED <<query, cascadeOn, shadow, traces, stops, tracks, inflight>>
        /\ statements' \in {statements, statements \cup {r}}
        /\ broken' = broken \/ (broken < MaxFailures /\ broken' = broken + 1)
    BY <1>5 DEF Shadow!SavesStatement, Shadow!RunFails, Shadow!setting, Shadow!rows, Shadow!bounds
  <2>2. broken' \in 0..MaxFailures
    BY <1>0, <2>1, ShadowBounds
  <2>3. statements' \subseteq Requests
    BY <1>0, <2>1 DEF WrittenShape
  <2>. QED BY <1>0, <2>1, <2>2, <2>3 DEF ShadowFields, WrittenShape, TracksShape
<1>. QED BY <1>1, <1>2, <1>3, <1>4, <1>5 DEF Shadow!Runs

LEMMA ShadowFieldsKept ==
    ASSUME SlotsInv, ShadowFields, [Shadow!Next]_ShadowState
    PROVE  ShadowFields'
<1>0. TracksShape /\ WrittenShape /\ inflight <= MaxInflight
      /\ stops \in 0..MaxStops /\ broken \in 0..MaxFailures
  BY DEF ShadowFields
<1>1. CASE Shadow!Handling
  <2>1. UNCHANGED <<query, cascadeOn, traces, statements, stops, broken, tracks, inflight>>
    BY <1>1 DEF Shadow!Handling, Shadow!ScheduleContextCascadeShadow, Shadow!ScheduleContextDualTrack,
       Shadow!setting, Shadow!rows, Shadow!bounds
  <2>2. shadow' = shadow \/ \E r \in Requests : shadow' = [shadow EXCEPT ![r] = "scheduled"]
    BY <1>1 DEF Shadow!Handling, Shadow!ScheduleContextCascadeShadow, Shadow!ScheduleContextDualTrack
  <2>3. shadow' \in [Requests -> ShadowPlaces]
    BY <1>0, <2>2 DEF WrittenShape, ShadowPlaces
  <2>. QED BY <1>0, <2>1, <2>3 DEF ShadowFields, WrittenShape, TracksShape
<1>2. CASE Shadow!Shadows
  <2>1. UNCHANGED <<query, cascadeOn, traces, stops, tracks, inflight>>
    BY <1>2 DEF Shadow!Shadows, Shadow!ShadowBegins, Shadow!ShadowSaves, Shadow!ShadowFails, Shadow!ShadowEnds,
       Shadow!setting, Shadow!rows, Shadow!bounds
  <2>2. /\ \E r \in Requests, place \in ShadowPlaces : shadow' = [shadow EXCEPT ![r] = place]
        /\ statements' = statements \/ \E r \in Requests : statements' = statements \cup {r}
        /\ broken' = broken \/ (broken < MaxFailures /\ broken' = broken + 1)
    BY <1>2 DEF Shadow!Shadows, Shadow!ShadowBegins, Shadow!ShadowSaves, Shadow!ShadowFails, Shadow!ShadowEnds,
       ShadowPlaces, Shadow!setting, Shadow!rows, Shadow!bounds
  <2>3. shadow' \in [Requests -> ShadowPlaces] /\ statements' \subseteq Requests
    BY <1>0, <2>2 DEF WrittenShape
  <2>4. broken' \in 0..MaxFailures
    BY <1>0, <2>2, ShadowBounds
  <2>. QED BY <1>0, <2>1, <2>3, <2>4 DEF ShadowFields, WrittenShape, TracksShape
<1>3. CASE Shadow!Tracks
  <2>1. UNCHANGED <<query, cascadeOn, shadow, traces, statements, stops, broken, inflight>>
    BY <1>3 DEF Shadow!Tracks, Shadow!WaveAnswers, Shadow!WaveUnanswered, Shadow!TrackRaises, Shadow!TurnsTo,
       Shadow!setting, Shadow!rows, Shadow!bounds
  <2>. QED BY <1>0, <1>3, <2>1, TracksKeep DEF ShadowFields, WrittenShape
<1>4. CASE Shadow!Runs
  BY <1>4, RunsKeep
<1>5. ASSUME NEW written, Shadow!Stop(written) PROVE ShadowFields'
  <2>1. /\ UNCHANGED <<query, cascadeOn, traces, broken, inflight>>
        /\ stops < MaxStops /\ stops' = stops + 1
        /\ written \subseteq Requests /\ statements' = statements \cup written
        /\ tracks' = [r \in Requests |-> [n \in Shadow!TrackNames |-> Shadow!Off]]
    BY <1>5 DEF Shadow!Stop, Shadow!setting
  <2>2. shadow' = [r \in Requests |->
                     IF shadow[r] \in {"scheduled", "stating", "searching"} THEN "cut" ELSE shadow[r]]
    BY <1>5 DEF Shadow!Stop
  <2>3. shadow' \in [Requests -> ShadowPlaces]
    BY <1>0, <2>2 DEF WrittenShape, ShadowPlaces
  <2>4. TracksShape'
    BY <2>1, OffIsTrack DEF TracksShape
  <2>5. stops' \in 0..MaxStops /\ statements' \subseteq Requests
    BY <1>0, <2>1, ShadowBounds DEF WrittenShape
  <2>. QED BY <1>0, <2>1, <2>3, <2>4, <2>5 DEF ShadowFields, WrittenShape
<1>6. CASE UNCHANGED ShadowState
  BY <1>0, <1>6 DEF ShadowState, ShadowFields, WrittenShape, TracksShape
<1>. QED BY <1>1, <1>2, <1>3, <1>4, <1>5, <1>6 DEF Shadow!Next, Shadow!Stopping

LEMMA ShadowFieldsBegin == ASSUME Shadow!Init PROVE ShadowFields
<1>1. Shadow!Queries \subseteq {"plain", "bounded", "statement"}
  BY DEF Shadow!Queries, Shadow!BuildTemporalShadowContext, Shadow!Whens
<1>2. /\ query \in [Requests -> Shadow!Queries] /\ cascadeOn \in BOOLEAN
      /\ shadow = [r \in Requests |-> "none"] /\ traces = [r \in Requests |-> "none"]
      /\ statements = {} /\ inflight = 0 /\ stops = 0 /\ broken = 0
      /\ tracks = [r \in Requests |-> [n \in Shadow!TrackNames |-> Shadow!Off]]
  BY DEF Shadow!Init
<1>3. TracksShape
  BY <1>2, OffIsTrack DEF TracksShape
<1>4. WrittenShape
  BY <1>1, <1>2 DEF WrittenShape, ShadowPlaces, Shadow!Verdicts
<1>. QED BY <1>2, <1>3, <1>4, ShadowBounds DEF ShadowFields

LEMMA ShadowTypesMean == ASSUME SlotsInv, ShadowFields PROVE Shadow!ShadowTypeOK
<1>1. ASSUME NEW r \in Requests
      PROVE  /\ run[r].at \in {"none", "scheduled", "inside", "cutting", "closing", "tracing",
                               "stating", "done", "failed", "cut"}
             /\ run[r].verdict \in Shadow!Verdicts /\ run[r].cut \in BOOLEAN
  <2>1. run[r] \in RunShape
    BY DEF SlotsInv
  <2>. QED BY <2>1 DEF RunShape
<1>2. ASSUME NEW r \in Requests, NEW n \in Shadow!TrackNames
      PROVE  tracks[r][n].at \in {"off", "runs", "ended", "raised"} /\ tracks[r][n].got \in Shadow!Packs
  <2>1. tracks[r][n] \in Track
    BY DEF ShadowFields, TracksShape
  <2>. QED BY <2>1 DEF Track
<1>3. inflight \in 0..MaxInflight
  BY ShadowBounds DEF SlotsInv, ShadowFields
<1>. QED BY <1>1, <1>2, <1>3 DEF SlotsInv, ShadowFields, WrittenShape, ShadowPlaces, Shadow!ShadowTypeOK

-----------------------------------------------------------------------------
(***************************************************************************)
(* The composition. A component that is out of focus stands still, and the *)
(* one in focus makes a step of its own: every step of the whole is a step *)
(* of each component, or leaves it where it is.                            *)
(***************************************************************************)
LEMMA StoresStart ==
  ASSUME StoresInit
  PROVE  /\ Timeline!Init /\ Manual!Init /\ Screen!Init /\ Shadow!Init /\ Ledger!Init
         /\ Schema!Init /\ Calibration!Init
  BY DEF StoresInit

LEMMA StoresMove ==
  ASSUME [StoresNext]_storeVars
  PROVE  /\ [Timeline!Next]_TimelineState /\ [Manual!Next]_ManualState /\ [Screen!Next]_ScreenState
         /\ [Shadow!Next]_ShadowState /\ [Ledger!Next]_ledger /\ [Schema!Next]_SchemaState
         /\ [Calibration!Next]_CalibrationState
<1>. USE DEF TimelineState, ScreenState, ManualState, RolloutState, KnowledgeState,
             CalibrationState, ShadowState, EntitiesState, SchemaState
<1>1. CASE RecorderStep
  BY <1>1 DEF RecorderStep
<1>2. CASE TimelineStep(Timeline!Next /\ InBounds)
  BY <1>2 DEF TimelineStep
<1>3. CASE ScreenStep(Screen!Next)
  BY <1>3 DEF ScreenStep
<1>4. CASE ManualStep
  BY <1>4 DEF ManualStep
<1>5. CASE RolloutStep
  BY <1>5 DEF RolloutStep
<1>6. CASE KnowledgeStep
  BY <1>6 DEF KnowledgeStep
<1>7. CASE UNCHANGED storeVars
  BY <1>7 DEF storeVars
<1>. QED BY <1>1, <1>2, <1>3, <1>4, <1>5, <1>6, <1>7 DEF StoresNext

(* What a search may find follows the rows, whichever of the ingestors, the *)
(* indexer and the clean-ups wrote last, but for rows that were written     *)
(* while a clean-up held its list; and a point of a written memory does not *)
(* outlive its row, whatever fails or is cut, unless it was deleted while   *)
(* it was being indexed or without the vector store.                        *)
THEOREM SearchFollows == StoresSpec => []SearchFollowsRows
<1>. DEFINE Inv == TimelineInv /\ MemoryInv
<1>1. StoresInit => Inv
  BY StoresStart, TimelineInit, MemoryInit
<1>2. Inv /\ [StoresNext]_storeVars => Inv'
  BY StoresMove, TimelineNext, MemoryNext
<1>3. Inv => SearchFollowsRows
  BY SearchMatches DEF MemoryInv, SearchFollowsRows, Moved
<1>. HIDE DEF Inv
<1>. QED BY <1>1, <1>2, <1>3, PTL DEF StoresSpec

(* No retrieval answers with an episode that was removed or tombstoned     *)
(* before it began and not written again, although its point may be found. *)
THEOREM WithdrawnStaysUnserved == StoresSpec => []WithdrawnIsNotServed
<1>1. StoresInit => TimelineInv
  BY StoresStart, TimelineInit
<1>2. TimelineInv /\ [StoresNext]_storeVars => TimelineInv'
  BY StoresMove, TimelineNext
<1>3. TimelineInv => WithdrawnIsNotServed
  BY DEF TimelineInv, ServedWasCurrent, WithdrawnIsNotServed, Timeline!WithdrawnIsNotServed, Moved
<1>. QED BY <1>1, <1>2, <1>3, PTL DEF StoresSpec

(* Audio is sent to the paid service once, however many rounds fail or are *)
(* cut: only an answer cut before it was stored is asked for again.        *)
THEOREM AudioIsPaidOnce == StoresSpec => []PaidOnce
<1>1. StoresInit => ScreenInv
  BY StoresStart, ScreenInit
<1>2. ScreenInv /\ [StoresNext]_storeVars => ScreenInv'
  BY StoresMove, ScreenNext
<1>3. ScreenInv => PaidOnce
  BY DEF ScreenInv, PaidUp, PaidOnce, Screen!PaidOnce, Moved
<1>. QED BY <1>1, <1>2, <1>3, PTL DEF StoresSpec

(* A slot of the dual track is taken by a run inside it, or was lost with  *)
(* one that a STOP found in its finally (dual_track.py:332-337).           *)
THEOREM SlotsAreAccountedFor == StoresSpec => []SlotsComeBack
<1>1. StoresInit => SlotsInv
  BY StoresStart, SlotsInit
<1>2. SlotsInv /\ [StoresNext]_storeVars => SlotsInv'
  BY StoresMove, SlotsNext
<1>3. SlotsInv => SlotsComeBack
  BY DEF SlotsInv, SlotsComeBack, Moved
<1>. QED BY <1>1, <1>2, <1>3, PTL DEF StoresSpec

(* No commitment of the ledger rests on words of a model or of an untrusted *)
(* source, no fact and no decision on less than observation.                *)
THEOREM LedgerIsBacked == StoresSpec => []LedgerStandsOnEvidence
<1>1. StoresInit => LedgerInv
  BY StoresStart, LedgerInit
<1>2. LedgerInv /\ [StoresNext]_storeVars => LedgerInv'
  BY StoresMove, LedgerNext
<1>3. LedgerInv => LedgerStandsOnEvidence
  BY DEF LedgerInv, LedgerStandsOnEvidence, Moved
<1>. QED BY <1>1, <1>2, <1>3, PTL DEF StoresSpec

(* No crash of a start loses a row of the old shadow table, and a start    *)
(* that comes up has the whole schema, whatever an earlier release or a    *)
(* start that died left (memory.py:586-768).                               *)
THEOREM UpgradesStaySound == StoresSpec => []UpgradesAreSound
<1>1. StoresInit => SchemaInv
  BY StoresStart, SchemaStart
<1>2. SchemaInv /\ [StoresNext]_storeVars => SchemaInv'
  BY StoresMove, SchemaMoves
<1>3. SchemaInv => UpgradesAreSound
  BY SchemaIsSound DEF UpgradesAreSound, Moved
<1>. QED BY <1>1, <1>2, <1>3, PTL DEF StoresSpec

(* A probability of the routing is told only on the word of rows that were *)
(* held out: a fit of this runtime, judged on rows later than all it was   *)
(* trained on, and tied to them by no chain of words or sessions           *)
(* (routing_calibration.py:561-655).                                       *)
THEOREM ProbabilitiesAreHeldOut == StoresSpec => []ProbabilityIsHeldOut
<1>1. StoresInit => CalibrationInv
  BY StoresStart, CalibrationInit
<1>2. CalibrationInv /\ [StoresNext]_storeVars => CalibrationInv'
  BY StoresMove, CalibrationNext
<1>3. CalibrationInv => ProbabilityIsHeldOut
  BY CalibrationHolds DEF ProbabilityIsHeldOut, Moved
<1>. QED BY <1>1, <1>2, <1>3, PTL DEF StoresSpec

LEMMA OthersStart ==
  ASSUME StoresInit
  PROVE  Init /\ RolloutStart /\ RegistryInit
BY DEF StoresInit

LEMMA OthersMove ==
  ASSUME [StoresNext]_storeVars
  PROVE  [Next]_vars /\ [RolloutNext]_rolloutVars /\ [RegistryNext]_registryVars
<1>. USE DEF RolloutState, EntitiesState, rolloutVars, registryVars
<1>1. CASE RecorderStep
  BY <1>1 DEF RecorderStep, KnowledgeState
<1>2. CASE TimelineStep(Timeline!Next /\ InBounds)
  BY <1>2 DEF TimelineStep, KnowledgeState
<1>3. CASE ScreenStep(Screen!Next)
  BY <1>3 DEF ScreenStep, KnowledgeState
<1>4. CASE ManualStep
  BY <1>4 DEF ManualStep, KnowledgeState
<1>5. CASE RolloutStep
  BY <1>5 DEF RolloutStep, KnowledgeState
<1>6. CASE KnowledgeStep
  BY <1>6 DEF KnowledgeStep
<1>7. CASE UNCHANGED storeVars
  BY <1>7 DEF storeVars, KnowledgeState
<1>. QED BY <1>1, <1>2, <1>3, <1>4, <1>5, <1>6, <1>7 DEF StoresNext

ProvedInv ==
    /\ RecorderInv /\ RolloutTypeOK /\ EntitiesInv
    /\ TimelineInv /\ MemoryInv /\ ScreenInv /\ SlotsInv /\ SchemaInv /\ CalibrationInv
FieldsInv == ScreenFields /\ CalibrationFields /\ ShadowFields /\ LedgerFields

LEMMA StoresTypesStep ==
  ASSUME RolloutBounds, Rows, ProvedInv, FieldsInv, [StoresNext]_storeVars
  PROVE  ProvedInv' /\ FieldsInv'
<1>1. /\ [Timeline!Next]_TimelineState /\ [Manual!Next]_ManualState /\ [Screen!Next]_ScreenState
      /\ [Shadow!Next]_ShadowState /\ [Ledger!Next]_ledger /\ [Schema!Next]_SchemaState
      /\ [Calibration!Next]_CalibrationState
      /\ [Next]_vars /\ [RolloutNext]_rolloutVars /\ [RegistryNext]_registryVars
  BY StoresMove, OthersMove
<1>2. RecorderInv' /\ RolloutTypeOK' /\ EntitiesInv'
  BY <1>1, RecorderNext, RolloutTypes, EntitiesStep DEF ProvedInv
<1>3. TimelineInv' /\ MemoryInv' /\ ScreenInv' /\ SlotsInv' /\ SchemaInv' /\ CalibrationInv'
  BY <1>1, TimelineNext, MemoryNext, ScreenNext, SlotsNext, SchemaMoves, CalibrationNext DEF ProvedInv
<1>4. ScreenFields' /\ CalibrationFields' /\ ShadowFields' /\ LedgerFields'
  BY <1>1, ScreenFieldsKept, CalibrationFieldsKept, ShadowFieldsKept, LedgerFieldsKept
     DEF ProvedInv, FieldsInv
<1>. QED BY <1>2, <1>3, <1>4 DEF ProvedInv, FieldsInv

LEMMA LedgerFieldsBegin == ASSUME Ledger!Init PROVE LedgerFields
<1>1. <<>> \in Seq(LedgerRow) /\ Len(<<>>) = 0 /\ MaxEvents \in Nat
  BY LedgerAssumption
<1>. QED BY <1>1 DEF Ledger!Init, LedgerFields

LEMMA StoresTypesBegin ==
  ASSUME RolloutBounds, StoresInit
  PROVE  ProvedInv /\ FieldsInv
<1>1. ProvedInv
  BY StoresStart, OthersStart, RecorderInit, RolloutInit, EntitiesInit, TimelineInit, MemoryInit,
     ScreenInit, SlotsInit, SchemaStart, CalibrationInit DEF ProvedInv, RolloutInv
<1>2. FieldsInv
  BY StoresStart, ScreenFieldsBegin, CalibrationFieldsBegin, ShadowFieldsBegin, LedgerFieldsBegin
     DEF FieldsInv
<1>. QED BY <1>1, <1>2

(* Every component that keeps something keeps state of the shape the code  *)
(* has: rows, points, tasks and their pauses, packs without repetition.    *)
THEOREM StoresTypeCorrect == ASSUME RolloutBounds, Rows PROVE StoresSpec => []StoresTypeOK
<1>. DEFINE Inv == ProvedInv /\ FieldsInv
<1>1. StoresInit => Inv
  BY StoresTypesBegin
<1>2. Inv /\ [StoresNext]_storeVars => Inv'
  BY StoresTypesStep
<1>3. Inv => StoresTypeOK
  <2>. SUFFICES ASSUME ProvedInv, FieldsInv PROVE StoresTypeOK
    OBVIOUS
  <2>1. TypeOK /\ RolloutTypeOK /\ EntitiesTypeOK /\ Manual!MemoryTypeOK
    BY DEF ProvedInv, RecorderInv, EntitiesInv, MemoryInv
  <2>2. Timeline!TypeOK /\ Schema!SchemaTypeOK
    BY TimelineTypesMean, SchemaTypesMean DEF ProvedInv
  <2>3. Screen!TypeOK /\ Calibration!CalibrationTypeOK /\ Shadow!ShadowTypeOK /\ Ledger!LedgerTypeOK
    BY ScreenTypesMean, CalibrationTypesMean, ShadowTypesMean, LedgerTypesMean DEF ProvedInv, FieldsInv
  <2>. QED BY <2>1, <2>2, <2>3 DEF StoresTypeOK, Moved
<1>. HIDE DEF Inv
<1>. QED BY <1>1, <1>2, <1>3, PTL DEF StoresSpec
=============================================================================
