---------------------------- MODULE SituationLedger ----------------------------
(***************************************************************************)
(* The ledger of the situation (situation/state.py, proposal.py,           *)
(* evidence.py): a model may propose a change, a local policy asks what    *)
(* evidence it stands on, and only local code appends. An event's evidence *)
(* becomes evidence for later proposals; the catalogue of the caller wins  *)
(* over the ledger's where both know an id.                                *)
(***************************************************************************)
EXTENDS Naturals, FiniteSets, Sequences, SequencesExt

CONSTANTS
    Ids,            \* evidence ids
    Offered,        \* evidence a caller may bring
    Promotions,     \* pairs of kinds a proposal may ask for
    MaxEvents,      \* bound on the events of a ledger
    MaxRefs         \* evidence a proposal may cite

VARIABLES
    events          \* SituationStore._events

vars == <<events>>

Kinds == {"fact", "hypothesis", "request", "commitment", "intention", "decision"}
Trusts == {"authoritative", "user_asserted", "observed", "derived", "untrusted_external",
           "model_inference"}
FactTrust == {"authoritative", "user_asserted", "observed"}
AcceptanceTrust == {"authoritative", "user_asserted"}
ModelOnly == {"model_inference", "derived"}
GatedPromote == {<<"hypothesis", "fact">>, <<"request", "commitment">>, <<"intention", "decision">>}

(* Evidence by what the policy reads: whether a model is its source, and   *)
(* its class of trust; EvidenceItemV1 refuses the pair that contradicts    *)
(* itself.                                                                 *)
Evidence == {e \in [model : BOOLEAN, trust : Trusts] : ~(e.model /\ e.trust = "authoritative")}
Unknown == [model |-> FALSE, trust |-> "none"]

Propose(kind) == [op |-> "propose", kind |-> kind, from |-> kind, target |-> 0]
Promote(from, to, target) == [op |-> "promote", kind |-> to, from |-> from, target |-> target]

-----------------------------------------------------------------------------
(* _resolve_evidence: the caller's item, or the ledger's latest of the id. *)
OfLedger(id) ==
    LET of == {i \in 1..Len(events) : events[i].id = id}
    IN IF of = {} THEN Unknown ELSE events[Max(of)].evidence

Resolve(index, refs) ==
    [i \in 1..Len(refs) |->
        IF refs[i] \in DOMAIN index THEN index[refs[i]] ELSE OfLedger(refs[i])]

AllModelAuthored(resolved) ==
    \A i \in 1..Len(resolved) : resolved[i].trust \in ModelOnly \/ resolved[i].model

(* The place of the first item of a class that will do, or 0.              *)
BestEvidence(resolved, allowed) ==
    LET fit == {i \in 1..Len(resolved) : resolved[i].trust \in allowed}
    IN IF fit = {} THEN 0 ELSE CHOOSE i \in fit : \A j \in fit : i <= j

(* Mutant: a commitment asks for acceptable evidence and does not ask      *)
(* where it came from.                                                     *)
CommitsOnTrust(resolved) == BestEvidence(resolved, AcceptanceTrust)

(* Evidence of the user or of an authority, not written by a model.        *)
EnforceCommitment(resolved) ==
    LET best == BestEvidence(resolved, AcceptanceTrust)
    IN IF AllModelAuthored(resolved) \/ (best # 0 /\ resolved[best].model) THEN 0 ELSE best

EnforceKind(kind, resolved) ==
    IF kind \in {"fact", "decision"} THEN BestEvidence(resolved, FactTrust)
    ELSE IF kind = "commitment" THEN EnforceCommitment(resolved)
    ELSE IF kind = "hypothesis"
            /\ \E i \in 1..Len(resolved) : resolved[i].trust = "untrusted_external"
    THEN 0 ELSE 1

(* A promotion names what it promotes, or nothing; the event it makes is a *)
(* new one and the old one stays.                                          *)
EnforcePromote(from, to, target, resolved) ==
    IF \/ <<from, to>> \notin GatedPromote
       \/ target # 0 /\ (target \notin 1..Len(events) \/ events[target].kind # from)
    THEN 0
    ELSE IF to = "fact" THEN BestEvidence(resolved, FactTrust)
    ELSE IF to = "commitment" THEN EnforceCommitment(resolved)
    ELSE IF AllModelAuthored(resolved) THEN 0 ELSE BestEvidence(resolved, FactTrust)

(* StatePolicy.enforce: the evidence the event will stand on, 0 for a      *)
(* refusal (evidence nobody knows, or none, is one).                       *)
Enforce(p, resolved) ==
    IF resolved = <<>> \/ Contains(resolved, Unknown) THEN 0
    ELSE IF p.op = "promote" THEN EnforcePromote(p.from, p.kind, p.target, resolved)
    ELSE EnforceKind(p.kind, resolved)

-----------------------------------------------------------------------------
Init == events = <<>>

(* SituationEvent's own validator: a ValueError for the caller where the   *)
(* policy let through what it must not.                                    *)
Valid(kind, e) ==
    /\ kind = "fact" => e.trust \in FactTrust
    /\ kind = "commitment" => e.trust # "untrusted_external"

(* apply_state_proposal: policy, reducer, append. A refusal and an error   *)
(* of the validator change nothing; a claim that an action succeeded is    *)
(* always refused.                                                         *)
Apply(p, index, refs) ==
    LET resolved == Resolve(index, refs)
        best == Enforce(p, resolved)
    IN /\ best # 0 /\ Valid(p.kind, resolved[best])
       /\ events' = Append(events, [kind |-> p.kind, id |-> refs[best],
                                    evidence |-> resolved[best]])

Indexes == UNION {[S -> Offered] : S \in {T \in SUBSET Ids : Cardinality(T) <= 1}}
Refs == UNION {[1..n -> Ids] : n \in 1..MaxRefs}

Next ==
    /\ Len(events) < MaxEvents
    /\ \E index \in Indexes, refs \in Refs :
         \/ \E kind \in Kinds : Apply(Propose(kind), index, refs)
         \/ \E pair \in Promotions, target \in 0..MaxEvents :
              Apply(Promote(pair[1], pair[2], target), index, refs)

Spec == Init /\ [][Next]_vars

-----------------------------------------------------------------------------
(* The variables have the shape of the code's state.                       *)
LedgerTypeOK ==
    /\ Len(events) <= MaxEvents
    /\ \A i \in 1..Len(events) : /\ events[i].kind \in Kinds /\ events[i].id \in Ids
                                 /\ events[i].evidence \in Evidence

(* Whatever evidence was offered under which id and promoted in whatever   *)
(* order (proposal.py:232-331), no commitment of the ledger rests on words *)
(* of a model or of an untrusted source, no fact and no decision on less   *)
(* than observation.                                                       *)
LedgerStandsOnEvidence ==
    \A i \in 1..Len(events) :
        LET e == events[i].evidence
        IN /\ events[i].kind = "commitment" => e.trust \in AcceptanceTrust /\ ~e.model
           /\ events[i].kind \in {"fact", "decision"} => e.trust \in FactTrust

=============================================================================
