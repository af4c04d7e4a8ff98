----------------------- MODULE CommandLifecycleProofs -----------------------
(* What the lifecycle of a request implies.                                  *)
EXTENDS CommandLifecycle, TLAPS

LifecycleTypes ==
  /\ phase \in [Req -> Phases] /\ open \subseteq Req /\ agreed \subseteq Req
  /\ started \subseteq Req /\ running \in Req \cup {NoReq}

(* What runs has started; what may still be started, or decided, has not; it  *)
(* would have to await consent to lose it by expiry.                         *)
LifecycleInv ==
  /\ LifecycleTypes
  /\ running # NoReq => running \in started
  /\ \A r \in Req : phase[r] \in {"absent", "planning", "awaiting", "queued"} => r \notin started
  /\ \A r \in open : r \notin started /\ phase[r] \in {"planning", "cancelled"}
  /\ running \in Asks => running \in agreed

(* The invariant of the lifecycle is inductive.                              *)
LEMMA LifecycleStep ==
  ASSUME NoReq \notin Req, Asks \subseteq Req, LifecycleInv, [Next]_vars
  PROVE  LifecycleInv'
<1>. USE DEF LifecycleInv, LifecycleTypes
<1>1. ASSUME NEW r \in Req, Ask(r)
      PROVE  LifecycleInv'
  BY <1>1 DEF Ask, Becomes, Phases
<1>2. ASSUME NEW r \in Req, Decide(r)
      PROVE  LifecycleInv'
  BY <1>2 DEF Decide, Becomes, Phases, Results
<1>3. ASSUME NEW r \in Req, GiveUp(r)
      PROVE  LifecycleInv'
  BY <1>3 DEF GiveUp
<1>4. ASSUME NEW r \in Req, Agree(r)
      PROVE  LifecycleInv'
  BY <1>4 DEF Agree, Becomes, Phases, Results
<1>5. ASSUME NEW r \in Req, Expire(r)
      PROVE  LifecycleInv'
  BY <1>5 DEF Expire, Becomes, Phases, Results
<1>6. ASSUME NEW r \in Req, Start(r)
      PROVE  LifecycleInv'
  BY <1>6 DEF Start, Becomes, Phases, Results
<1>7. ASSUME NEW r \in Req, Conclude(r)
      PROVE  LifecycleInv'
  BY <1>7 DEF Conclude, Becomes, Phases, Results
<1>8. ASSUME NEW r \in Req, Cancel(r)
      PROVE  LifecycleInv'
  BY <1>8 DEF Cancel, Becomes, Phases, Results
<1>9. ASSUME NEW r \in Req, Close(r)
      PROVE  LifecycleInv'
  BY <1>9 DEF Close, Becomes, Phases, Results
<1>10. CASE Return
  BY <1>10 DEF Return
<1>11. CASE Crash
  BY <1>11 DEF Crash
<1>12. CASE UNCHANGED vars
  BY <1>12 DEF vars
<1>. QED
  BY <1>1, <1>2, <1>3, <1>4, <1>5, <1>6, <1>7, <1>8, <1>9, <1>10, <1>11, <1>12 DEF Next

(* In every lifecycle only what has consent runs where consent is needed, and *)
(* nothing is started twice.                                                 *)
THEOREM LifecyclePromises ==
  ASSUME NoReq \notin Req, Asks \subseteq Req
  PROVE  Spec => []Agreement /\ StartsOnce
<1>1. Init => LifecycleInv
  BY DEF Init, LifecycleInv, LifecycleTypes, Phases
<1>2. LifecycleInv /\ [Next]_vars => LifecycleInv'
  BY LifecycleStep
<1>3. LifecycleInv => Agreement
  BY DEF LifecycleInv, Agreement
<1>4. LifecycleInv /\ [Next]_vars => [\A r \in Req : Start(r) => r \notin started]_vars
  BY DEF LifecycleInv, Start
<1>. QED
  BY <1>1, <1>2, <1>3, <1>4, PTL DEF Spec, StartsOnce
=============================================================================
