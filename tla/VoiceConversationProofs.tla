------------------------ MODULE VoiceConversationProofs ------------------------
(***************************************************************************)
(* The conversation keeps its types, answers nothing twice, and with a     *)
(* kept stream never waits, under the lock of the microphone, for somebody *)
(* who wants that lock.  Most steps let one coroutine go on and leave the  *)
(* words that were said alone: what such a step does to a coroutine is     *)
(* Follows, and it is shown action by action; the few steps that take or   *)
(* hand on somebody's words are then looked at one by one.                 *)
(***************************************************************************)
EXTENDS VoiceConversation, FiniteSetTheorems, SequenceTheorems, TLAPS

Conversation ==
    [state : States, turn : Nat, active : BOOLEAN, accept : BOOLEAN,
     interrupt : BOOLEAN, armed : BOOLEAN,
     barge : Utterances \cup {None}, asking : BOOLEAN, until : BOOLEAN,
     blocked : BOOLEAN, session : BOOLEAN]
Coroutine ==
    [at : Awaits, next : Resumptions, turn : Nat, job : Jobs,
     inTurn : BOOLEAN, dying : BOOLEAN, opened : BOOLEAN,
     waits : SUBSET Procs, holds : BOOLEAN,
     owner : Procs \cup {None}]

(* A coroutine that is still to give its words to the assistant; one that  *)
(* nothing leads back to the microphone; an utterance nobody has taken.    *)
Asked(r) == r.at \in {"begin", "decide"} \/ (r.at \in MicAwaits /\ r.next = "decide")
Doomed(r) == r.at \in {"done", "unwind"} \/ (r.at = "said" /\ r.dying)
Unserved(u) == says[u] = None \/ co[u].at \in {"ready", "queued"}

(* The words of an utterance are in one place at most: unserved, kept for  *)
(* after the assistant's speech, with the turn that is about them, or told.*)
WordsOnce ==
    /\ \A u \in Utterances : Unserved(u) => told[u] = 0 /\ conv.barge # u
    /\ \A u \in Utterances : conv.barge = u => told[u] = 0
    /\ \A p \in Procs : Asked(co[p]) =>
         /\ co[p].owner \in Utterances
         /\ told[co[p].owner] = 0
         /\ conv.barge # co[p].owner
         /\ ~Unserved(co[p].owner)
    /\ \A p, q \in Procs : Asked(co[p]) /\ Asked(co[q]) /\ co[p].owner = co[q].owner => p = q
    /\ \A u \in Utterances : told[u] <= 1

(* Nobody speaks before it is heard, and with a kept stream whoever closes *)
(* the microphone waits only for callbacks on their way out.               *)
SilentUnsaid == \A u \in Utterances : says[u] = None => co[u].at = "silent"
WaitsForDoomed ==
    reuse => \A p \in Procs : co[p].at \in {"gatherStop", "gatherStart"} =>
                \A q \in co[p].waits : q \in Utterances /\ Doomed(co[q])
ConversationInv == TypeOK /\ WordsOnce /\ SilentUnsaid /\ WaitsForDoomed

(* What a step does to a coroutine that takes nobody's words: it leaves it *)
(* alike, or moves it, without handing it any and, with a kept stream,     *)
(* without calling it back on its way out.                                 *)
Alike(q, s) ==
    /\ s \in Coroutine
    /\ s.at = co[q].at /\ s.next = co[q].next /\ s.owner = co[q].owner
    /\ s.waits = co[q].waits /\ s.dying = co[q].dying
Apt(q, s) ==
    /\ s \in Coroutine
    /\ Asked(s) => Asked(co[q]) /\ s.owner = co[q].owner
    /\ s.at \notin {"silent", "queued", "ready", "gatherStop", "gatherStart"}
Movable(q, s) ==
    q \in Utterances => co[q].at # "silent" /\ (reuse /\ Doomed(co[q]) => Doomed(s))
Follows(q, s) == Alike(q, s) \/ (Apt(q, s) /\ Movable(q, s))
Drifts == co' \in [Procs -> Coroutine] /\ \A q \in Procs : Follows(q, co'[q])
Calm ==
    /\ TypeOK' /\ told' = told /\ says' = says /\ scene' = scene
    /\ conv'.barge \in {conv.barge, None}
    /\ Drifts

-----------------------------------------------------------------------------
(* The awaits and resumptions the actions name.                            *)
LEMMA Names ==
    /\ Resumptions \subseteq Awaits /\ MicAwaits \subseteq Awaits
    /\ \A a \in Resumptions : a \notin {"silent", "queued", "ready", "gatherStop", "gatherStart",
                                        "begin", "micStop", "micStart", "connect", "said", "unwind"}
    /\ {"done", "listening", "lastTry", "opens", "spoken", "decide",
        "armPaused", "rearm", "rearmed", "rearmOff", "armed", "cut",
        "greet", "resumed", "listen"} \subseteq Resumptions
    /\ {"micStop", "micStart", "gatherStop", "gatherStart", "connect"} = MicAwaits
    /\ {"silent", "done", "dead", "queued", "ready", "direct", "begin", "thinking", "executing",
        "unanswered", "speak", "saying", "said", "cutting", "leave", "grace", "unwind"}
         \subseteq Awaits
BY DEF Awaits, Resting, MicAwaits, Resumptions

(* What a finished coroutine leaves is a coroutine that asks for nothing.  *)
LEMMA RestIs ==
    /\ Rest \in Coroutine /\ Rest.at = "done" /\ Rest.next = "done" /\ Rest.turn = 0
    /\ Rest.job = "none" /\ Rest.waits = {} /\ Rest.owner = None /\ Rest.dying = FALSE
    /\ ~Asked(Rest) /\ Doomed(Rest)
<1>1. Rest \in Coroutine
  BY Names DEF Rest, Coroutine, Jobs
<1>2. /\ Rest.at = "done" /\ Rest.next = "done" /\ Rest.turn = 0
      /\ Rest.job = "none" /\ Rest.waits = {} /\ Rest.owner = None /\ Rest.dying = FALSE
  BY DEF Rest
<1>. QED
  BY <1>1, <1>2 DEF Asked, Doomed, MicAwaits

(* The processes of a conversation are apart.                              *)
LEMMA Apart ==
    /\ Arm \in Procs /\ Timer \in Procs /\ Watch \in Procs
    /\ Arm \notin Utterances /\ Timer \notin Utterances /\ Watch \notin Utterances
    /\ None \notin Utterances /\ Utterances \subseteq Procs /\ Calls \subseteq Procs
    /\ Utterances \cap Calls = {}
BY ConversationAssumption DEF Procs

-----------------------------------------------------------------------------
(* What the steps that move coroutines along do to the invariant.          *)

(* The part of Follows that waiting under the lock depends on.             *)
Unhindered(q, s) ==
    /\ s.at \in {"gatherStop", "gatherStart"} => s.at = co[q].at /\ s.waits = co[q].waits
    /\ q \in Utterances => (co[q].at = "silent" => s.at = "silent")
    /\ q \in Utterances => (reuse /\ Doomed(co[q]) => Doomed(s))

LEMMA FollowsUnhindered ==
    ASSUME NEW q, NEW s, Follows(q, s)
    PROVE  Unhindered(q, s)
BY DEF Follows, Alike, Apt, Movable, Unhindered, Doomed

(* Nobody else is waited for by steps that hinder nobody.                  *)
LEMMA WaitsKept ==
    ASSUME ConversationInv, says' = says, scene' = scene,
           \A q \in Procs : Unhindered(q, co'[q])
    PROVE  SilentUnsaid' /\ WaitsForDoomed'
<1>1. SilentUnsaid'
  BY Apart DEF ConversationInv, SilentUnsaid, Unhindered
<1>2. WaitsForDoomed'
  <2>. SUFFICES ASSUME reuse', NEW p \in Procs, co'[p].at \in {"gatherStop", "gatherStart"},
                       NEW q \in co'[p].waits
                PROVE  q \in Utterances /\ Doomed(co'[q])
    BY DEF WaitsForDoomed
  <2>1. reuse
    BY DEF reuse
  <2>2. co[p].at \in {"gatherStop", "gatherStart"} /\ co'[p].waits = co[p].waits
    BY DEF Unhindered
  <2>3. q \in Utterances /\ Doomed(co[q])
    BY <2>1, <2>2 DEF ConversationInv, WaitsForDoomed
  <2>4. Unhindered(q, co'[q])
    BY <2>3, Apart
  <2>. QED
    BY <2>1, <2>3, <2>4 DEF Unhindered
<1>. QED
  BY <1>1, <1>2

(* The part of Follows that the places of words depend on: a coroutine     *)
(* asks for what it asked, and takes no place in the queue.                *)
Wordless(q, s) ==
    /\ Asked(s) => Asked(co[q]) /\ s.owner = co[q].owner
    /\ s.at \in {"ready", "queued"} => s.at = co[q].at

LEMMA FollowsWordless ==
    ASSUME NEW q, NEW s, Follows(q, s)
    PROVE  Wordless(q, s)
BY DEF Follows, Alike, Apt, Asked, Wordless

(* A step that hands on nobody's words keeps each of them in its place.    *)
LEMMA WordsKept ==
    ASSUME ConversationInv, told' = told, says' = says, conv'.barge \in {conv.barge, None},
           \A q \in Procs : Wordless(q, co'[q])
    PROVE  WordsOnce'
<1>. USE DEF ConversationInv
<1>1. \A q \in Procs : /\ Asked(co'[q]) => Asked(co[q]) /\ co'[q].owner = co[q].owner
                       /\ co'[q].at \in {"ready", "queued"} => co'[q].at = co[q].at
  BY DEF Wordless
<1>2. \A u \in Utterances : Unserved(u)' => Unserved(u)
  BY <1>1, Apart DEF Unserved
<1>3. \A u \in Utterances : conv'.barge = u => conv.barge = u
  BY Apart
<1>. QED
  BY <1>1, <1>2, <1>3 DEF WordsOnce

LEMMA CalmKeeps ==
    ASSUME ConversationInv, Calm
    PROVE  ConversationInv'
<1>1. WordsOnce'
  BY FollowsWordless, WordsKept DEF Calm, Drifts
<1>2. \A q \in Procs : Unhindered(q, co'[q])
  BY FollowsUnhindered DEF Calm, Drifts
<1>3. SilentUnsaid' /\ WaitsForDoomed'
  BY <1>2, WaitsKept DEF Calm
<1>. QED
  BY <1>1, <1>3 DEF ConversationInv, Calm

-----------------------------------------------------------------------------
(* The ways coroutines and fields are moved.                               *)

Leads(procs) == procs \in [Procs -> Coroutine] /\ \A q \in Procs : Follows(q, procs[q])
Unbound(p) == p \in Utterances => co[p].at # "silent" /\ ~(reuse /\ Doomed(co[p]))
Went(b) == Leads(co') /\ conv' \in Conversation /\ conv'.barge = b /\ stale' \in BOOLEAN

(* What a calm step leaves of the rest.                                    *)
Framed ==
    /\ mic' \in {"off", "connecting", "on"}
    /\ queue' \in Seq(Utterances) /\ worker' \in Utterances \cup {"idle", "dead"}
    /\ timeouts' \in Nat /\ faults' \in Nat /\ cuts' \in Nat
    /\ scene' = scene /\ told' = told /\ says' = says

LEMMA TypeOKIs ==
    TypeOK <=>
    /\ conv \in Conversation /\ co \in [Procs -> Coroutine]
    /\ mic \in {"off", "connecting", "on"}
    /\ queue \in Seq(Utterances) /\ worker \in Utterances \cup {"idle", "dead"}
    /\ says \in [Utterances -> Classes \cup {None}]
    /\ timeouts \in Nat /\ faults \in Nat /\ cuts \in Nat
    /\ scene \in Scenes /\ told \in [Utterances -> Nat] /\ stale \in BOOLEAN
BY DEF TypeOK, Conversation, Coroutine

LEMMA CalmWhen ==
    ASSUME TypeOK, NEW b \in {conv.barge, None}, Went(b), Framed
    PROVE  Calm
<1>1. TypeOK'
  BY TypeOKIs DEF Went, Framed, Leads, TypeOK, Conversation, Coroutine
<1>. QED
  BY <1>1 DEF Calm, Went, Framed, Drifts, Leads

LEMMA FramedWhen ==
    ASSUME TypeOK, UNCHANGED <<mic, queue, worker, says, timeouts, bounds, told>>
    PROVE  Framed
BY DEF TypeOK, Framed, bounds

(* Every coroutine follows itself.                                         *)
LEMMA CoLeads ==
    ASSUME TypeOK
    PROVE  Leads(co)
BY TypeOKIs DEF Leads, Follows, Alike

LEMMA LeadsOn ==
    ASSUME NEW procs, Leads(procs), NEW p \in Procs, Unbound(p), NEW s, Apt(p, s)
    PROVE  Leads([procs EXCEPT ![p] = s])
<1>1. Follows(p, s)
  BY DEF Follows, Movable, Unbound
<1>2. s \in Coroutine
  BY DEF Apt
<1>. QED
  BY <1>1, <1>2 DEF Leads

(* A coroutine at its rest, or anywhere from where nothing is asked.       *)
LEMMA RestApt ==
    ASSUME NEW q
    PROVE  Apt(q, Rest)
BY RestIs DEF Apt

Onsets == {"micStop", "micStart", "connect", "said", "unwind", "direct", "thinking", "executing",
           "unanswered", "speak", "saying", "cutting", "leave", "grace", "dead"}

LEMMA FieldsOf ==
    ASSUME NEW r \in Coroutine
    PROVE  /\ r.at \in Awaits /\ r.next \in Resumptions /\ r.turn \in Nat /\ r.job \in Jobs
           /\ r.inTurn \in BOOLEAN /\ r.dying \in BOOLEAN /\ r.opened \in BOOLEAN
           /\ r.waits \in SUBSET Procs /\ r.holds \in BOOLEAN /\ r.owner \in Procs \cup {None}
BY DEF Coroutine

LEMMA AptAt ==
    ASSUME NEW q, NEW s \in Coroutine,
           s.at \in Onsets \cup Resumptions, s.at # "decide",
           s.at \in {"micStop", "micStart", "connect"} => s.next # "decide"
    PROVE  Apt(q, s)
BY Names DEF Apt, Asked, Onsets

LEMMA Resumed ==
    ASSUME TypeOK, NEW procs, Leads(procs), NEW c \in Conversation, NEW p \in Procs, Unbound(p),
           NEW r \in Coroutine, NEW n \in {"listening", "lastTry"},
           ResumeListening(procs, c, p, r, n)
    PROVE  Went(c.barge)
<1>1. stale \in BOOLEAN
  BY DEF TypeOK
<1>2. CASE c.blocked \/ r.turn # c.turn
  <2>1. Leads(co')
    BY <1>2, LeadsOn, RestApt DEF ResumeListening
  <2>2. conv' = Silenced(c) /\ stale' \in BOOLEAN
    BY <1>1, <1>2 DEF ResumeListening
  <2>3. Silenced(c) \in Conversation /\ Silenced(c).barge = c.barge
    BY DEF Silenced, Conversation, States
  <2>. QED
    BY <2>1, <2>2, <2>3 DEF Went
<1>3. CASE ~(c.blocked \/ r.turn # c.turn)
  <2>. DEFINE s == IF StreamReady THEN Rest ELSE [r EXCEPT !.at = "micStart", !.next = n]
  <2>1. co' = [procs EXCEPT ![p] = s] /\ stale' = stale
        /\ conv' = [c EXCEPT !.state = "listening", !.accept = TRUE,
                             !.active = TRUE, !.interrupt = FALSE, !.armed = FALSE]
    BY <1>3 DEF ResumeListening
  <2>2. [r EXCEPT !.at = "micStart", !.next = n] \in Coroutine
    BY Names DEF Coroutine
  <2>3. Apt(p, [r EXCEPT !.at = "micStart", !.next = n])
    <3>. DEFINE z == [r EXCEPT !.at = "micStart", !.next = n]
    <3>1. z.at = "micStart" /\ z.next = n
      BY DEF Coroutine
    <3>. QED
      BY <2>2, <3>1, AptAt DEF Onsets
  <2>4. Apt(p, s)
    BY <2>3, RestApt
  <2>5. Leads(co')
    <3>. HIDE DEF s
    <3>. QED
      BY <2>1, <2>4, LeadsOn
  <2>6. conv' \in Conversation /\ conv'.barge = c.barge
    BY <2>1 DEF Conversation, States
  <2>. QED
    BY <1>1, <2>1, <2>5, <2>6 DEF Went
<1>. QED
  BY <1>2, <1>3

(* _speak_with_barge_in arms its task and hands on nobody's words.         *)
LEMMA SpeechOpened ==
    ASSUME TypeOK, NEW procs, Leads(procs), NEW p \in Procs, Unbound(p), NEW s \in Coroutine
    PROVE  Leads(SpeechOpens([procs EXCEPT ![p] = s], p))
<1>. DEFINE w == [s EXCEPT !.at = "speak", !.opened = FALSE]
            a == [Rest EXCEPT !.at = "grace", !.owner = p, !.turn = s.turn]
            g == [procs EXCEPT ![p] = w]
<1>1. procs \in [Procs -> Coroutine]
  BY DEF Leads
<1>2. w \in Coroutine /\ w.at = "speak"
  BY <1>1, Names DEF Coroutine
<1>3. a \in Coroutine /\ a.at = "grace"
  BY <1>1, Names, RestIs DEF Coroutine
<1>4. Apt(p, w) /\ Apt(Arm, a)
  BY <1>2, <1>3, AptAt DEF Onsets
<1>5. SpeechOpens([procs EXCEPT ![p] = s], p) = [g EXCEPT ![Arm] = a]
  BY <1>1 DEF SpeechOpens
<1>6. Unbound(Arm)
  BY Apart DEF Unbound
<1>. HIDE DEF w, a
<1>7. Leads(g)
  BY <1>4, LeadsOn
<1>. HIDE DEF g
<1>8. Leads([g EXCEPT ![Arm] = a])
  BY <1>4, <1>6, <1>7, LeadsOn, Apart
<1>. QED
  BY <1>5, <1>8

LEMMA Started ==
    ASSUME TypeOK, NEW procs, Leads(procs), NEW c \in Conversation, NEW p \in Procs, Unbound(p),
           NEW r \in Coroutine, NEW job \in Jobs,
           StartSpeaking(procs, c, p, r, job)
    PROVE  Went(None)
<1>. DEFINE s == [r EXCEPT !.job = job, !.next = "opens"]
            z == [s EXCEPT !.at = "micStart"]
<1>1. s \in Coroutine /\ s.next = "opens"
  BY Names DEF Coroutine
<1>2. z \in Coroutine /\ z.at = "micStart" /\ z.next = "opens"
  BY <1>1, Names DEF Coroutine
<1>3. ASSUME reuse /\ ~StreamReady
      PROVE  Leads(co')
  <2>1. co' = [procs EXCEPT ![p] = z]
    BY <1>3 DEF StartSpeaking
  <2>2. Apt(p, z)
    BY <1>2, AptAt DEF Onsets
  <2>. HIDE DEF z
  <2>. QED
    BY <2>1, <2>2, LeadsOn
<1>4. ASSUME ~(reuse /\ ~StreamReady)
      PROVE  Leads(co')
  <2>1. co' = SpeechOpens([procs EXCEPT ![p] = s], p)
    BY <1>4 DEF StartSpeaking
  <2>. HIDE DEF s
  <2>. QED
    BY <1>1, <2>1, SpeechOpened
<1>5. Leads(co')
  BY <1>3, <1>4
<1>. DEFINE v == IF ~reuse THEN FALSE ELSE IF StreamReady THEN TRUE ELSE c.accept
<1>6. v \in BOOLEAN
  BY DEF Conversation
<1>7. conv' = [c EXCEPT !.state = "speaking", !.armed = FALSE, !.barge = None, !.accept = v]
  BY DEF StartSpeaking, Conversation
<1>8. conv' \in Conversation /\ conv'.barge = None
  <2>. HIDE DEF v
  <2>. QED
    BY <1>6, <1>7 DEF Conversation, States
<1>9. stale' \in BOOLEAN
  BY DEF StartSpeaking, TypeOK
<1>. QED
  BY <1>5, <1>8, <1>9 DEF Went

(* A field of the conversation that is not its kept words.                 *)
LEMMA SilencedIs ==
    ASSUME NEW c \in Conversation
    PROVE  Silenced(c) \in Conversation /\ Silenced(c).barge = c.barge
BY DEF Silenced, Conversation, States

LEMMA GoesLeads ==
    ASSUME TypeOK, NEW p \in Procs, Unbound(p), NEW s, Apt(p, s), Goes(p, s)
    PROVE  Leads(co')
BY CoLeads, LeadsOn DEF Goes

LEMMA EndsLeads ==
    ASSUME TypeOK, NEW p \in Procs, Unbound(p), Ends(p)
    PROVE  Leads(co')
BY GoesLeads, RestApt DEF Ends

LEMMA CoIs ==
    ASSUME TypeOK, NEW p \in Procs
    PROVE  co[p] \in Coroutine /\ conv \in Conversation /\ stale \in BOOLEAN /\ conv.turn \in Nat
BY TypeOKIs DEF Conversation

LEMMA TurnedOver ==
    ASSUME TypeOK, NEW procs, Leads(procs), NEW c \in Conversation, NEW p \in Procs, Unbound(p),
           TurnOver(procs, c, p)
    PROVE  Went(c.barge)
<1>1. CASE ~Interrupted(co[p].turn) /\ ~c.session
  BY <1>1, SilencedIs, LeadsOn, RestApt, CoIs DEF TurnOver, Went
<1>2. CASE ~(~Interrupted(co[p].turn) /\ ~c.session)
  BY <1>2, Resumed, CoIs DEF TurnOver
<1>. QED
  BY <1>1, <1>2

LEMMA Failed ==
    ASSUME TypeOK, NEW p \in Procs, Unbound(p), Fails(p)
    PROVE  Went(conv.barge)
<1>1. CASE co[p].next = "lastTry"
  BY <1>1, SilencedIs, EndsLeads, CoIs DEF Fails, Went
<1>2. CASE co[p].next # "lastTry" /\ co[p].job = "resumed" /\ co[p].next = "opens"
  BY <1>2, Resumed, CoLeads, CoIs DEF Fails
<1>3. CASE co[p].next # "lastTry" /\ ~(co[p].job = "resumed" /\ co[p].next = "opens")
           /\ co[p].inTurn
  BY <1>3, Resumed, CoLeads, CoIs DEF Fails
<1>4. CASE co[p].next # "lastTry" /\ ~(co[p].job = "resumed" /\ co[p].next = "opens")
           /\ ~co[p].inTurn
  <2>1. Apt(p, [Rest EXCEPT !.at = "dead"])
    <3>1. [Rest EXCEPT !.at = "dead"] \in Coroutine /\ [Rest EXCEPT !.at = "dead"].at = "dead"
      BY RestIs, Names DEF Coroutine
    <3>. QED
      BY <3>1, AptAt DEF Onsets
  <2>2. Goes(p, IF p = Watch THEN [Rest EXCEPT !.at = "dead"] ELSE Rest)
        /\ conv' = (IF co[p].job = "greeting" THEN Silenced(conv) ELSE conv) /\ stale' = stale
    BY <1>4 DEF Fails
  <2>3. Leads(co')
    BY <2>1, <2>2, GoesLeads, RestApt
  <2>4. conv' \in Conversation /\ conv'.barge = conv.barge
    BY <2>2, SilencedIs, CoIs
  <2>. QED
    BY <2>2, <2>3, <2>4, CoIs DEF Went
<1>. QED
  BY <1>1, <1>2, <1>3, <1>4

(* After an await of the microphone.                                       *)
LEMMA OnwardsApt ==
    ASSUME TypeOK, NEW p \in Procs, co[p].at \in MicAwaits
    PROVE  Apt(p, Onwards(co[p])) /\ Onwards(co[p]).at \notin MicAwaits
<1>. DEFINE r == co[p]
            s == [r EXCEPT !.at = r.next, !.waits = {}]
<1>1. r \in Coroutine /\ r.next \in Resumptions
  BY CoIs, FieldsOf
<1>2. s \in Coroutine /\ s.at = r.next /\ s.next = r.next /\ s.owner = r.owner
  BY <1>1, Names DEF Coroutine
<1>3. Apt(p, s)
  BY <1>1, <1>2, Names DEF Apt, Asked
<1>4. Onwards(co[p]) \in {Rest, s}
  BY DEF Onwards
<1>5. s.at \notin MicAwaits /\ Rest.at \notin MicAwaits
  BY <1>1, <1>2, Names, RestIs
<1>. HIDE DEF s
<1>. QED
  BY <1>3, <1>4, <1>5, RestApt

(* A cancelled coroutine is on its way out.                                *)
LEMMA CancelledApt ==
    ASSUME TypeOK, NEW q \in Procs
    PROVE  Apt(q, Cancelled(co[q])) /\ Doomed(Cancelled(co[q]))
<1>. DEFINE r == co[q]
            a == [r EXCEPT !.at = "said", !.dying = TRUE]
            b == [r EXCEPT !.at = "unwind"]
<1>1. r \in Coroutine
  BY CoIs
<1>2. a \in Coroutine /\ a.at = "said" /\ a.dying /\ b \in Coroutine /\ b.at = "unwind"
  BY <1>1, Names DEF Coroutine
<1>3. Apt(q, a) /\ Apt(q, b)
  BY <1>2, AptAt DEF Onsets
<1>4. Cancelled(r) \in {Rest, a, b}
  BY DEF Cancelled
<1>5. Doomed(a) /\ Doomed(b)
  BY <1>2 DEF Doomed
<1>. HIDE DEF a, b
<1>. QED
  BY <1>3, <1>4, <1>5, RestApt, RestIs

(* tts.stop ends a speech, and nothing else.                               *)
LEMMA HushedLeads ==
    ASSUME TypeOK, NEW procs, Leads(procs)
    PROVE  Leads(Hushed(procs))
<1>1. \A q \in Procs : procs[q] \in Coroutine /\ Follows(q, procs[q])
  BY DEF Leads
<1>2. ASSUME NEW q \in Procs, procs[q].at = "saying"
      PROVE  Follows(q, [procs[q] EXCEPT !.at = "said"])
  <2>. DEFINE s == [procs[q] EXCEPT !.at = "said"]
  <2>1. s \in Coroutine /\ s.at = "said"
    BY <1>1, Names DEF Coroutine
  <2>2. Apt(q, s)
    BY <2>1, AptAt DEF Onsets
  <2>3. Movable(q, s)
    BY <1>1, <1>2 DEF Follows, Alike, Movable, Doomed
  <2>. QED
    BY <2>2, <2>3 DEF Follows
<1>3. \A q \in Procs : Follows(q, Hushed(procs)[q])
  BY <1>1, <1>2 DEF Hushed
<1>4. Hushed(procs) \in [Procs -> Coroutine]
  BY <1>1, Names DEF Hushed, Coroutine
<1>. QED
  BY <1>3, <1>4 DEF Leads

(* interrupt_speech, up to where others may act.                           *)
LEMMA SpeechInterrupted ==
    ASSUME TypeOK, NEW p \in Procs, Unbound(p), NEW c \in Conversation, stale' = stale,
           InterruptSpeech(p, c)
    PROVE  Went(None)
<1>. DEFINE a == IF reuse THEN "cut" ELSE "micStop"
            t == conv.turn + 1
            s == [Rest EXCEPT !.at = a, !.next = "cut", !.turn = t, !.job = "interrupt"]
            g == [co EXCEPT ![p] = s]
<1>0. a \in {"cut", "micStop"} /\ t \in Nat
  BY CoIs
<1>1. s \in Coroutine /\ s.at \in {"cut", "micStop"} /\ s.next = "cut"
  <2>. HIDE DEF a, t
  <2>1. a \in Awaits /\ "cut" \in Resumptions /\ "interrupt" \in Jobs
    BY <1>0, Names DEF Jobs
  <2>. QED
    BY <1>0, <2>1, RestIs DEF Coroutine
<1>2. Apt(p, s)
  BY <1>1, Names, AptAt DEF Onsets
<1>3. co' = [g EXCEPT ![Arm] = Rest]
  BY DEF InterruptSpeech
<1>4. conv' \in Conversation /\ conv'.barge = None
  <2>1. conv' = [c EXCEPT !.interrupt = TRUE, !.armed = FALSE, !.barge = None,
                          !.turn = c.turn + 1, !.accept = FALSE]
    BY DEF InterruptSpeech, Conversation
  <2>2. c.turn + 1 \in Nat
    BY DEF Conversation
  <2>. QED
    BY <2>1, <2>2 DEF Conversation
<1>. HIDE DEF s
<1>5. Leads(g)
  BY <1>2, CoLeads, LeadsOn
<1>. HIDE DEF g
<1>6. Leads(co')
  BY <1>3, <1>5, LeadsOn, RestApt, Apart DEF Unbound
<1>. QED
  BY <1>4, <1>6, CoIs DEF Went

(* _stop_locked: whoever it waits for is a callback on its way out, and    *)
(* everybody else follows.                                                 *)
Stopped(p, r, awaiting) ==
    /\ co' \in [Procs -> Coroutine] /\ queue' \in Seq(Utterances)
    /\ worker' \in Utterances \cup {"idle", "dead"}
    /\ \A q \in Procs \ {p} : Follows(q, co'[q])
    /\ \A q \in CallbackTasks(p) : q \in Utterances \ {p} /\ Doomed(co'[q])
    /\ co'[p] = IF CallbackTasks(p) = {} THEN r
                ELSE [r EXCEPT !.at = awaiting, !.waits = CallbackTasks(p)]
LEMMA StopLockedIs ==
    ASSUME TypeOK, NEW p \in Procs, NEW r \in Coroutine,
           NEW awaiting \in {"gatherStop", "gatherStart"}, StopLocked(p, r, awaiting)
    PROVE  Stopped(p, r, awaiting)
<1>. DEFINE victims == CallbackTasks(p)
            s == IF victims = {} THEN r ELSE [r EXCEPT !.at = awaiting, !.waits = victims]
            x == Cancelling(co, victims)
            d == Dropped(x)
<1>1. victims \subseteq Utterances \ {p} /\ victims \subseteq Procs
      /\ \A q \in victims : co[q].at \notin {"silent", "queued", "done"}
  BY Apart DEF CallbackTasks
<1>2. s \in Coroutine
  BY <1>1, Names DEF Coroutine
<1>3. co' = [d EXCEPT ![p] = s]
  BY DEF StopLocked
<1>4. \A q \in Procs : x[q] = IF q \in victims THEN Cancelled(co[q]) ELSE co[q]
  BY DEF Cancelling
<1>5. \A q \in Procs : d[q] = IF x[q].at = "queued" THEN Rest ELSE x[q]
  BY DEF Dropped
<1>6. d = [q \in Procs |-> d[q]]
  BY DEF Dropped
<1>. HIDE DEF victims, s, x, d
<1>7. ASSUME NEW q \in Procs
      PROVE  Follows(q, d[q]) /\ d[q] \in Coroutine /\ (q \in victims => Doomed(d[q]))
  <2>1. CASE q \in victims
    <3>1. d[q] = Cancelled(co[q])
      BY <1>4, <1>5, <2>1, CancelledApt DEF Apt
    <3>. QED
      BY <1>1, <2>1, <3>1, CancelledApt DEF Apt, Follows, Movable
  <2>2. CASE q \notin victims
    <3>1. d[q] = IF co[q].at = "queued" THEN Rest ELSE co[q]
      BY <1>4, <1>5, <2>2
    <3>. QED
      BY <2>2, <3>1, RestApt, RestIs, CoLeads, CoIs DEF Leads, Follows, Movable
  <2>. QED
    BY <2>1, <2>2
<1>8. co' \in [Procs -> Coroutine] /\ co'[p] = s /\ \A q \in Procs \ {p} : co'[q] = d[q]
  BY <1>2, <1>3, <1>6, <1>7
<1>9. queue' \in Seq(Utterances) /\ worker' \in Utterances \cup {"idle", "dead"}
  BY EmptySeq, TypeOKIs DEF StopLocked, WorkerWithout
<1>. QED
  BY <1>1, <1>7, <1>8, <1>9 DEF Stopped, victims, s

-----------------------------------------------------------------------------
(* The forms in which the actions move one coroutine.                      *)

Stations == (Onsets \cup Resumptions) \ {"decide"}

LEMMA Stationed ==
    /\ Stations \subseteq Awaits /\ Onsets \subseteq Stations
    /\ {"listening", "lastTry", "opens", "spoken", "armPaused", "rearm", "rearmed", "rearmOff",
        "armed", "cut", "greet", "resumed", "listen"} \subseteq Stations
BY Names DEF Stations, Onsets

LEMMA MovedAt ==
    ASSUME NEW q, NEW r \in Coroutine, NEW a \in Stations,
           a \notin {"micStop", "micStart", "connect"}
    PROVE  Apt(q, [r EXCEPT !.at = a])
<1>1. [r EXCEPT !.at = a] \in Coroutine /\ [r EXCEPT !.at = a].at = a
  BY Stationed DEF Coroutine
<1>. QED
  BY <1>1, AptAt DEF Stations

LEMMA MovedTo ==
    ASSUME NEW q, NEW r \in Coroutine, NEW a \in Stations, NEW n \in Resumptions, n # "decide"
    PROVE  Apt(q, [r EXCEPT !.at = a, !.next = n])
<1>1. /\ [r EXCEPT !.at = a, !.next = n] \in Coroutine
      /\ [r EXCEPT !.at = a, !.next = n].at = a
      /\ [r EXCEPT !.at = a, !.next = n].next = n
  BY Stationed DEF Coroutine
<1>. QED
  BY <1>1, AptAt DEF Stations

LEMMA MovedFor ==
    ASSUME NEW q, NEW r \in Coroutine, NEW a \in Stations, NEW n \in Resumptions, n # "decide",
           NEW t \in Nat
    PROVE  Apt(q, [r EXCEPT !.at = a, !.next = n, !.turn = t])
<1>. DEFINE s == [r EXCEPT !.at = a, !.next = n, !.turn = t]
<1>1. s \in Coroutine /\ s.at = a /\ s.next = n
  BY Stationed DEF Coroutine
<1>. QED
  BY <1>1, AptAt DEF Stations

LEMMA AwakeUnbound ==
    ASSUME NEW p, co[p].at \notin {"silent", "done", "unwind", "said"}
    PROVE  Unbound(p)
BY DEF Unbound, Doomed

LEMMA GoesWent ==
    ASSUME TypeOK, NEW p \in Procs, Unbound(p), NEW s, Apt(p, s), Goes(p, s),
           conv' \in Conversation, stale' = stale
    PROVE  Went(conv'.barge)
BY GoesLeads, CoIs DEF Went

LEMMA EndsWent ==
    ASSUME TypeOK, NEW p \in Procs, Unbound(p), Ends(p), conv' \in Conversation, stale' = stale
    PROVE  Went(conv'.barge)
BY EndsLeads, CoIs DEF Went

(* A step that leaves all but conv, co and stale alone.                    *)
LEMMA CalmStep ==
    ASSUME TypeOK, Went(conv'.barge), conv'.barge \in {conv.barge, None},
           UNCHANGED <<mic, queue, worker, says, timeouts, bounds, told>>
    PROVE  Calm
BY CalmWhen, FramedWhen

-----------------------------------------------------------------------------
(* The microphone.  From here to the API, a lemma XCalm says of the action *)
(* X that it is calm: it keeps the types and moves nobody's words.         *)

LEMMA GatheredCalm ==
    ASSUME TypeOK, NEW p \in Procs, Gathered(p)
    PROVE  Calm
<1>1. Unbound(p)
  BY AwakeUnbound DEF Gathered
<1>2. conv' \in Conversation /\ conv' = conv /\ stale' = stale
  BY CoIs DEF Gathered
<1>3. CASE co[p].at = "gatherStop"
  <2>1. Apt(p, Onwards(co[p])) /\ Goes(p, Onwards(co[p]))
    BY <1>3, OnwardsApt, Names DEF Gathered
  <2>2. Went(conv'.barge)
    BY <1>1, <1>2, <2>1, GoesWent
  <2>3. Framed
    BY <1>3, FramedWhen DEF Gathered
  <2>. QED
    BY <1>2, <2>2, <2>3, CalmWhen
<1>4. CASE co[p].at # "gatherStop"
  <2>. DEFINE r == co[p]
              s == [r EXCEPT !.at = "connect", !.waits = {}]
  <2>0. r \in Coroutine /\ "connect" \in Awaits
    BY CoIs, Names
  <2>1. s \in Coroutine /\ s.at = "connect" /\ s.next = co[p].next /\ s.owner = co[p].owner
    <3>. HIDE DEF r
    <3>1. s \in Coroutine /\ s.at = "connect" /\ s.next = r.next /\ s.owner = r.owner
      BY <2>0 DEF Coroutine
    <3>. QED BY <3>1 DEF r
  <2>2. co[p].at = "gatherStart" /\ Goes(p, s) /\ mic' = "connecting"
    BY <1>4 DEF Gathered
  <2>3. Apt(p, s)
    BY <2>1, <2>2, Names DEF Apt, Asked
  <2>4. Went(conv'.barge)
    BY <1>1, <1>2, <2>2, <2>3, GoesWent
  <2>5. Framed
    BY <2>2, TypeOKIs DEF Gathered, Framed, bounds
  <2>. QED
    BY <1>2, <2>4, <2>5, CalmWhen
<1>. QED
  BY <1>3, <1>4

LEMMA ConnectFailsCalm ==
    ASSUME TypeOK, NEW p \in Procs, ConnectFails(p)
    PROVE  Calm
<1>1. Unbound(p)
  BY AwakeUnbound DEF ConnectFails
<1>2. Framed
  BY TypeOKIs DEF ConnectFails, Framed
<1>3. CASE co[p].next = "armed"
  <2>1. Goes(p, IF reuse THEN Rest ELSE [co[p] EXCEPT !.at = "micStop", !.next = "done"])
        /\ conv' = conv /\ stale' = stale
    BY <1>3 DEF ConnectFails
  <2>2. Apt(p, [co[p] EXCEPT !.at = "micStop", !.next = "done"])
    BY MovedTo, CoIs, Stationed, Names DEF Onsets
  <2>. QED
    BY <1>1, <1>2, <2>1, <2>2, RestApt, GoesWent, CalmWhen, CoIs
<1>4. CASE co[p].next = "rearmed"
  <2>1. Goes(p, [co[p] EXCEPT !.at = "micStop", !.next = "rearmOff"])
        /\ conv' = conv /\ stale' = stale
    BY <1>4 DEF ConnectFails
  <2>2. Apt(p, [co[p] EXCEPT !.at = "micStop", !.next = "rearmOff"])
    BY MovedTo, CoIs, Stationed, Names DEF Onsets
  <2>. QED
    BY <1>1, <1>2, <2>1, <2>2, GoesWent, CalmWhen, CoIs
<1>5. CASE co[p].next \notin {"armed", "rearmed"}
  <2>1. Fails(p)
    BY <1>5 DEF ConnectFails
  <2>. QED
    BY <1>1, <1>2, <2>1, Failed, CalmWhen
<1>. QED
  BY <1>3, <1>4, <1>5

LEMMA MicConnectsCalm ==
    ASSUME TypeOK, MicConnects
    PROVE  Calm
<1>1. \A q \in Procs : co'[q] = IF co[q].at = "connect" THEN Onwards(co[q]) ELSE co[q]
  BY DEF MicConnects
<1>2. ASSUME NEW q \in Procs
      PROVE  Follows(q, co'[q]) /\ co'[q] \in Coroutine
  <2>1. CASE co[q].at = "connect"
    <3>1. Apt(q, co'[q]) /\ Unbound(q)
      BY <1>1, <2>1, OnwardsApt, AwakeUnbound, Names
    <3>. QED
      BY <3>1 DEF Follows, Movable, Unbound, Apt
  <2>2. CASE co[q].at # "connect"
    BY <1>1, <2>2, CoLeads, CoIs DEF Leads
  <2>. QED
    BY <2>1, <2>2
<1>3. co' \in [Procs -> Coroutine]
  BY <1>2 DEF MicConnects
<1>4. Went(conv.barge)
  BY <1>2, <1>3, TypeOKIs DEF Went, Leads, MicConnects
<1>5. Framed
  BY TypeOKIs DEF MicConnects, Framed, bounds
<1>. QED
  BY <1>4, <1>5, CalmWhen

LEMMA MicFailsCalm ==
    ASSUME TypeOK, MicFails
    PROVE  Calm
<1>1. Went(conv.barge)
  BY CoLeads, TypeOKIs DEF Went, MicFails, Leads
<1>2. Framed
  BY TypeOKIs DEF MicFails, Framed, bounds
<1>. QED
  BY <1>1, <1>2, CalmWhen

LEMMA InterimCutsCalm ==
    ASSUME TypeOK, InterimCuts
    PROVE  Calm
<1>1. Leads(co')
  BY CoLeads, HushedLeads DEF InterimCuts
<1>2. conv' \in Conversation /\ conv'.barge = conv.barge /\ stale' \in BOOLEAN
  BY CoIs, TypeOKIs DEF InterimCuts, Conversation
<1>3. Framed
  BY TypeOKIs DEF InterimCuts, Framed
<1>. QED
  BY <1>1, <1>2, <1>3, CalmWhen DEF Went

-----------------------------------------------------------------------------
(* The callbacks of finals.                                                *)

LEMMA Delivered ==
    ASSUME TypeOK, NEW u \in Utterances, Delivers(u)
    PROVE  /\ Unbound(u) /\ u \in Procs /\ co[u].at \in {"ready", "queued"}
           /\ ~Doomed(co[u])
           /\ queue' \in Seq(Utterances) /\ worker' \in Utterances \cup {"idle", "dead"}
<1>1. co[u].at \in {"ready", "queued"} /\ u \in Procs
  BY Apart DEF Delivers
<1>2. Unbound(u) /\ ~Doomed(co[u])
  BY <1>1, AwakeUnbound DEF Doomed
<1>3. CASE UNCHANGED <<queue, worker>>
  BY <1>1, <1>2, <1>3, TypeOKIs
<1>4. CASE queue # <<>> /\ queue' = Tail(queue) /\ worker' = u
  BY <1>1, <1>2, <1>4, TypeOKIs
<1>. QED
  BY <1>3, <1>4 DEF Delivers

LEMMA DeliveredCalm ==
    ASSUME TypeOK, NEW u \in Utterances, Delivers(u), Went(conv'.barge),
           conv'.barge \in {conv.barge, None},
           UNCHANGED <<mic, says, timeouts, bounds, told>>
    PROVE  Calm
<1>1. Framed
  BY Delivered, TypeOKIs DEF Framed, bounds
<1>. QED
  BY <1>1, CalmWhen

LEMMA FinalWhilePausedCalm ==
    ASSUME TypeOK, NEW u \in Utterances, FinalWhilePaused(u)
    PROVE  Calm
<1>1. Delivers(u) /\ UNCHANGED <<mic, says, timeouts, bounds, told>> /\ stale' = stale
      /\ conv' = [conv EXCEPT !.accept = FALSE]
  BY DEF FinalWhilePaused
<1>2. Unbound(u) /\ u \in Procs
  BY <1>1, Delivered
<1>3. conv' \in Conversation /\ conv'.barge = conv.barge
  BY <1>1, TypeOKIs DEF Conversation
<1>4. Apt(u, [Rest EXCEPT !.at = "leave"])
      /\ Apt(u, [Rest EXCEPT !.at = "micStop", !.next = "armPaused"])
  BY MovedAt, MovedTo, RestIs, Names, Stationed DEF Onsets
<1>5. Goes(u, Rest) \/ Goes(u, [Rest EXCEPT !.at = "leave"])
      \/ Goes(u, [Rest EXCEPT !.at = "micStop", !.next = "armPaused"])
  BY DEF FinalWhilePaused
<1>6. Went(conv'.barge)
  BY <1>1, <1>2, <1>3, <1>4, <1>5, RestApt, GoesWent
<1>. QED
  BY <1>1, <1>3, <1>6, DeliveredCalm

LEMMA FinalStopsCalm ==
    ASSUME TypeOK, NEW u \in Utterances, FinalStops(u)
    PROVE  Calm
<1>1. Delivers(u) /\ UNCHANGED <<mic, says, timeouts, bounds, told>> /\ stale' = stale
      /\ InterruptSpeech(u, conv)
  BY DEF FinalStops
<1>2. Unbound(u) /\ u \in Procs
  BY <1>1, Delivered
<1>3. Went(None)
  BY <1>1, <1>2, SpeechInterrupted, CoIs
<1>. QED
  BY <1>1, <1>3, DeliveredCalm DEF Went

LEMMA FinalIsEchoCalm ==
    ASSUME TypeOK, NEW u \in Utterances, FinalIsEcho(u)
    PROVE  Calm
<1>1. Delivers(u) /\ UNCHANGED <<mic, says, timeouts, bounds, told>> /\ stale' = stale
  BY DEF FinalIsEcho
<1>2. Unbound(u) /\ u \in Procs
  BY <1>1, Delivered
<1>3. conv' = conv \/ conv' = [conv EXCEPT !.accept = FALSE]
  BY DEF FinalIsEcho
<1>4. conv' \in Conversation /\ conv'.barge = conv.barge
  BY <1>3, TypeOKIs DEF Conversation
<1>5. Ends(u) \/ Goes(u, [Rest EXCEPT !.at = "micStop", !.next = "rearm", !.turn = conv.turn])
  BY DEF FinalIsEcho
<1>6. Apt(u, [Rest EXCEPT !.at = "micStop", !.next = "rearm", !.turn = conv.turn])
  BY MovedFor, RestIs, Names, Stationed, CoIs, <1>2 DEF Onsets
<1>7. Went(conv'.barge)
  BY <1>1, <1>2, <1>4, <1>5, <1>6, EndsWent, GoesWent
<1>. QED
  BY <1>1, <1>4, <1>7, DeliveredCalm

LEMMA FinalIgnoredCalm ==
    ASSUME TypeOK, NEW u \in Utterances, FinalIgnored(u)
    PROVE  Calm
<1>1. Delivers(u) /\ UNCHANGED <<conv, mic, says, timeouts, bounds, told>> /\ stale' = stale
      /\ Ends(u)
  BY DEF FinalIgnored, Unexpected
<1>2. Unbound(u) /\ u \in Procs
  BY <1>1, Delivered
<1>3. Went(conv'.barge)
  BY <1>1, <1>2, EndsWent, CoIs
<1>. QED
  BY <1>1, <1>3, DeliveredCalm

LEMMA FinalDiscardedCalm ==
    ASSUME TypeOK, NEW u \in Utterances, FinalDiscarded(u)
    PROVE  Calm
<1>. DEFINE c == [conv EXCEPT !.accept = FALSE, !.turn = @ + 1]
            r == [Rest EXCEPT !.turn = conv.turn + 1]
            s == [r EXCEPT !.at = "micStop", !.next = "listen"]
<1>1. Delivers(u) /\ UNCHANGED <<mic, says, timeouts, bounds, told>>
  BY DEF FinalDiscarded, Expected
<1>2. Unbound(u) /\ u \in Procs
  BY <1>1, Delivered
<1>3. c \in Conversation /\ c.barge = conv.barge
  <2>1. conv \in Conversation /\ conv.turn + 1 \in Nat
    BY CoIs, <1>2
  <2>. QED
    BY <2>1 DEF Conversation
<1>4. r \in Coroutine
  BY RestIs, CoIs, <1>2 DEF Coroutine
<1>5. Apt(u, s)
  <2>. HIDE DEF r
  <2>. QED
    BY <1>4, MovedTo, Names, Stationed DEF Onsets
<1>6. ResumeListening(co, c, u, r, "listening")
      \/ (conv' = c /\ Goes(u, s) /\ stale' = stale)
  BY DEF FinalDiscarded
<1>. HIDE DEF c, r, s
<1>7. Went(c.barge)
  <2>1. CASE ResumeListening(co, c, u, r, "listening")
    BY <1>2, <1>3, <1>4, <2>1, Resumed, CoLeads
  <2>2. CASE conv' = c /\ Goes(u, s) /\ stale' = stale
    BY <1>2, <1>3, <1>5, <2>2, GoesWent
  <2>. QED
    BY <1>6, <2>1, <2>2
<1>. QED
  BY <1>1, <1>3, <1>7, DeliveredCalm DEF Went

LEMMA DirectEndsCalm ==
    ASSUME TypeOK, NEW u \in Utterances, DirectEnds(u)
    PROVE  Calm
<1>1. Unbound(u) /\ u \in Procs
  BY AwakeUnbound, Apart DEF DirectEnds
<1>2. Went(conv'.barge)
  BY <1>1, EndsWent, CoIs DEF DirectEnds
<1>. QED
  BY <1>2, CalmStep DEF DirectEnds

-----------------------------------------------------------------------------
(* A turn.                                                                 *)

LEMMA TurnBeginsCalm ==
    ASSUME TypeOK, NEW p \in Procs, TurnBegins(p)
    PROVE  Calm
<1>. DEFINE s == [co[p] EXCEPT !.at = "micStop", !.next = "decide"]
<1>1. Unbound(p) /\ co[p].at = "begin"
  BY AwakeUnbound DEF TurnBegins
<1>2. conv' \in Conversation /\ conv'.barge = conv.barge
  BY TypeOKIs DEF TurnBegins, Conversation, States
<1>3. s \in Coroutine /\ s.at = "micStop" /\ s.owner = co[p].owner
  <2>1. co[p] \in Coroutine /\ "micStop" \in Awaits /\ "decide" \in Resumptions
    BY CoIs, Names
  <2>. QED
    BY <2>1 DEF Coroutine
<1>4. Apt(p, s)
  BY <1>1, <1>3 DEF Apt, Asked
<1>5. Went(conv'.barge)
  BY <1>1, <1>2, <1>4, GoesWent DEF TurnBegins
<1>. QED
  BY <1>2, <1>5, CalmStep DEF TurnBegins

LEMMA DecidingUnbound ==
    ASSUME NEW p, Deciding(p)
    PROVE  Unbound(p) /\ Asked(co[p])
BY AwakeUnbound DEF Deciding, Asked

LEMMA PauseConfirmedCalm ==
    ASSUME TypeOK, NEW p \in Procs, PauseConfirmed(p)
    PROVE  Calm
<1>. DEFINE s == [co[p] EXCEPT !.at = "cut", !.job = "pausing"]
<1>1. Unbound(p)
  BY DecidingUnbound DEF PauseConfirmed
<1>2. conv' \in Conversation /\ conv'.barge = conv.barge
  BY TypeOKIs DEF PauseConfirmed, Conversation, States
<1>3. s \in Coroutine /\ s.at = "cut"
  <2>1. co[p] \in Coroutine /\ "cut" \in Awaits /\ "pausing" \in Jobs
    BY CoIs, Names DEF Jobs
  <2>. QED
    BY <2>1 DEF Coroutine
<1>4. Apt(p, s)
  BY <1>3, AptAt, Names
<1>5. Went(conv'.barge)
  BY <1>1, <1>2, <1>4, GoesWent DEF PauseConfirmed
<1>. QED
  BY <1>2, <1>5, CalmStep DEF PauseConfirmed

LEMMA PauseNotConfirmedCalm ==
    ASSUME TypeOK, NEW p \in Procs, PauseNotConfirmed(p)
    PROVE  Calm
<1>. DEFINE c == [conv EXCEPT !.asking = Words(p) \notin {"no", "resume"}]
<1>1. Unbound(p)
  BY DecidingUnbound DEF PauseNotConfirmed
<1>2. c \in Conversation
  BY TypeOKIs DEF Conversation
<1>3. StartSpeaking(co, c, p, co[p], "prompt")
  BY DEF PauseNotConfirmed, Prompts
<1>4. Went(None)
  <2>. HIDE DEF c
  <2>. QED
    BY <1>1, <1>2, <1>3, Started, CoLeads, CoIs DEF Jobs
<1>. QED
  BY <1>4, CalmStep DEF PauseNotConfirmed, Went

LEMMA PauseAskedCalm ==
    ASSUME TypeOK, NEW p \in Procs, PauseAsked(p)
    PROVE  Calm
<1>. DEFINE c == [conv EXCEPT !.asking = Words(p) = "pause"]
<1>1. Unbound(p)
  BY DecidingUnbound DEF PauseAsked
<1>2. c \in Conversation
  BY TypeOKIs DEF Conversation
<1>3. StartSpeaking(co, c, p, co[p], "prompt")
  BY DEF PauseAsked, Prompts
<1>4. Went(None)
  <2>. HIDE DEF c
  <2>. QED
    BY <1>1, <1>2, <1>3, Started, CoLeads, CoIs DEF Jobs
<1>. QED
  BY <1>4, CalmStep DEF PauseAsked, Went

LEMMA AssistantAnswersCalm ==
    ASSUME TypeOK, NEW p \in Procs, AssistantAnswers(p)
    PROVE  Calm
<1>. DEFINE c == [conv EXCEPT !.session = FALSE]
            s == [co[p] EXCEPT !.at = "executing"]
<1>1. Unbound(p)
  BY AwakeUnbound DEF AssistantAnswers
<1>2. c \in Conversation /\ c.barge = conv.barge
  BY TypeOKIs DEF Conversation
<1>3. Apt(p, s)
  BY MovedAt, CoIs, Stationed DEF Onsets
<1>4. \/ ResumeListening(co, conv, p, co[p], "listening")
      \/ StartSpeaking(co, conv, p, co[p], "reply")
      \/ StartSpeaking(co, c, p, co[p], "reply")
      \/ (Goes(p, s) /\ UNCHANGED <<conv, stale>>)
      \/ TurnOver(co, conv, p)
  BY DEF AssistantAnswers
<1>. HIDE DEF c, s
<1>5. Went(conv.barge) \/ Went(None)
  <2>1. CASE ResumeListening(co, conv, p, co[p], "listening")
    BY <1>1, <2>1, Resumed, CoLeads, CoIs
  <2>2. CASE StartSpeaking(co, conv, p, co[p], "reply")
    BY <1>1, <2>2, Started, CoLeads, CoIs DEF Jobs
  <2>3. CASE StartSpeaking(co, c, p, co[p], "reply")
    BY <1>1, <1>2, <2>3, Started, CoLeads, CoIs DEF Jobs
  <2>4. CASE Goes(p, s) /\ UNCHANGED <<conv, stale>>
    BY <1>1, <1>3, <2>4, GoesWent, CoIs
  <2>5. CASE TurnOver(co, conv, p)
    BY <1>1, <2>5, TurnedOver, CoLeads, CoIs
  <2>. QED
    BY <1>4, <2>1, <2>2, <2>3, <2>4, <2>5
<1>. QED
  BY <1>5, CalmStep DEF AssistantAnswers, Went

LEMMA AssistantFailsCalm ==
    ASSUME TypeOK, NEW p \in Procs, AssistantFails(p)
    PROVE  Calm
<1>1. Unbound(p) /\ Fails(p)
  BY AwakeUnbound DEF AssistantFails
<1>2. Framed
  BY TypeOKIs DEF AssistantFails, Framed
<1>. QED
  BY <1>1, <1>2, Failed, CalmWhen

LEMMA ExecutionCompletesCalm ==
    ASSUME TypeOK, NEW p \in Procs, ExecutionCompletes(p)
    PROVE  Calm
<1>1. Unbound(p)
  BY AwakeUnbound DEF ExecutionCompletes
<1>2. \/ ResumeListening(co, conv, p, co[p], "listening")
      \/ StartSpeaking(co, conv, p, co[p], "reply")
  BY DEF ExecutionCompletes
<1>3. Went(conv.barge) \/ Went(None)
  BY <1>1, <1>2, Resumed, Started, CoLeads, CoIs DEF Jobs
<1>. QED
  BY <1>3, CalmStep DEF ExecutionCompletes, Went

(* A coroutine on its way out may only go further out.                     *)
LEMMA LeadsOut ==
    ASSUME NEW procs, Leads(procs), NEW p \in Procs, NEW s, Apt(p, s), Doomed(s),
           co[p].at # "silent"
    PROVE  Leads([procs EXCEPT ![p] = s])
<1>1. Follows(p, s) /\ s \in Coroutine
  BY DEF Follows, Movable, Apt
<1>. QED
  BY <1>1 DEF Leads

LEMMA UnwindsCalm ==
    ASSUME TypeOK, NEW p \in Procs, Unwinds(p)
    PROVE  Calm
<1>1. co[p].at = "unwind"
  BY DEF Unwinds
<1>2. conv' \in Conversation /\ conv'.barge = conv.barge
  BY SilencedIs, CoIs DEF Unwinds
<1>3. Leads(co')
  <2>1. CASE p = Watch
    <3>1. Goes(p, [Rest EXCEPT !.at = "dead"])
      BY <2>1 DEF Unwinds
    <3>. QED
      BY <2>1, <3>1, GoesLeads, MovedAt, RestIs, Stationed, Apart DEF Onsets, Unbound
  <2>2. CASE p # Watch
    <3>1. Goes(p, Rest)
      BY <2>2 DEF Unwinds
    <3>. QED
      BY <1>1, <3>1, LeadsOut, CoLeads, RestIs, RestApt DEF Goes
  <2>. QED
    BY <2>1, <2>2
<1>4. Went(conv'.barge)
  BY <1>2, <1>3, CoIs DEF Went, Unwinds
<1>. QED
  BY <1>2, <1>4, CalmStep DEF Unwinds

-----------------------------------------------------------------------------
(* Speech.                                                                 *)

LEMMA SpeechPreparedCalm ==
    ASSUME TypeOK, NEW p \in Procs, SpeechPrepared(p)
    PROVE  Calm
<1>. DEFINE s == co[p]
<1>1. Unbound(p)
  BY AwakeUnbound DEF SpeechPrepared
<1>2. conv' \in Conversation /\ conv'.barge = conv.barge
  BY TypeOKIs DEF SpeechPrepared, Conversation
<1>3. [co EXCEPT ![p] = s] = co
  BY TypeOKIs
<1>4. Leads(SpeechOpens([co EXCEPT ![p] = s], p))
  BY <1>1, SpeechOpened, CoIs, CoLeads
<1>5. Leads(co')
  BY <1>3, <1>4 DEF SpeechPrepared
<1>6. Went(conv'.barge)
  BY <1>2, <1>5, CoIs DEF Went, SpeechPrepared
<1>. QED
  BY <1>2, <1>6, CalmStep DEF SpeechPrepared

LEMMA SpeechStartsCalm ==
    ASSUME TypeOK, NEW p \in Procs, SpeechStarts(p)
    PROVE  Calm
<1>1. Unbound(p)
  BY AwakeUnbound DEF SpeechStarts
<1>2. Apt(p, [co[p] EXCEPT !.at = "saying"])
  BY MovedAt, CoIs, Stationed DEF Onsets
<1>3. Went(conv'.barge)
  BY <1>1, <1>2, GoesWent, CoIs DEF SpeechStarts
<1>. QED
  BY <1>3, CalmStep DEF SpeechStarts

LEMMA SpeechEndsCalm ==
    ASSUME TypeOK, NEW p \in Procs, SpeechEnds(p)
    PROVE  Calm
<1>1. Unbound(p)
  BY AwakeUnbound DEF SpeechEnds
<1>2. Apt(p, [co[p] EXCEPT !.at = "said"])
  BY MovedAt, CoIs, Stationed DEF Onsets
<1>3. Went(conv'.barge)
  BY <1>1, <1>2, GoesWent, CoIs DEF SpeechEnds
<1>. QED
  BY <1>3, CalmStep DEF SpeechEnds

(* The task that arms barge-in is done whenever speech is cleaned up.      *)
LEMMA ArmRests ==
    ASSUME TypeOK
    PROVE  Leads([co EXCEPT ![Arm] = Rest])
BY LeadsOn, CoLeads, RestApt, Apart DEF Unbound

LEMMA SpeechClosesCalm ==
    ASSUME TypeOK, NEW p \in Procs, SpeechCloses(p)
    PROVE  Calm
<1>. DEFINE g == [co EXCEPT ![Arm] = Rest]
            s == [g[p] EXCEPT !.at = "micStop", !.next = "spoken"]
<1>1. Unbound(p)
  BY DEF SpeechCloses, MustClose, Unbound
<1>2. conv' \in Conversation /\ conv'.barge = conv.barge
  BY TypeOKIs DEF SpeechCloses, Conversation
<1>3. co' = [g EXCEPT ![p] = s]
  BY TypeOKIs DEF SpeechCloses
<1>4. Leads(g) /\ g[p] \in Coroutine
  BY ArmRests DEF Leads
<1>5. Apt(p, s)
  <2>. HIDE DEF g
  <2>. QED
    BY <1>4, MovedTo, Names, Stationed DEF Onsets
<1>. HIDE DEF g, s
<1>6. Leads(co')
  BY <1>1, <1>3, <1>4, <1>5, LeadsOn
<1>7. Went(conv'.barge)
  BY <1>2, <1>6, CoIs DEF Went, SpeechCloses
<1>. QED
  BY <1>2, <1>7, CalmStep DEF SpeechCloses

LEMMA ReuseIs ==
    ASSUME TypeOK
    PROVE  reuse \in BOOLEAN
<1>1. scene \in Scene
  BY TypeOKIs, ConversationAssumption
<1>. QED
  BY <1>1 DEF Scene, reuse

LEMMA SpokenIs ==
    ASSUME TypeOK, NEW p \in Procs, Spoken(p)
    PROVE  /\ Leads(Cleaned(p)) /\ Cleaned(p)[p] \in Coroutine
           /\ AfterSpeech(p) \in Conversation /\ AfterSpeech(p).barge = conv.barge
           /\ AfterSpeech(p).turn = conv.turn
           /\ co[p].at # "silent" /\ (~co[p].dying => Unbound(p))
<1>1. co[p].at \in {"said", "spoken"}
  BY DEF Spoken
<1>2. Leads(Cleaned(p))
  BY ArmRests, CoLeads DEF Cleaned
<1>. DEFINE a == IF co[p].at = "said" THEN FALSE ELSE conv.armed
<1>3. a \in BOOLEAN /\ reuse \in BOOLEAN
  BY ReuseIs, TypeOKIs DEF Conversation
<1>4. AfterSpeech(p) = [conv EXCEPT !.accept = reuse, !.armed = a]
  BY TypeOKIs DEF AfterSpeech, Conversation
<1>5. AfterSpeech(p) \in Conversation /\ AfterSpeech(p).barge = conv.barge
      /\ AfterSpeech(p).turn = conv.turn
  <2>. HIDE DEF a
  <2>. QED
    BY <1>3, <1>4, TypeOKIs DEF Conversation
<1>. QED
  BY <1>1, <1>2, <1>5 DEF Unbound, Doomed, Leads

LEMMA SpokenCancelledCalm ==
    ASSUME TypeOK, NEW p \in Procs, SpokenCancelled(p)
    PROVE  Calm
<1>. DEFINE g == Cleaned(p)
            s == [g[p] EXCEPT !.at = "unwind", !.dying = FALSE]
<1>1. Spoken(p) /\ conv' = AfterSpeech(p) /\ stale' = stale
  BY DEF SpokenCancelled
<1>2. co' = [g EXCEPT ![p] = s]
  BY TypeOKIs DEF SpokenCancelled, Cleaned
<1>3. Leads(g) /\ g[p] \in Coroutine /\ co[p].at # "silent"
  BY <1>1, SpokenIs
<1>4. s \in Coroutine /\ s.at = "unwind"
  <2>. HIDE DEF g
  <2>. QED
    BY <1>3, Names DEF Coroutine
<1>. HIDE DEF g, s
<1>5. Apt(p, s) /\ Doomed(s)
  BY <1>4, AptAt DEF Onsets, Doomed
<1>6. Leads(co')
  BY <1>2, <1>3, <1>5, LeadsOut
<1>7. Went(conv.barge)
  BY <1>1, <1>6, SpokenIs, CoIs DEF Went
<1>. QED
  BY <1>7, CalmStep DEF SpokenCancelled, Spoken, Went

LEMMA SpokenOutCalm ==
    ASSUME TypeOK, NEW p \in Procs, SpokenOut(p)
    PROVE  Calm
<1>. DEFINE c == AfterSpeech(p)
            g == Cleaned(p)
            z == [c EXCEPT !.state = "idle", !.active = FALSE]
<1>1. Spoken(p) /\ ~co[p].dying
  BY DEF SpokenOut
<1>2. Leads(g) /\ c \in Conversation /\ c.barge = conv.barge /\ Unbound(p)
  BY <1>1, SpokenIs
<1>3. \/ TurnOver(g, c, p)
      \/ (conv' = z /\ co' = [g EXCEPT ![p] = Rest] /\ stale' = stale)
      \/ ResumeListening(g, c, p, co[p], "listening")
  BY DEF SpokenOut
<1>4. z \in Conversation /\ z.barge = c.barge
  <2>. HIDE DEF c
  <2>. QED
    BY <1>2 DEF Conversation, States
<1>. HIDE DEF c, g, z
<1>5. Went(c.barge)
  <2>1. CASE TurnOver(g, c, p)
    BY <1>2, <2>1, TurnedOver
  <2>2. CASE conv' = z /\ co' = [g EXCEPT ![p] = Rest] /\ stale' = stale
    BY <1>2, <1>4, <2>2, LeadsOn, RestApt, CoIs DEF Went
  <2>3. CASE ResumeListening(g, c, p, co[p], "listening")
    BY <1>2, <2>3, Resumed, CoIs
  <2>. QED
    BY <1>3, <2>1, <2>2, <2>3
<1>. QED
  BY <1>1, <1>2, <1>5, CalmStep DEF Spoken, Went

LEMMA SpokenPauseCalm ==
    ASSUME TypeOK, NEW p \in Procs, SpokenPause(p)
    PROVE  Calm
<1>. DEFINE a == AfterSpeech(p)
            c == [a EXCEPT !.barge = None]
            g == Cleaned(p)
            z == [c EXCEPT !.state = "paused", !.active = TRUE, !.accept = TRUE, !.until = TRUE]
            r == g[p]
            s == [r EXCEPT !.at = "armPaused", !.job = "none"]
<1>1. Spoken(p) /\ ~co[p].dying
  BY DEF SpokenPause
<1>2. Leads(g) /\ a \in Conversation /\ Unbound(p) /\ r \in Coroutine
  BY <1>1, SpokenIs
<1>3. c \in Conversation /\ c.barge = None
  <2>. HIDE DEF a
  <2>. QED
    BY <1>2 DEF Conversation
<1>4. z \in Conversation /\ z.barge = None
  <2>. HIDE DEF c
  <2>. QED
    BY <1>3 DEF Conversation, States
<1>5. s \in Coroutine /\ s.at = "armPaused"
  <2>1. "armPaused" \in Awaits /\ "none" \in Jobs
    BY Names DEF Jobs
  <2>. HIDE DEF r
  <2>. QED
    BY <1>2, <2>1 DEF Coroutine
<1>6. \/ (conv' = c /\ co' = [g EXCEPT ![p] = Rest] /\ stale' = (stale \/ ~conv.blocked))
      \/ ResumeListening(g, c, p, co[p], "listening")
      \/ (conv' = z /\ co' = [g EXCEPT ![p] = s] /\ stale' = stale)
  BY DEF SpokenPause
<1>. HIDE DEF c, g, z, s
<1>7. Apt(p, s)
  BY <1>5, AptAt, Names
<1>8. Went(None)
  <2>1. CASE conv' = c /\ co' = [g EXCEPT ![p] = Rest] /\ stale' = (stale \/ ~conv.blocked)
    BY <1>2, <1>3, <2>1, LeadsOn, RestApt, CoIs DEF Went
  <2>2. CASE ResumeListening(g, c, p, co[p], "listening")
    BY <1>2, <1>3, <2>2, Resumed, CoIs
  <2>3. CASE conv' = z /\ co' = [g EXCEPT ![p] = s] /\ stale' = stale
    BY <1>2, <1>4, <1>7, <2>3, LeadsOn, CoIs DEF Went
  <2>. QED
    BY <1>6, <2>1, <2>2, <2>3
<1>. QED
  BY <1>1, <1>8, CalmStep DEF Spoken, Went

(* Barge-in: the owner of the speech is told that a microphone was opened. *)
LEMMA OpenedLeads ==
    ASSUME NEW g, Leads(g), NEW o, NEW v \in BOOLEAN
    PROVE  Leads([g EXCEPT ![o] = [g[o] EXCEPT !.opened = v]])
<1>. DEFINE s == [g[o] EXCEPT !.opened = v]
            h == [g EXCEPT ![o] = s]
<1>1. g \in [Procs -> Coroutine]
  BY DEF Leads
<1>2. CASE o \in Procs
  <2>1. s \in Coroutine /\ s.at = g[o].at /\ s.next = g[o].next /\ s.owner = g[o].owner
        /\ s.waits = g[o].waits /\ s.dying = g[o].dying
    <3>. DEFINE r == g[o]
    <3>1. r \in Coroutine
      BY <1>1, <1>2
    <3>. QED
      BY <3>1 DEF Coroutine
  <2>2. Follows(o, g[o])
    BY <1>2 DEF Leads
  <2>3. Follows(o, s)
    <3>. HIDE DEF s
    <3>. QED
      BY <2>1, <2>2 DEF Follows, Alike, Apt, Movable, Asked, Doomed
  <2>4. h \in [Procs -> Coroutine] /\ \A q \in Procs : h[q] = IF q = o THEN s ELSE g[q]
    <3>. HIDE DEF s
    <3>. QED
      BY <1>1, <2>1
  <2>. HIDE DEF h, s
  <2>5. Leads(h)
    BY <2>3, <2>4 DEF Leads
  <2>. QED
    BY <2>5 DEF h, s
<1>3. CASE o \notin Procs
  <2>1. h = g
    BY <1>1, <1>3
  <2>. QED
    BY <2>1
<1>. QED
  BY <1>2, <1>3

LEMMA ArmWakesCalm ==
    ASSUME TypeOK, ArmWakes
    PROVE  Calm
<1>. DEFINE s == [co[Arm] EXCEPT !.at = "micStart", !.next = "armed"]
            g == [co EXCEPT ![Arm] = s]
            o == co[Arm].owner
            h == [g EXCEPT ![o] = [g[o] EXCEPT !.opened = ~reuse]]
<1>1. Unbound(Arm) /\ Arm \in Procs
  BY Apart DEF Unbound
<1>2. Apt(Arm, s)
  BY <1>1, MovedTo, CoIs, Names, Stationed DEF Onsets
<1>3. Ends(Arm) \/ co' = h
  BY DEF ArmWakes
<1>. HIDE DEF s
<1>4. Leads(g)
  BY <1>1, <1>2, LeadsOn, CoLeads
<1>5. Leads(h)
  <2>1. (~reuse) \in BOOLEAN
    BY ReuseIs, Zenon
  <2>. HIDE DEF g, o
  <2>. QED
    BY <1>4, <2>1, OpenedLeads
<1>. HIDE DEF h
<1>6. Leads(co')
  BY <1>1, <1>3, <1>5, EndsLeads
<1>7. Went(conv.barge)
  BY <1>1, <1>6, CoIs DEF Went, ArmWakes
<1>. QED
  BY <1>7, CalmStep DEF ArmWakes

LEMMA ArmReadyCalm ==
    ASSUME TypeOK, ArmReady
    PROVE  Calm
<1>. DEFINE i == conv.interrupt \/ conv.barge # None
            c == [conv EXCEPT !.armed = TRUE, !.accept = TRUE, !.interrupt = i]
            g == IF conv.barge # None THEN Hushed(co) ELSE co
<1>1. Unbound(Arm) /\ Arm \in Procs
  BY Apart DEF Unbound
<1>2. (Ends(Arm) /\ conv' = conv) \/ (conv' = c /\ co' = [g EXCEPT ![Arm] = Rest])
  BY TypeOKIs DEF ArmReady, Conversation
<1>3. c \in Conversation /\ c.barge = conv.barge
  <2>. HIDE DEF i
  <2>1. i \in BOOLEAN
    BY DEF i
  <2>. QED
    BY <2>1, TypeOKIs DEF Conversation
<1>4. Leads(g)
  BY CoLeads, HushedLeads
<1>. HIDE DEF c, g
<1>5. Leads(co')
  BY <1>1, <1>2, <1>4, LeadsOn, RestApt, EndsLeads
<1>6. Went(conv.barge)
  BY <1>1, <1>2, <1>3, <1>5, CoIs DEF Went, ArmReady
<1>. QED
  BY <1>6, CalmStep DEF ArmReady, Went

LEMMA RearmsCalm ==
    ASSUME TypeOK, NEW p \in Procs, Rearms(p)
    PROVE  Calm
<1>1. Unbound(p)
  BY AwakeUnbound DEF Rearms
<1>2. Apt(p, [co[p] EXCEPT !.at = "micStart", !.next = "rearmed"])
  BY MovedTo, CoIs, Names, Stationed DEF Onsets
<1>3. Goes(p, Rest) \/ Goes(p, [co[p] EXCEPT !.at = "micStart", !.next = "rearmed"])
  BY DEF Rearms
<1>4. Went(conv'.barge)
  BY <1>1, <1>2, <1>3, RestApt, GoesWent, CoIs DEF Rearms
<1>. QED
  BY <1>4, CalmStep DEF Rearms

LEMMA RearmedCalm ==
    ASSUME TypeOK, NEW p \in Procs, Rearmed(p)
    PROVE  Calm
<1>1. Unbound(p)
  BY AwakeUnbound DEF Rearmed
<1>2. \/ conv' = [conv EXCEPT !.armed = FALSE, !.accept = FALSE]
      \/ conv' = [conv EXCEPT !.accept = TRUE]
      \/ conv' = conv
  BY DEF Rearmed
<1>3. conv' \in Conversation /\ conv'.barge = conv.barge
  BY <1>2, TypeOKIs DEF Conversation
<1>4. Went(conv'.barge)
  BY <1>1, <1>3, EndsWent DEF Rearmed
<1>. QED
  BY <1>3, <1>4, CalmStep DEF Rearmed

LEMMA RelistensCalm ==
    ASSUME TypeOK, NEW p \in Procs, Relistens(p)
    PROVE  Calm
<1>1. Unbound(p)
  BY AwakeUnbound DEF Relistens
<1>2. Went(conv.barge)
  BY <1>1, Resumed, CoLeads, CoIs DEF Relistens
<1>. QED
  BY <1>2, CalmStep DEF Relistens, Went

-----------------------------------------------------------------------------
(* A pause.                                                                *)

LEMMA ArmsPausedCalm ==
    ASSUME TypeOK, NEW p \in Procs, ArmsPaused(p)
    PROVE  Calm
<1>1. Unbound(p)
  BY AwakeUnbound DEF ArmsPaused
<1>2. \/ Ends(p) /\ conv' = conv
      \/ /\ conv' = [conv EXCEPT !.accept = TRUE, !.active = TRUE]
         /\ Goes(p, [co[p] EXCEPT !.at = "micStart", !.next = "done"])
  BY DEF ArmsPaused
<1>3. conv' \in Conversation /\ conv'.barge = conv.barge
  BY <1>2, TypeOKIs DEF Conversation
<1>4. Apt(p, [co[p] EXCEPT !.at = "micStart", !.next = "done"])
  BY MovedTo, CoIs, Names, Stationed DEF Onsets
<1>5. Went(conv'.barge)
  BY <1>1, <1>2, <1>3, <1>4, GoesWent, EndsWent DEF ArmsPaused
<1>. QED
  BY <1>3, <1>5, CalmStep DEF ArmsPaused

LEMMA TimerFiresCalm ==
    ASSUME TypeOK, TimerFires
    PROVE  Calm
<1>1. Unbound(Timer) /\ Timer \in Procs
  BY Apart DEF Unbound
<1>2. Apt(Timer, [Rest EXCEPT !.at = "leave"])
  BY MovedAt, RestIs, Stationed DEF Onsets
<1>3. Went(conv'.barge)
  BY <1>1, <1>2, GoesWent, CoIs DEF TimerFires
<1>. QED
  BY <1>3, CalmStep DEF TimerFires

LEMMA TimerCancelledLeads ==
    ASSUME TypeOK
    PROVE  Leads(TimerCancelled(co))
<1>1. Unbound(Timer) /\ Timer \in Procs
  BY Apart DEF Unbound
<1>2. TimerCancelled(co) = [co EXCEPT ![Timer] = Rest] \/ TimerCancelled(co) = co
  BY TypeOKIs DEF TimerCancelled
<1>3. Leads([co EXCEPT ![Timer] = Rest])
  BY <1>1, LeadsOn, CoLeads, RestApt
<1>. QED
  BY <1>2, <1>3, CoLeads

LEMMA LeavesCalm ==
    ASSUME TypeOK, NEW p \in Procs, Leaves(p)
    PROVE  Calm
<1>. DEFINE r0 == co[p]
            t == conv.turn + 1
            r == [r0 EXCEPT !.turn = t, !.holds = TRUE, !.job = "resumed"]
            c == [conv EXCEPT !.until = FALSE, !.accept = FALSE, !.turn = t]
            g == TimerCancelled(co)
            s == [r EXCEPT !.at = "micStop", !.next = "resumed"]
<1>1. Unbound(p) /\ t \in Nat
  BY AwakeUnbound, CoIs DEF Leaves
<1>2. c \in Conversation /\ c.barge = conv.barge
  <2>. HIDE DEF t
  <2>. QED
    BY <1>1, TypeOKIs DEF Conversation
<1>3. r \in Coroutine
  <2>1. r0 \in Coroutine /\ "resumed" \in Jobs
    BY CoIs DEF Jobs
  <2>. HIDE DEF r0, t
  <2>. QED
    BY <1>1, <2>1 DEF Coroutine
<1>4. Apt(p, s)
  <2>. HIDE DEF r
  <2>. QED
    BY <1>3, MovedTo, Names, Stationed DEF Onsets
<1>5. Leads(g)
  BY TimerCancelledLeads
<1>6. \/ (Ends(p) /\ UNCHANGED <<conv, stale>>)
      \/ StartSpeaking(g, c, p, r, "resumed")
      \/ (conv' = c /\ co' = [g EXCEPT ![p] = s] /\ stale' = stale)
  BY TypeOKIs DEF Leaves, Conversation
<1>. HIDE DEF r, c, g, s
<1>7. Went(conv.barge) \/ Went(None)
  <2>1. CASE Ends(p) /\ UNCHANGED <<conv, stale>>
    BY <1>1, <2>1, EndsWent, CoIs
  <2>2. CASE StartSpeaking(g, c, p, r, "resumed")
    BY <1>1, <1>2, <1>3, <1>5, <2>2, Started DEF Jobs
  <2>3. CASE conv' = c /\ co' = [g EXCEPT ![p] = s] /\ stale' = stale
    BY <1>1, <1>2, <1>4, <1>5, <2>3, LeadsOn, CoIs DEF Went
  <2>. QED
    BY <1>6, <2>1, <2>2, <2>3
<1>. QED
  BY <1>7, CalmStep DEF Leaves, Went

LEMMA ResumesCalm ==
    ASSUME TypeOK, NEW p \in Procs, Resumes(p)
    PROVE  Calm
<1>1. Unbound(p)
  BY AwakeUnbound DEF Resumes
<1>2. Went(None)
  BY <1>1, Started, CoLeads, CoIs DEF Resumes, Jobs
<1>. QED
  BY <1>2, CalmStep DEF Resumes, Went

-----------------------------------------------------------------------------
(* Silence.                                                                *)

LEMMA CutsCalm ==
    ASSUME TypeOK, NEW p \in Procs, Cuts(p)
    PROVE  Calm
<1>1. PICK running \in SUBSET Executing :
         LET procs == [q \in Procs |-> IF q \in running
                        THEN [co[q] EXCEPT !.at = "unanswered"] ELSE co[q]]
         IN  co' = [Hushed(Cancelling(procs, Planning(p))) EXCEPT ![p] =
                     [@ EXCEPT !.at = "cutting", !.waits = Planning(p)]]
  BY DEF Cuts
<1>. DEFINE procs == [q \in Procs |-> IF q \in running
                        THEN [co[q] EXCEPT !.at = "unanswered"] ELSE co[q]]
            x == Cancelling(procs, Planning(p))
            h == Hushed(x)
            r == h[p]
            s == [r EXCEPT !.at = "cutting", !.waits = Planning(p)]
<1>2. co' = [h EXCEPT ![p] = s]
  BY <1>1
<1>3. \A q \in Procs : x[q] = IF q \in Planning(p) THEN Cancelled(procs[q]) ELSE procs[q]
  BY DEF Cancelling
<1>4. x = [q \in Procs |-> x[q]]
  BY DEF Cancelling
<1>5. ASSUME NEW q \in Procs
      PROVE  Follows(q, x[q]) /\ x[q] \in Coroutine
  <2>1. CASE q \in Planning(p)
    <3>1. q \notin running /\ co[q].at \in {"thinking", "direct"}
      BY <2>1 DEF Executing, Planning
    <3>2. x[q] = Cancelled(co[q])
      BY <1>3, <2>1, <3>1
    <3>. QED
      BY <3>1, <3>2, CancelledApt DEF Follows, Movable, Apt
  <2>2. CASE q \in running
    <3>1. q \notin Planning(p) /\ co[q].at = "executing"
      BY <2>2 DEF Executing, Planning
    <3>2. x[q] = [co[q] EXCEPT !.at = "unanswered"]
      BY <1>3, <2>2, <3>1
    <3>3. Apt(q, x[q]) /\ Unbound(q)
      BY <3>1, <3>2, MovedAt, CoIs, Stationed, AwakeUnbound DEF Onsets
    <3>. QED
      BY <3>3 DEF Follows, Movable, Apt, Unbound
  <2>3. CASE q \notin Planning(p) /\ q \notin running
    <3>1. x[q] = co[q]
      BY <1>3, <2>3
    <3>. QED
      BY <3>1, CoLeads, CoIs DEF Leads
  <2>. QED
    BY <2>1, <2>2, <2>3
<1>. HIDE DEF procs, x
<1>6. Leads(x)
  BY <1>4, <1>5 DEF Leads
<1>7. Leads(h)
  BY <1>6, HushedLeads
<1>. HIDE DEF h
<1>8. r \in Coroutine
  BY <1>7 DEF Leads
<1>9. Unbound(p) /\ Planning(p) \in SUBSET Procs
  BY AwakeUnbound DEF Cuts, Planning
<1>. HIDE DEF r
<1>10. s \in Coroutine /\ s.at = "cutting"
  BY <1>8, <1>9, Names DEF Coroutine
<1>. HIDE DEF s
<1>11. Apt(p, s)
  BY <1>10, AptAt DEF Onsets
<1>12. Leads(co')
  BY <1>2, <1>7, <1>9, <1>11, LeadsOn
<1>13. Went(conv.barge)
  BY <1>12, CoIs DEF Went, Cuts
<1>14. worker' \in Utterances \cup {"idle", "dead"}
  BY TypeOKIs DEF Cuts, WorkerWithout
<1>15. Framed
  BY <1>14, TypeOKIs DEF Cuts, Framed, bounds
<1>. QED
  BY <1>13, <1>15, CalmWhen

LEMMA HasCutUnbound ==
    ASSUME NEW p, NEW job, HasCut(p, job)
    PROVE  Unbound(p)
BY AwakeUnbound DEF HasCut

LEMMA InterruptSpeechListensCalm ==
    ASSUME TypeOK, NEW p \in Procs, InterruptSpeechListens(p)
    PROVE  Calm
<1>. DEFINE c == [conv EXCEPT !.session = TRUE]
            r0 == co[p]
            r == [r0 EXCEPT !.job = "none", !.waits = {}]
<1>1. Unbound(p) /\ HasCut(p, "interrupt") /\ ResumeListening(co, c, p, r, "listening")
  BY HasCutUnbound DEF InterruptSpeechListens
<1>2. c \in Conversation /\ c.barge = conv.barge
  BY TypeOKIs DEF Conversation
<1>3. r \in Coroutine
  <2>1. r0 \in Coroutine /\ "none" \in Jobs
    BY CoIs DEF Jobs
  <2>. HIDE DEF r0
  <2>. QED
    BY <2>1 DEF Coroutine
<1>. HIDE DEF c, r
<1>4. Went(c.barge)
  BY <1>1, <1>2, <1>3, Resumed, CoLeads
<1>. QED
  BY <1>1, <1>2, <1>4, CalmStep DEF HasCut, Went

LEMMA HardStopEndsCalm ==
    ASSUME TypeOK, NEW p \in Procs, HardStopEnds(p)
    PROVE  Calm
<1>1. Unbound(p) /\ HasCut(p, "stopping")
  BY HasCutUnbound DEF HardStopEnds
<1>2. conv' \in Conversation /\ conv'.barge = conv.barge
  BY TypeOKIs DEF HardStopEnds, Conversation, States
<1>3. Went(conv'.barge)
  BY <1>1, <1>2, EndsWent DEF HardStopEnds
<1>. QED
  BY <1>1, <1>2, <1>3, CalmStep DEF HasCut

LEMMA EntersPauseCalm ==
    ASSUME TypeOK, NEW p \in Procs, EntersPause(p)
    PROVE  Calm
<1>. DEFINE c == [conv EXCEPT !.accept = FALSE, !.interrupt = FALSE]
            r0 == co[p]
            r == [r0 EXCEPT !.waits = {}]
<1>1. Unbound(p) /\ HasCut(p, "pausing") /\ StartSpeaking(co, c, p, r, "pauseAck")
  BY HasCutUnbound DEF EntersPause
<1>2. c \in Conversation
  BY TypeOKIs DEF Conversation
<1>3. r \in Coroutine
  <2>1. r0 \in Coroutine
    BY CoIs
  <2>. HIDE DEF r0
  <2>. QED
    BY <2>1 DEF Coroutine
<1>. HIDE DEF c, r
<1>4. Went(None)
  BY <1>1, <1>2, <1>3, Started, CoLeads DEF Jobs
<1>. QED
  BY <1>1, <1>4, CalmStep DEF HasCut, Went

-----------------------------------------------------------------------------
(* The API and the watcher.                                                *)

LEMMA CallUnbound ==
    ASSUME NEW c \in Calls
    PROVE  Unbound(c) /\ c \in Procs
BY Apart DEF Unbound

LEMMA UnblockedIs ==
    ASSUME TypeOK
    PROVE  /\ Unblocked \in Conversation /\ Unblocked.barge = conv.barge
           /\ Unblocked.turn = conv.turn
BY TypeOKIs DEF Unblocked, Conversation

LEMMA CallStartCalm ==
    ASSUME TypeOK, NEW p \in Calls, CallStart(p)
    PROVE  Calm
<1>. DEFINE t == conv.turn + 1
            b == Unblocked
            c == [b EXCEPT !.active = TRUE, !.accept = FALSE, !.turn = t]
            a == IF reuse THEN "micStart" ELSE "micStop"
            s == [Rest EXCEPT !.at = a, !.next = "greet", !.turn = t, !.job = "greeting"]
<1>1. Unbound(p) /\ p \in Procs
  BY CallUnbound
<1>2. b \in Conversation /\ b.barge = conv.barge /\ t \in Nat /\ b.turn = conv.turn
  BY <1>1, UnblockedIs, CoIs
<1>3. c \in Conversation /\ c.barge = conv.barge
  <2>. HIDE DEF b, t
  <2>. QED
    BY <1>2 DEF Conversation
<1>4. s \in Coroutine /\ s.at = a /\ s.next = "greet"
  <2>1. a \in Awaits /\ "greet" \in Resumptions /\ "greeting" \in Jobs
    BY Names DEF Jobs
  <2>. HIDE DEF a, t
  <2>. QED
    BY <1>2, <2>1, RestIs DEF Coroutine
<1>5. a \in Onsets
  BY DEF Onsets
<1>6. \/ conv' = b /\ Ends(p)
      \/ conv' = c /\ Goes(p, s)
  <2>1. CASE conv.state # "idle" \/ conv.active
    BY <2>1 DEF CallStart
  <2>2. CASE ~(conv.state # "idle" \/ conv.active)
    <3>1. conv' = [b EXCEPT !.active = TRUE, !.accept = FALSE, !.turn = b.turn + 1]
      BY <2>2, UnblockedIs DEF CallStart, Conversation
    <3>2. Goes(p, s)
      BY <2>2 DEF CallStart
    <3>. QED
      BY <1>2, <3>1, <3>2
  <2>. QED
    BY <2>1, <2>2
<1>. HIDE DEF b, c, a, s
<1>7. Apt(p, s)
  BY <1>4, <1>5, AptAt, Names DEF Onsets
<1>8. Went(conv'.barge)
  BY <1>1, <1>2, <1>3, <1>6, <1>7, GoesWent, EndsWent DEF CallStart
<1>. QED
  BY <1>2, <1>3, <1>6, <1>8, CalmStep DEF CallStart

LEMMA GreetsCalm ==
    ASSUME TypeOK, NEW p \in Procs, Greets(p)
    PROVE  Calm
<1>. DEFINE c == [conv EXCEPT !.session = TRUE]
<1>1. Unbound(p) /\ StartSpeaking(co, c, p, co[p], "greeting")
  BY AwakeUnbound DEF Greets
<1>2. c \in Conversation
  BY TypeOKIs DEF Conversation
<1>. HIDE DEF c
<1>3. Went(None)
  BY <1>1, <1>2, Started, CoLeads, CoIs DEF Jobs
<1>. QED
  BY <1>3, CalmStep DEF Greets, Went

LEMMA CallInterruptCalm ==
    ASSUME TypeOK, NEW p \in Calls, CallInterrupt(p)
    PROVE  Calm
<1>1. Unbound(p) /\ p \in Procs
  BY CallUnbound
<1>2. (conv' = Unblocked /\ Ends(p)) \/ InterruptSpeech(p, Unblocked)
  BY DEF CallInterrupt
<1>3. Went(conv.barge) \/ Went(None)
  BY <1>1, <1>2, UnblockedIs, SpeechInterrupted, EndsWent DEF CallInterrupt
<1>. QED
  BY <1>3, CalmStep DEF CallInterrupt, Went

LEMMA CallStopCalm ==
    ASSUME TypeOK, NEW p \in Calls, CallStop(p)
    PROVE  Calm
<1>. DEFINE t == conv.turn + 1
            g == TimerCancelled(co)
            h == [g EXCEPT ![Arm] = Rest]
            s == [Rest EXCEPT !.at = "micStop", !.next = "cut", !.job = "stopping"]
<1>1. Unbound(p) /\ p \in Procs /\ t \in Nat
  BY CallUnbound, CoIs
<1>2. conv' \in Conversation /\ conv'.barge = None
  <2>1. conv' = [conv EXCEPT !.blocked = TRUE, !.interrupt = TRUE, !.armed = FALSE,
                            !.barge = None, !.asking = FALSE, !.until = FALSE,
                            !.accept = FALSE, !.active = FALSE, !.turn = t]
    BY TypeOKIs DEF CallStop, Conversation
  <2>. HIDE DEF t
  <2>. QED
    BY <1>1, <2>1, TypeOKIs DEF Conversation
<1>3. s \in Coroutine /\ s.at = "micStop" /\ s.next = "cut"
  BY RestIs, Names DEF Coroutine, Jobs
<1>4. co' = [h EXCEPT ![p] = s]
  BY DEF CallStop
<1>. HIDE DEF g, s
<1>5. Leads(h)
  BY TimerCancelledLeads, LeadsOn, RestApt, Apart DEF Unbound, g
<1>. HIDE DEF h
<1>6. Apt(p, s)
  BY <1>3, AptAt DEF Onsets
<1>7. Leads(co')
  BY <1>1, <1>4, <1>5, <1>6, LeadsOn
<1>8. Went(None)
  BY <1>1, <1>2, <1>7, CoIs DEF Went, CallStop
<1>. QED
  BY <1>2, <1>8, CalmStep DEF CallStop

LEMMA CallResumeCalm ==
    ASSUME TypeOK, NEW p \in Calls, CallResume(p)
    PROVE  Calm
<1>1. Unbound(p) /\ p \in Procs
  BY CallUnbound
<1>2. Apt(p, [Rest EXCEPT !.at = "leave"])
  BY MovedAt, RestIs, Stationed DEF Onsets
<1>3. Goes(p, Rest) \/ Goes(p, [Rest EXCEPT !.at = "leave"])
  BY DEF CallResume
<1>4. Went(conv'.barge)
  BY <1>1, <1>2, <1>3, RestApt, GoesWent, UnblockedIs DEF CallResume
<1>. QED
  BY <1>4, UnblockedIs, CalmStep DEF CallResume

LEMMA TakesTimeoutCalm ==
    ASSUME TypeOK, TakesTimeout
    PROVE  Calm
<1>. DEFINE t == conv.turn + 1
            c == [conv EXCEPT !.accept = FALSE]
            d == [conv EXCEPT !.turn = t]
            r == [Rest EXCEPT !.turn = t]
            s1 == [Rest EXCEPT !.at = "micStop", !.next = "rearm", !.turn = conv.turn]
            s2 == [Rest EXCEPT !.at = "leave"]
            s3 == [Rest EXCEPT !.at = "micStop", !.next = "armPaused"]
<1>1. Unbound(Watch) /\ Watch \in Procs /\ t \in Nat /\ conv.turn \in Nat /\ conv \in Conversation
  BY Apart, CoIs DEF Unbound
<1>2. c \in Conversation /\ c.barge = conv.barge
  BY <1>1 DEF Conversation
<1>3. d \in Conversation /\ d.barge = conv.barge /\ r \in Coroutine
  <2>. HIDE DEF t
  <2>1. d \in Conversation /\ d.barge = conv.barge
    BY <1>1 DEF Conversation
  <2>2. r \in Coroutine
    BY <1>1, RestIs DEF Coroutine
  <2>. QED
    BY <2>1, <2>2
<1>4. Apt(Watch, s1) /\ Apt(Watch, s2) /\ Apt(Watch, s3)
  BY <1>1, MovedFor, MovedTo, MovedAt, RestIs, Names, Stationed DEF Onsets
<1>5. \/ conv' = c /\ Goes(Watch, s1) /\ stale' = stale
      \/ conv' = conv /\ Goes(Watch, s2) /\ stale' = stale
      \/ conv' = conv /\ Goes(Watch, s3) /\ stale' = stale
      \/ ResumeListening(co, d, Watch, r, "listening")
      \/ UNCHANGED <<conv, co, stale>>
  BY DEF TakesTimeout
<1>. HIDE DEF c, d, r, s1, s2, s3
<1>6. Went(conv.barge)
  <2>1. CASE conv' = c /\ Goes(Watch, s1) /\ stale' = stale
    BY <1>1, <1>2, <1>4, <2>1, GoesWent
  <2>2. CASE conv' = conv /\ Goes(Watch, s2) /\ stale' = stale
    BY <1>1, <1>4, <2>2, GoesWent
  <2>3. CASE conv' = conv /\ Goes(Watch, s3) /\ stale' = stale
    BY <1>1, <1>4, <2>3, GoesWent
  <2>4. CASE ResumeListening(co, d, Watch, r, "listening")
    BY <1>1, <1>3, <2>4, Resumed, CoLeads
  <2>5. CASE UNCHANGED <<conv, co, stale>>
    BY <2>5, CoLeads, TypeOKIs DEF Went, Leads
  <2>. QED
    BY <1>5, <2>1, <2>2, <2>3, <2>4, <2>5
<1>7. timeouts' \in Nat
  BY TypeOKIs DEF TakesTimeout
<1>8. Framed
  BY <1>7, TypeOKIs DEF TakesTimeout, Framed, bounds
<1>. QED
  BY <1>6, <1>8, CalmWhen

-----------------------------------------------------------------------------
(* The steps that are not calm.                                            *)

(* What closes the microphone gathers only callbacks on their way out.     *)
Gathers(p) ==
    /\ Asked(co'[p]) => Asked(co[p]) /\ co'[p].owner = co[p].owner
    /\ co'[p].at \notin {"silent", "ready", "queued"}
    /\ co'[p].at \in {"gatherStop", "gatherStart"} => co'[p].waits = CallbackTasks(p)

LEMMA GatheringKeeps ==
    ASSUME ConversationInv, TypeOK', NEW p \in Procs, Unbound(p), LockFree,
           co[p].at \in {"micStop", "micStart"}, Gathers(p),
           \A q \in Procs \ {p} : Follows(q, co'[q]),
           \A q \in CallbackTasks(p) : q \in Utterances \ {p} /\ Doomed(co'[q]),
           UNCHANGED <<conv, told, says, scene>>
    PROVE  ConversationInv'
<1>1. \A q \in Procs : Wordless(q, co'[q])
  BY FollowsWordless DEF Gathers, Wordless
<1>2. WordsOnce'
  BY <1>1, WordsKept
<1>3. SilentUnsaid'
  BY FollowsUnhindered, Apart DEF ConversationInv, SilentUnsaid, Unhindered, Unbound
<1>4. WaitsForDoomed'
  <2>1. \A q \in Procs \ {p} : co'[q].at \notin {"gatherStop", "gatherStart"}
    BY FollowsUnhindered DEF LockFree, Unhindered
  <2>. QED
    BY <2>1 DEF WaitsForDoomed, Gathers
<1>. QED
  BY <1>2, <1>3, <1>4 DEF ConversationInv

LEMMA MicStopsKeeps ==
    ASSUME ConversationInv, NEW p \in Procs, MicStops(p)
    PROVE  ConversationInv'
<1>. DEFINE r == Onwards(co[p])
            v == CallbackTasks(p)
            s == [r EXCEPT !.at = "gatherStop", !.waits = v]
<1>1. /\ TypeOK /\ co[p].at = "micStop" /\ LockFree /\ StopLocked(p, r, "gatherStop")
      /\ mic' = "off" /\ UNCHANGED <<conv, says, timeouts, faults, cuts, scene, told, stale>>
  BY DEF MicStops, bounds, ConversationInv
<1>2. Apt(p, r) /\ r \in Coroutine /\ Unbound(p) /\ r.at \notin MicAwaits
  BY <1>1, OnwardsApt, AwakeUnbound, Names DEF Apt
<1>3. r.next = "decide" => co[p].next = "decide" /\ r.owner = co[p].owner
  <2>. DEFINE z == [co[p] EXCEPT !.at = co[p].next, !.waits = {}]
  <2>1. co[p] \in Coroutine
    BY <1>1, CoIs
  <2>2. z.next = co[p].next /\ z.owner = co[p].owner
    BY <2>1 DEF Coroutine
  <2>3. r \in {Rest, z}
    BY DEF Onwards
  <2>. HIDE DEF r, z
  <2>. QED
    BY <2>2, <2>3, RestIs
<1>4. Stopped(p, r, "gatherStop")
  BY <1>1, <1>2, StopLockedIs
<1>. HIDE DEF r
<1>5. v \in SUBSET Procs
  BY Apart DEF CallbackTasks
<1>6. s \in Coroutine /\ s.at = "gatherStop" /\ s.waits = v /\ s.next = r.next /\ s.owner = r.owner
  BY <1>2, <1>5, Names DEF Coroutine
<1>7. co'[p] = r \/ co'[p] = s
  BY <1>4 DEF Stopped
<1>8. Gathers(p)
  <2>1. CASE co'[p] = r
    BY <1>2, <2>1, Names DEF Gathers, Apt
  <2>2. CASE co'[p] = s
    BY <1>1, <1>3, <1>6, <2>2, Names DEF Gathers, Asked
  <2>. QED
    BY <1>7, <2>1, <2>2
<1>9. TypeOK'
  <2>1. co' \in [Procs -> Coroutine] /\ queue' \in Seq(Utterances)
        /\ worker' \in Utterances \cup {"idle", "dead"}
    BY <1>4 DEF Stopped
  <2>. QED
    BY <1>1, <2>1 DEF TypeOK, Coroutine
<1>. QED
  BY <1>1, <1>2, <1>4, <1>8, <1>9, GatheringKeeps DEF Stopped

LEMMA MicStartsKeeps ==
    ASSUME ConversationInv, NEW p \in Procs, MicStarts(p)
    PROVE  ConversationInv'
<1>. DEFINE r0 == co[p]
            r == [r0 EXCEPT !.at = "connect"]
            v == CallbackTasks(p)
            s == [r EXCEPT !.at = "gatherStart", !.waits = v]
<1>1. /\ TypeOK /\ co[p].at = "micStart" /\ LockFree
      /\ UNCHANGED <<conv, says, timeouts, faults, cuts, scene, told, stale>>
  BY DEF MicStarts, bounds, ConversationInv
<1>2. Unbound(p)
  BY <1>1, AwakeUnbound
<1>3. r \in Coroutine /\ r.at = "connect" /\ r.next = r0.next /\ r.owner = r0.owner
  <2>1. r0 \in Coroutine /\ "connect" \in Awaits
    BY <1>1, CoIs, Names
  <2>. HIDE DEF r0
  <2>. QED
    BY <2>1 DEF Coroutine
<1>. HIDE DEF r
<1>4. Apt(p, r)
  BY <1>1, <1>3, Names DEF Apt, Asked
<1>5. CASE /\ mic' = IF mic = "off" THEN "connecting" ELSE mic
           /\ Goes(p, IF mic = "on" THEN Onwards(co[p]) ELSE r)
           /\ UNCHANGED <<queue, worker>>
  <2>1. Apt(p, Onwards(co[p]))
    BY <1>1, OnwardsApt, Names
  <2>2. Went(conv'.barge)
    BY <1>1, <1>2, <1>4, <1>5, <2>1, GoesWent, CoIs
  <2>3. Framed
    BY <1>1, <1>5, TypeOKIs DEF Framed
  <2>. QED
    BY <1>1, <2>2, <2>3, CalmWhen, CalmKeeps
<1>6. CASE /\ mic' \in {"connecting", "off"}
           /\ StopLocked(p, r, "gatherStart")
  <2>1. Stopped(p, r, "gatherStart")
    BY <1>1, <1>3, <1>6, StopLockedIs
  <2>2. v \in SUBSET Procs
    BY Apart DEF CallbackTasks
  <2>3. s \in Coroutine /\ s.at = "gatherStart" /\ s.waits = v /\ s.next = r.next
        /\ s.owner = r.owner
    BY <1>3, <2>2, Names DEF Coroutine
  <2>4. co'[p] = r \/ co'[p] = s
    BY <2>1 DEF Stopped
  <2>5. Gathers(p)
    <3>1. CASE co'[p] = r
      BY <1>3, <1>4, <3>1, Names DEF Gathers, Apt
    <3>2. CASE co'[p] = s
      BY <1>1, <1>3, <2>3, <3>2, Names DEF Gathers, Asked
    <3>. QED
      BY <2>4, <3>1, <3>2
  <2>6. TypeOK'
    <3>1. co' \in [Procs -> Coroutine] /\ queue' \in Seq(Utterances)
          /\ worker' \in Utterances \cup {"idle", "dead"}
      BY <2>1 DEF Stopped
    <3>. QED
      BY <1>1, <1>6, <3>1 DEF TypeOK, Coroutine
  <2>. QED
    BY <1>1, <1>2, <2>1, <2>5, <2>6, GatheringKeeps DEF Stopped
<1>. QED
  BY <1>5, <1>6 DEF MicStarts, r

(* The recogniser hands over an utterance nobody has heard.                *)
LEMMA HeardKeeps ==
    ASSUME ConversationInv, NEW i \in DOMAIN Voice, Heard(i)
    PROVE  ConversationInv'
<1>. DEFINE u == Voice[i]
            s1 == [Rest EXCEPT !.at = "ready"]
            s2 == [Rest EXCEPT !.at = "queued"]
<1>1. u \in Utterances /\ u \in Procs /\ says[u] = None /\ TypeOK
  BY Apart DEF Utterances, Procs, Heard, ConversationInv
<1>2. PICK c \in scene.say[u] :
        /\ says' = [says EXCEPT ![u] = c]
        /\ \/ Goes(u, s1) /\ UNCHANGED <<queue, worker>>
           \/ /\ Goes(u, s2) /\ queue' = Append(queue, u)
              /\ worker' = IF worker = "dead" THEN "idle" ELSE worker
  BY DEF Heard
<1>3. /\ mic' \in {"on", "off"}
      /\ UNCHANGED <<conv, timeouts, faults, cuts, scene, told, stale>>
  BY DEF Heard, bounds
<1>4. c \in Classes /\ c # None
  <2>1. scene \in Scene
    BY <1>1, TypeOKIs, ConversationAssumption
  <2>2. scene.say \in [Utterances -> SUBSET Classes]
    BY <2>1 DEF Scene
  <2>. QED
    BY <1>1, <2>2, ConversationAssumption
<1>5. s1 \in Coroutine /\ s1.at = "ready" /\ s2 \in Coroutine /\ s2.at = "queued"
  BY RestIs, Names DEF Coroutine
<1>6. ~Asked(s1) /\ ~Asked(s2)
  BY <1>5, Names DEF Asked
<1>. DEFINE s == co'[u]
<1>7. /\ s \in {s1, s2} /\ co' = [co EXCEPT ![u] = s]
  BY <1>1, <1>2, TypeOKIs DEF Goes
<1>. HIDE DEF s1, s2, u
<1>8. TypeOK'
  <2>1. queue' \in Seq(Utterances) /\ worker' \in Utterances \cup {"idle", "dead"}
    <3>1. queue \in Seq(Utterances) /\ worker \in Utterances \cup {"idle", "dead"}
      BY <1>1, TypeOKIs
    <3>2. CASE UNCHANGED <<queue, worker>>
      BY <3>1, <3>2
    <3>3. CASE /\ queue' = Append(queue, u)
               /\ worker' = IF worker = "dead" THEN "idle" ELSE worker
      BY <1>1, <3>1, <3>3
    <3>. QED
      BY <1>2, <3>2, <3>3
  <2>2. co' \in [Procs -> Coroutine]
    <3>1. s \in Coroutine
      BY <1>5, <1>7
    <3>. HIDE DEF s
    <3>. QED
      BY <1>1, <1>7, <3>1, TypeOKIs
  <2>3. says' \in [Utterances -> Classes \cup {None}]
    BY <1>1, <1>2, <1>4, TypeOKIs
  <2>. QED
    BY <1>1, <1>3, <2>1, <2>2, <2>3 DEF TypeOK, Coroutine
<1>9. \A q \in Procs \ {u} : co'[q] = co[q]
  BY <1>1, <1>7, TypeOKIs
<1>10. co[u].at = "silent"
  BY <1>1 DEF ConversationInv, SilentUnsaid
<1>11. /\ co'[u].at \in {"ready", "queued"} /\ ~Asked(co'[u])
  BY <1>5, <1>6, <1>7
<1>12. \A v \in Utterances \ {u} : says'[v] = says[v]
  BY <1>1, <1>2, TypeOKIs
<1>13. says'[u] # None
  BY <1>1, <1>2, <1>4, TypeOKIs
<1>14. WordsOnce'
  <2>1. \A v \in Utterances : Unserved(v)' => Unserved(v)
    BY <1>1, <1>9, <1>12, Apart DEF Unserved
  <2>2. \A p \in Procs : Asked(co'[p]) => Asked(co[p]) /\ co'[p].owner = co[p].owner
    BY <1>9, <1>11
  <2>. QED
    BY <1>1, <1>3, <2>1, <2>2 DEF ConversationInv, WordsOnce
<1>15. SilentUnsaid'
  BY <1>9, <1>12, <1>13, Apart DEF ConversationInv, SilentUnsaid
<1>16. WaitsForDoomed'
  <2>. SUFFICES ASSUME reuse', NEW p \in Procs, co'[p].at \in {"gatherStop", "gatherStart"},
                       NEW q \in co'[p].waits
                PROVE  q \in Utterances /\ Doomed(co'[q])
    BY DEF WaitsForDoomed
  <2>1. p # u /\ reuse
    BY <1>3, <1>11 DEF reuse
  <2>2. q \in Utterances /\ Doomed(co[q])
    BY <1>9, <2>1 DEF ConversationInv, WaitsForDoomed
  <2>3. q # u
    BY <1>10, <2>2 DEF Doomed
  <2>. QED
    BY <1>9, <2>2, <2>3, Apart
<1>. QED
  BY <1>8, <1>14, <1>15, <1>16 DEF ConversationInv

(* Straight to the assistant, with words that were unserved.               *)
LEMMA FinalToAssistantKeeps ==
    ASSUME ConversationInv, NEW u \in Utterances, FinalToAssistant(u)
    PROVE  ConversationInv'
<1>. DEFINE s == [Rest EXCEPT !.at = "direct", !.owner = u]
<1>1. /\ TypeOK /\ Delivers(u) /\ Goes(u, s) /\ told' = [told EXCEPT ![u] = @ + 1]
      /\ UNCHANGED <<conv, mic, says, timeouts, faults, cuts, scene, stale>>
  BY DEF FinalToAssistant, ConversationInv, bounds
<1>2. /\ Unbound(u) /\ u \in Procs /\ co[u].at \in {"ready", "queued"}
      /\ queue' \in Seq(Utterances) /\ worker' \in Utterances \cup {"idle", "dead"}
  BY <1>1, Delivered
<1>3. s \in Coroutine /\ s.at = "direct"
  BY <1>2, RestIs, Names DEF Coroutine
<1>. HIDE DEF s
<1>4. Apt(u, s)
  BY <1>3, AptAt DEF Onsets
<1>5. Leads(co')
  BY <1>1, <1>2, <1>4, GoesLeads
<1>6. told' \in [Utterances -> Nat] /\ told'[u] = told[u] + 1
      /\ \A v \in Utterances \ {u} : told'[v] = told[v]
  BY <1>1, TypeOKIs
<1>7. TypeOK'
  BY <1>1, <1>2, <1>5, <1>6 DEF TypeOK, Leads, Coroutine
<1>8. \A q \in Procs : Wordless(q, co'[q]) /\ Unhindered(q, co'[q])
  BY <1>5, FollowsWordless, FollowsUnhindered DEF Leads
<1>9. co'[u] = s
  BY <1>1, <1>2, TypeOKIs DEF Goes
<1>10. WordsOnce'
  <2>1. Unserved(u) /\ ~Unserved(u)'
    BY <1>1, <1>2, <1>3, <1>9 DEF Unserved, ConversationInv, SilentUnsaid
  <2>2. \A v \in Utterances : Unserved(v)' => Unserved(v)
    BY <1>1, <1>8, Apart DEF Unserved, Wordless
  <2>3. \A p \in Procs : Asked(co'[p]) => Asked(co[p]) /\ co'[p].owner = co[p].owner
    BY <1>8 DEF Wordless
  <2>4. told[u] = 0 /\ conv.barge # u
    BY <2>1 DEF ConversationInv, WordsOnce
  <2>5. \A p \in Procs : Asked(co[p]) => co[p].owner # u
    BY <2>1 DEF ConversationInv, WordsOnce
  <2>. QED
    BY <1>1, <1>6, <2>1, <2>2, <2>3, <2>4, <2>5 DEF ConversationInv, WordsOnce
<1>11. SilentUnsaid' /\ WaitsForDoomed'
  BY <1>1, <1>8, WaitsKept
<1>. QED
  BY <1>7, <1>10, <1>11 DEF ConversationInv

(* Kept for after the assistant's speech: unserved no longer.              *)
LEMMA FinalBargesInKeeps ==
    ASSUME ConversationInv, NEW u \in Utterances, FinalBargesIn(u)
    PROVE  ConversationInv'
<1>. DEFINE g == IF conv.armed THEN Hushed(co) ELSE co
            i == conv.interrupt \/ conv.armed
<1>1. /\ TypeOK /\ Delivers(u) /\ co' = [g EXCEPT ![u] = Rest]
      /\ UNCHANGED <<mic, says, timeouts, faults, cuts, scene, told, stale>>
  BY DEF FinalBargesIn, ConversationInv, bounds
<1>2. /\ Unbound(u) /\ u \in Procs /\ co[u].at \in {"ready", "queued"}
      /\ queue' \in Seq(Utterances) /\ worker' \in Utterances \cup {"idle", "dead"}
  BY <1>1, Delivered
<1>3. conv' \in Conversation /\ conv'.barge = u
  <2>1. conv' = [conv EXCEPT !.barge = u, !.accept = FALSE, !.interrupt = i]
    BY <1>1, TypeOKIs DEF FinalBargesIn, Conversation
  <2>2. i \in BOOLEAN
    OBVIOUS
  <2>. HIDE DEF i
  <2>. QED
    BY <1>1, <2>1, <2>2, TypeOKIs DEF Conversation
<1>4. Leads(g)
  BY <1>1, CoLeads, HushedLeads
<1>5. Leads(co') /\ co'[u] = Rest
  <2>. HIDE DEF g
  <2>. QED
    BY <1>1, <1>2, <1>4, LeadsOn, RestApt DEF Leads
<1>6. TypeOK'
  BY <1>1, <1>2, <1>3, <1>5 DEF TypeOK, Leads, Coroutine, Conversation
<1>7. \A q \in Procs : Wordless(q, co'[q]) /\ Unhindered(q, co'[q])
  BY <1>5, FollowsWordless, FollowsUnhindered DEF Leads
<1>8. WordsOnce'
  <2>1. Unserved(u) /\ ~Unserved(u)'
    BY <1>1, <1>2, <1>5, RestIs DEF Unserved, ConversationInv, SilentUnsaid
  <2>2. \A v \in Utterances : Unserved(v)' => Unserved(v)
    BY <1>1, <1>7, Apart DEF Unserved, Wordless
  <2>3. \A p \in Procs : Asked(co'[p]) => Asked(co[p]) /\ co'[p].owner = co[p].owner
    BY <1>7 DEF Wordless
  <2>4. told[u] = 0
    BY <2>1 DEF ConversationInv, WordsOnce
  <2>5. \A p \in Procs : Asked(co[p]) => co[p].owner # u
    BY <2>1 DEF ConversationInv, WordsOnce
  <2>. QED
    BY <1>1, <1>3, <2>1, <2>2, <2>3, <2>4, <2>5 DEF ConversationInv, WordsOnce
<1>9. SilentUnsaid' /\ WaitsForDoomed'
  BY <1>1, <1>7, WaitsKept
<1>. QED
  BY <1>6, <1>8, <1>9 DEF ConversationInv

(* A coroutine begins the turn of an utterance whose words are nowhere     *)
(* else any more.                                                          *)
Free(u) ==
    /\ u \in Utterances /\ told[u] = 0
    /\ \A p \in Procs : Asked(co[p]) => co[p].owner # u
LEMMA TurnKeeps ==
    ASSUME ConversationInv, TypeOK', NEW p \in Procs, Unbound(p), NEW u \in Utterances, Free(u),
           co'[p].at = "begin", co'[p].owner = u, says[u] # None,
           co[u].at \notin {"ready", "queued"} \/ u = p,
           conv'.barge \in {conv.barge, None}, conv'.barge # u,
           \A q \in Procs \ {p} : Follows(q, co'[q]),
           told' = told, says' = says, scene' = scene
    PROVE  ConversationInv'
<1>1. \A q \in Procs \ {p} : Wordless(q, co'[q]) /\ Unhindered(q, co'[q])
  BY FollowsWordless, FollowsUnhindered
<1>2. \A q \in Procs \ {p} : /\ Asked(co'[q]) => Asked(co[q]) /\ co'[q].owner = co[q].owner
                             /\ co'[q].at \in {"ready", "queued"} => co'[q].at = co[q].at
  BY <1>1 DEF Wordless
<1>3. \A v \in Utterances : Unserved(v)' => Unserved(v)
  BY <1>2, Apart DEF Unserved
<1>4. ~Unserved(u)'
  BY <1>2, Apart DEF Unserved, Free
<1>5. WordsOnce'
  <2>. USE DEF ConversationInv
  <2>1. \A v \in Utterances : Unserved(v)' => told'[v] = 0 /\ conv'.barge # v
    BY <1>3, Apart DEF WordsOnce
  <2>2. \A v \in Utterances : conv'.barge = v => told'[v] = 0
    BY Apart DEF WordsOnce
  <2>3. ASSUME NEW q \in Procs, Asked(co'[q])
        PROVE  /\ co'[q].owner \in Utterances /\ told'[co'[q].owner] = 0
               /\ conv'.barge # co'[q].owner
               /\ says'[co'[q].owner] # None
               /\ co'[co'[q].owner].at \notin {"ready", "queued"}
    <3>1. CASE q = p
      <4>1. told'[u] = 0
        BY DEF Free
      <4>. QED
        BY <1>4, <3>1, <4>1 DEF Free, Unserved
    <3>2. CASE q # p
      <4>. DEFINE o == co'[q].owner
      <4>1. o = co[q].owner /\ Asked(co[q])
        BY <1>2, <2>3, <3>2
      <4>2. o \in Utterances /\ told[o] = 0 /\ conv.barge # o /\ says[o] # None
            /\ co[o].at \notin {"ready", "queued"}
        BY <4>1 DEF WordsOnce, Unserved
      <4>. HIDE DEF o
      <4>3. co'[o].at \notin {"ready", "queued"}
        BY <1>2, <4>2, Apart
      <4>4. conv'.barge # o /\ told'[o] = 0 /\ says'[o] # None
        BY <4>2, Apart
      <4>. QED
        BY <4>2, <4>3, <4>4 DEF o
    <3>. QED
      BY <3>1, <3>2
  <2>4. ASSUME NEW q \in Procs, NEW r \in Procs, Asked(co'[q]), Asked(co'[r]),
               co'[q].owner = co'[r].owner
        PROVE  q = r
    <3>1. CASE q # p /\ r # p
      BY <1>2, <2>4, <3>1 DEF WordsOnce
    <3>2. CASE q = p \/ r = p
      BY <1>2, <2>4, <3>2 DEF Free
    <3>. QED
      BY <3>1, <3>2
  <2>5. \A v \in Utterances : told'[v] <= 1
    BY DEF WordsOnce
  <2>. QED
    BY <2>1, <2>2, <2>3, <2>4, <2>5 DEF WordsOnce, Unserved
<1>6. \A q \in Procs : Unhindered(q, co'[q])
  <2>1. Unhindered(p, co'[p])
    BY DEF Unhindered, Unbound, Doomed
  <2>. QED
    BY <1>1, <2>1
<1>7. SilentUnsaid' /\ WaitsForDoomed'
  BY <1>6, WaitsKept
<1>. QED
  BY <1>5, <1>7 DEF ConversationInv

LEMMA TurnIs ==
    ASSUME NEW r \in Coroutine, NEW t \in Nat, NEW u \in Utterances
    PROVE  /\ Turn(r, t, u) \in Coroutine /\ Turn(r, t, u).at = "begin"
           /\ Turn(r, t, u).owner = u
<1>1. "begin" \in Awaits /\ "none" \in Jobs /\ u \in Procs
  BY Names, Apart DEF Jobs
<1>. QED
  BY <1>1 DEF Turn, Coroutine

(* A callback begins the turn of its own utterance.                        *)
LEMMA OwnTurnKeeps ==
    ASSUME ConversationInv, NEW u \in Utterances, Delivers(u),
           Goes(u, Turn(Rest, conv.turn + 1, u)),
           conv' \in Conversation, conv'.barge = conv.barge,
           UNCHANGED <<mic, says, timeouts, bounds, told, stale>>
    PROVE  ConversationInv'
<1>. DEFINE s == Turn(Rest, conv.turn + 1, u)
<1>1. /\ TypeOK /\ Unbound(u) /\ u \in Procs /\ co[u].at \in {"ready", "queued"}
      /\ queue' \in Seq(Utterances) /\ worker' \in Utterances \cup {"idle", "dead"}
  BY Delivered DEF ConversationInv
<1>2. conv.turn + 1 \in Nat
  BY <1>1, CoIs
<1>3. s \in Coroutine /\ s.at = "begin" /\ s.owner = u
  BY <1>2, TurnIs, RestIs
<1>. HIDE DEF s
<1>4. /\ co' = [co EXCEPT ![u] = s]
  BY DEF Goes, s
<1>5. co' \in [Procs -> Coroutine] /\ co'[u] = s /\ \A q \in Procs \ {u} : co'[q] = co[q]
  BY <1>1, <1>3, <1>4, TypeOKIs
<1>6. TypeOK'
  BY <1>1, <1>5 DEF TypeOK, Coroutine, Conversation, bounds
<1>7. \A q \in Procs \ {u} : Follows(q, co'[q])
  BY <1>1, <1>5, CoLeads DEF Leads
<1>8. Unserved(u) /\ says[u] # None
  BY <1>1 DEF Unserved, ConversationInv, SilentUnsaid
<1>9. Free(u) /\ conv.barge # u
  BY <1>8 DEF ConversationInv, WordsOnce, Free
<1>. QED
  BY <1>1, <1>3, <1>5, <1>6, <1>7, <1>8, <1>9, TurnKeeps DEF bounds

LEMMA FinalAsksToPauseKeeps ==
    ASSUME ConversationInv, NEW u \in Utterances, FinalAsksToPause(u)
    PROVE  ConversationInv'
<1>. DEFINE t == conv.turn + 1
<1>1. conv \in Conversation /\ t \in Nat
  BY CoIs, Apart DEF ConversationInv
<1>2. conv' = [conv EXCEPT !.session = TRUE, !.active = TRUE, !.interrupt = FALSE, !.turn = t]
  BY <1>1 DEF FinalAsksToPause, Conversation
<1>3. conv' \in Conversation /\ conv'.barge = conv.barge
  <2>. HIDE DEF t
  <2>. QED
    BY <1>1, <1>2 DEF Conversation
<1>. QED
  BY <1>3, OwnTurnKeeps DEF FinalAsksToPause, Unexpected

LEMMA FinalBeginsTurnKeeps ==
    ASSUME ConversationInv, NEW u \in Utterances, FinalBeginsTurn(u)
    PROVE  ConversationInv'
<1>. DEFINE t == conv.turn + 1
<1>1. conv \in Conversation /\ t \in Nat
  BY CoIs, Apart DEF ConversationInv
<1>2. conv' = [conv EXCEPT !.accept = FALSE, !.interrupt = FALSE, !.turn = t]
  BY <1>1 DEF FinalBeginsTurn, Conversation
<1>3. conv' \in Conversation /\ conv'.barge = conv.barge
  <2>. HIDE DEF t
  <2>. QED
    BY <1>1, <1>2 DEF Conversation
<1>. QED
  BY <1>3, OwnTurnKeeps DEF FinalBeginsTurn, Expected

(* After the speech, the turn of what the user said meanwhile.             *)
LEMMA SpokenBargeKeeps ==
    ASSUME ConversationInv, NEW p \in Procs, SpokenBarge(p)
    PROVE  ConversationInv'
<1>. DEFINE t == IF co[p].job = "greeting" THEN conv.turn ELSE conv.turn + 1
            i == IF co[p].job = "resumed" THEN conv.interrupt ELSE FALSE
            a == AfterSpeech(p)
            g == Cleaned(p)
            r == g[p]
            u == conv.barge
            s == Turn(r, t, u)
<1>1. /\ TypeOK /\ Spoken(p) /\ ~co[p].dying /\ u # None
      /\ UNCHANGED <<mic, queue, worker, says, timeouts, faults, cuts, scene, told, stale>>
  BY DEF SpokenBarge, Spoken, ConversationInv, bounds
<1>2. /\ Leads(g) /\ r \in Coroutine /\ a \in Conversation /\ Unbound(p)
      /\ co[p].at \in {"said", "spoken"} /\ a.interrupt = conv.interrupt
  BY <1>1, SpokenIs, TypeOKIs DEF Spoken, AfterSpeech, Conversation
<1>3. u \in Utterances /\ t \in Nat /\ i \in BOOLEAN
  <2>1. conv \in Conversation /\ conv.turn \in Nat
    BY <1>1, CoIs
  <2>2. conv.interrupt \in BOOLEAN /\ conv.barge \in Utterances \cup {None}
    BY <2>1 DEF Conversation
  <2>3. u \in Utterances
    BY <1>1, <2>2
  <2>4. t \in Nat
    BY <2>1
  <2>5. i \in BOOLEAN
    BY <2>2, Zenon
  <2>. QED
    BY <2>3, <2>4, <2>5
<1>4. /\ co' = [g EXCEPT ![p] = s]
      /\ conv' = [a EXCEPT !.turn = t, !.barge = None, !.interrupt = i]
  <2>1. co' = [g EXCEPT ![p] = s]
    BY DEF SpokenBarge
  <2>2. conv' = [a EXCEPT !.turn = t, !.barge = None,
                  !.interrupt = IF co[p].job = "resumed" THEN a.interrupt ELSE FALSE]
    BY <1>2 DEF SpokenBarge, Conversation
  <2>. QED
    BY <1>2, <2>1, <2>2
<1>. HIDE DEF g, a, t, i, u
<1>5. conv' \in Conversation /\ conv'.barge = None
  BY <1>2, <1>3, <1>4 DEF Conversation
<1>. HIDE DEF r
<1>6. s \in Coroutine /\ s.at = "begin" /\ s.owner = u
  BY <1>2, <1>3, TurnIs
<1>. HIDE DEF s
<1>7. co' \in [Procs -> Coroutine] /\ co'[p] = s /\ \A q \in Procs \ {p} : co'[q] = g[q]
  BY <1>2, <1>4, <1>6 DEF Leads
<1>8. TypeOK'
  BY <1>1, <1>5, <1>7 DEF TypeOK, Coroutine, Conversation
<1>9. \A q \in Procs \ {p} : Follows(q, co'[q])
  BY <1>2, <1>7 DEF Leads
<1>10. told[u] = 0 /\ ~Unserved(u) /\ \A q \in Procs : Asked(co[q]) => co[q].owner # u
  BY <1>3 DEF ConversationInv, WordsOnce, u
<1>11. Free(u) /\ says[u] # None /\ co[u].at \notin {"ready", "queued"} /\ None # u
  BY <1>1, <1>3, <1>10 DEF Free, Unserved
<1>12. /\ co'[p].at = "begin" /\ co'[p].owner = u
       /\ told' = told /\ says' = says /\ scene' = scene
       /\ conv'.barge \in {conv.barge, None} /\ conv'.barge # u
  BY <1>1, <1>5, <1>6, <1>7, <1>11
<1>. QED
  BY <1>2, <1>3, <1>8, <1>9, <1>11, <1>12, TurnKeeps

(* The words of the turn are given to the assistant.                       *)
LEMMA AssistantAskedKeeps ==
    ASSUME ConversationInv, NEW p \in Procs, AssistantAsked(p)
    PROVE  ConversationInv'
<1>. DEFINE s == [co[p] EXCEPT !.at = "thinking"]
            u == co[p].owner
<1>1. /\ TypeOK /\ Goes(p, s) /\ told' = [told EXCEPT ![u] = @ + 1]
      /\ UNCHANGED <<mic, queue, worker, says, timeouts, faults, cuts, scene, stale>>
      /\ Unbound(p) /\ Asked(co[p])
  BY DecidingUnbound DEF AssistantAsked, ConversationInv, bounds
<1>2. conv' \in Conversation /\ conv'.barge = conv.barge
  BY <1>1, TypeOKIs DEF AssistantAsked, Conversation, States
<1>3. u \in Utterances /\ told[u] = 0 /\ conv.barge # u /\ ~Unserved(u)
  BY <1>1 DEF ConversationInv, WordsOnce
<1>4. s.at = "thinking" /\ s \in Coroutine
  <2>1. co[p] \in Coroutine /\ "thinking" \in Awaits
    BY <1>1, CoIs, Names
  <2>. QED
    BY <2>1 DEF Coroutine
<1>5. \A q \in Procs : Asked(co[q]) /\ co[q].owner = u => q = p
  BY <1>1 DEF ConversationInv, WordsOnce
<1>. HIDE DEF s, u
<1>6. Apt(p, s)
  BY <1>4, AptAt DEF Onsets
<1>7. Leads(co') /\ co'[p] = s
  BY <1>1, <1>6, GoesLeads, TypeOKIs DEF Goes
<1>8. told' \in [Utterances -> Nat] /\ told'[u] = told[u] + 1
      /\ \A v \in Utterances \ {u} : told'[v] = told[v]
  BY <1>1, <1>3, TypeOKIs
<1>9. TypeOK'
  BY <1>1, <1>2, <1>7, <1>8 DEF TypeOK, Leads, Coroutine, Conversation
<1>10. \A q \in Procs : Wordless(q, co'[q]) /\ Unhindered(q, co'[q])
  BY <1>7, FollowsWordless, FollowsUnhindered DEF Leads
<1>11. ~Asked(s)
  BY <1>4, Names DEF Asked
<1>12. WordsOnce'
  <2>1. \A v \in Utterances : Unserved(v)' => Unserved(v)
    BY <1>1, <1>10, Apart DEF Unserved, Wordless
  <2>2. \A q \in Procs : Asked(co'[q]) => Asked(co[q]) /\ co'[q].owner = co[q].owner /\ co[q].owner # u
    BY <1>5, <1>7, <1>10, <1>11 DEF Wordless
  <2>. QED
    BY <1>2, <1>3, <1>8, <2>1, <2>2 DEF ConversationInv, WordsOnce
<1>13. SilentUnsaid' /\ WaitsForDoomed'
  BY <1>1, <1>10, WaitsKept
<1>. QED
  BY <1>9, <1>12, <1>13 DEF ConversationInv

-----------------------------------------------------------------------------
(* The invariant of the conversation is inductive.                         *)

LEMMA ConversationInit == Init => ConversationInv
<1>. SUFFICES ASSUME Init
     PROVE  ConversationInv
  OBVIOUS
<1>. DEFINE s == [Rest EXCEPT !.at = "silent"]
<1>1. s \in Coroutine /\ s.at = "silent" /\ Rest \in Coroutine /\ Rest.at = "done"
  BY RestIs, Names DEF Coroutine
<1>2. co = [p \in Procs |-> IF p \in Utterances \cup Calls THEN s ELSE Rest]
  BY DEF Init
<1>. HIDE DEF s
<1>3. \A p \in Procs : co[p].at \in {"silent", "done"}
  BY <1>1, <1>2
<1>4. \A u \in Utterances : co[u].at = "silent"
  BY <1>1, <1>2, Apart
<1>5. conv \in Conversation /\ conv.barge = None
  BY DEF Init, Conversation, States
<1>6. TypeOK
  <2>1. co \in [Procs -> Coroutine]
    BY <1>1, <1>2
  <2>. QED
    BY <1>5, <2>1, EmptySeq, TypeOKIs DEF Init
<1>7. \A p \in Procs : ~Asked(co[p])
  BY <1>3, Names DEF Asked
<1>8. WordsOnce
  BY <1>5, <1>7, Apart DEF Init, WordsOnce
<1>9. SilentUnsaid /\ WaitsForDoomed
  BY <1>3, <1>4 DEF SilentUnsaid, WaitsForDoomed
<1>. QED
  BY <1>6, <1>8, <1>9 DEF ConversationInv

(* A coroutine going on.                                                   *)
LEMMA ContinuesKeeps ==
    ASSUME ConversationInv, NEW p \in Procs, Continues(p)
    PROVE  ConversationInv'
<1>1. TypeOK
  BY DEF ConversationInv
<1>2. CASE AssistantAsked(p)
  BY <1>2, AssistantAskedKeeps
<1>3. CASE SpokenBarge(p)
  BY <1>3, SpokenBargeKeeps
<1>4. CASE \/ Gathered(p) \/ ConnectFails(p)
           \/ TurnBegins(p) \/ PauseConfirmed(p) \/ PauseNotConfirmed(p) \/ PauseAsked(p)
           \/ AssistantAnswers(p) \/ AssistantFails(p) \/ ExecutionCompletes(p) \/ Unwinds(p)
  BY <1>1, <1>4, CalmKeeps, GatheredCalm, ConnectFailsCalm, TurnBeginsCalm, PauseConfirmedCalm,
     PauseNotConfirmedCalm, PauseAskedCalm, AssistantAnswersCalm, AssistantFailsCalm,
     ExecutionCompletesCalm, UnwindsCalm
<1>5. CASE \/ SpeechPrepared(p) \/ SpeechStarts(p) \/ SpeechEnds(p) \/ SpeechCloses(p)
           \/ SpokenCancelled(p) \/ SpokenOut(p) \/ SpokenPause(p)
  BY <1>1, <1>5, CalmKeeps, SpeechPreparedCalm, SpeechStartsCalm, SpeechEndsCalm,
     SpeechClosesCalm, SpokenCancelledCalm, SpokenOutCalm, SpokenPauseCalm
<1>6. CASE \/ Rearms(p) \/ Rearmed(p) \/ Relistens(p) \/ ArmsPaused(p)
           \/ Leaves(p) \/ Resumes(p) \/ Cuts(p)
           \/ InterruptSpeechListens(p) \/ HardStopEnds(p) \/ EntersPause(p) \/ Greets(p)
  BY <1>1, <1>6, CalmKeeps, RearmsCalm, RearmedCalm, RelistensCalm, ArmsPausedCalm, LeavesCalm,
     ResumesCalm, CutsCalm, InterruptSpeechListensCalm, HardStopEndsCalm, EntersPauseCalm,
     GreetsCalm
<1>. QED
  BY <1>2, <1>3, <1>4, <1>5, <1>6 DEF Continues

(* The callback of a final.                                                *)
LEMMA FinalKeeps ==
    ASSUME ConversationInv, NEW u \in Utterances, FinalCallback(u)
    PROVE  ConversationInv'
<1>1. TypeOK
  BY DEF ConversationInv
<1>2. CASE FinalToAssistant(u) \/ FinalBargesIn(u) \/ FinalAsksToPause(u) \/ FinalBeginsTurn(u)
  BY <1>2, FinalToAssistantKeeps, FinalBargesInKeeps, FinalAsksToPauseKeeps, FinalBeginsTurnKeeps
<1>3. CASE \/ FinalWhilePaused(u) \/ FinalStops(u) \/ FinalIsEcho(u) \/ FinalIgnored(u)
           \/ FinalDiscarded(u) \/ DirectEnds(u)
  BY <1>1, <1>3, CalmKeeps, FinalWhilePausedCalm, FinalStopsCalm, FinalIsEchoCalm,
     FinalIgnoredCalm, FinalDiscardedCalm, DirectEndsCalm
<1>. QED
  BY <1>2, <1>3 DEF FinalCallback

LEMMA ConversationStep ==
    ASSUME ConversationInv, [Next]_vars
    PROVE  ConversationInv'
<1>1. TypeOK
  BY DEF ConversationInv
<1>2. CASE MicLocked
  BY <1>2, MicStopsKeeps, MicStartsKeeps DEF MicLocked
<1>3. ASSUME NEW p \in Procs, Continues(p)
      PROVE  ConversationInv'
  BY <1>3, ContinuesKeeps
<1>4. ASSUME NEW u \in Utterances, FinalCallback(u)
      PROVE  ConversationInv'
  BY <1>4, FinalKeeps
<1>5. ASSUME NEW c \in Calls, ApiCall(c)
      PROVE  ConversationInv'
  BY <1>1, <1>5, CalmKeeps, CallStartCalm, CallInterruptCalm, CallStopCalm, CallResumeCalm
     DEF ApiCall
<1>6. ASSUME NEW i \in DOMAIN Voice, Heard(i)
      PROVE  ConversationInv'
  BY <1>6, HeardKeeps
<1>7. CASE \/ MicConnects \/ MicFails \/ InterimCuts
           \/ ArmWakes \/ ArmReady \/ TimerFires \/ TakesTimeout
  BY <1>1, <1>7, CalmKeeps, MicConnectsCalm, MicFailsCalm, InterimCutsCalm, ArmWakesCalm,
     ArmReadyCalm, TimerFiresCalm, TakesTimeoutCalm
<1>8. CASE UNCHANGED vars
  <2>1. Went(conv.barge)
    BY <1>1, <1>8, CoLeads, TypeOKIs DEF vars, Went, Leads
  <2>2. Framed
    BY <1>8, <1>1, FramedWhen DEF vars, bounds
  <2>. QED
    BY <1>1, <2>1, <2>2, CalmWhen, CalmKeeps
<1>. QED
  BY <1>2, <1>3, <1>4, <1>5, <1>6, <1>7, <1>8 DEF Next

(* The conversation keeps to its invariant.                                *)
LEMMA ConversationAlways == Spec => []ConversationInv
<1>1. ConversationInv /\ [Next]_vars => ConversationInv'
  BY ConversationStep
<1>. QED
  BY <1>1, ConversationInit, PTL DEF Spec

(* Every field of the coordinator, every coroutine and every queue keeps   *)
(* its type, whatever is said, called and broken.                          *)
THEOREM ConversationTypeCorrect == Spec => []TypeOK
<1>1. ConversationInv => TypeOK
  BY DEF ConversationInv
<1>. QED
  BY <1>1, ConversationAlways, PTL

(* No utterance is given to the assistant twice: as a turn of its own, as  *)
(* words kept while the assistant spoke, or straight from the recogniser   *)
(* (handle_transcript, _speak_with_barge_in, on_deepgram_final).           *)
THEOREM AnsweredAtMostOnce == Spec => []AnsweredOnce
<1>1. ConversationInv => AnsweredOnce
  BY DEF ConversationInv, WordsOnce, AnsweredOnce
<1>. QED
  BY <1>1, ConversationAlways, PTL

(* With a kept stream, nobody who closes the microphone waits under its    *)
(* lock for a callback that wants that lock (_stop_locked).                *)
THEOREM KeptStreamStaysFree == Spec => []KeptStreamIsFree
<1>1. ConversationInv => KeptStreamIsFree
  <2>. SUFFICES ASSUME ConversationInv, reuse, NEW p \in Procs, NEW q \in Procs,
                       co[p].at \in {"gatherStop", "gatherStart"}, q \in co[p].waits
                PROVE  ~(co[q].at \in {"micStop", "micStart"})
    BY DEF KeptStreamIsFree
  <2>1. Doomed(co[q])
    BY DEF ConversationInv, WaitsForDoomed
  <2>. QED
    BY <2>1 DEF Doomed
<1>. QED
  BY <1>1, ConversationAlways, PTL

-----------------------------------------------------------------------------
(* A kept stream that listens.  A session that is not over has a stop on   *)
(* its way, or somebody who still has something to do for it, or it listens*)
(* or is paused; one whose microphone is off is being stopped or has       *)
(* somebody about to open it; and whoever gives up the current turn is     *)
(* waited for by the one who cancelled it (KeptFacts).  Most steps let one *)
(* coroutine go on beside the others, which is Advances; it is shown action*)
(* by action, and the steps on the microphone, a cut and a stop after it.  *)

(* A hard stop on its way; a coroutine that still has something to do for  *)
(* the conversation; one that is being cancelled; one that gives up the    *)
(* conversation when it is.                                                *)
Shuts(r) ==
    /\ r.job = "stopping"
    /\ r.at \in {"cut", "cutting"} \/ (r.at \in {"micStop", "gatherStop"} /\ r.next = "cut")
Engaged(r) ==
    /\ ~r.dying
    /\ \/ r.at \in {"begin", "thinking", "executing", "cut", "cutting", "greet", "opens", "speak",
                    "saying", "said"}
       \/ r.at \in {"micStart", "connect"} /\ r.next \in {"greet", "opens"}
Expiring(r) == r.at = "unwind" \/ r.dying
Current(r, c) == r.inTurn /\ r.turn = c.turn
Over(r) == r.at \in Resting \/ Doomed(r)

Stopping == \E p \in Calls : Shuts(co[p])
Busy == \E p \in Procs \ {Arm} : Engaged(co[p])
Opening == \E p \in Procs \ {Arm} : co[p].at = "micStart"
Awaited(q) == \E p \in Procs : co[p].at \in {"gatherStop", "cutting"} /\ q \in co[p].waits

(* What the coroutines of a kept stream can be at.                         *)
Fit(p, r) ==
    /\ r.at \in {"micStop", "gatherStop"} => Shuts(r)
    /\ Shuts(r) => p \in Calls
    /\ r.at \notin {"gatherStart", "rearm"}
    /\ r.at \in {"micStart", "connect"} =>
         r.next \in {"listening", "lastTry", "opens", "greet", "done", "armed"}
    /\ r.dying => r.at \in {"said", "unwind"}
    /\ p = Arm => r.at \in {"done", "grace", "armed"}
                  \/ (r.at \in {"micStart", "connect"} /\ r.next = "armed")

KeptShapes == \A p \in Procs : Fit(p, co[p]) /\ co[p].turn <= conv.turn
BlockedStops == conv.blocked => Stopping
HeardWhileOn == \A u \in Utterances : co[u].at \in {"ready", "queued"} => mic = "on"
LockedIsOff == ~LockFree => mic = "off" /\ \A u \in Utterances : Over(co[u])
StopsClean ==
    (\E s \in Procs : co[s].at = "micStop") =>
        \/ \A u \in Utterances : Over(co[u])
        \/ \A q \in Procs : ~Current(co[q], conv)
ExpiryAwaited == \A q \in Procs : Expiring(co[q]) /\ Current(co[q], conv) => Awaited(q)
MicReturns == conv.session /\ ~stale /\ mic = "off" => Stopping \/ Opening
TurnReturns ==
    conv.session /\ ~stale =>
        Stopping \/ Busy \/ (conv.state \in {"listening", "paused"} /\ conv.active)

KeptFacts ==
    /\ timeouts = 0 /\ KeptShapes /\ BlockedStops /\ HeardWhileOn /\ LockedIsOff
    /\ StopsClean /\ ExpiryAwaited /\ MicReturns /\ TurnReturns
KeptInv == reuse /\ faults = 0 => KeptFacts

(* What a step may do to those it does not move.                           *)
Beside(q, s) ==
    /\ Fit(q, s) /\ (s.turn <= conv.turn \/ (q = Arm /\ s.turn <= conv'.turn))
    /\ Shuts(co[q]) => Shuts(s)
    /\ q # Arm => (Engaged(co[q]) => Engaged(s)) /\ (co[q].at = "micStart" => s.at = "micStart")
    /\ s.at \in {"ready", "queued", "micStop", "gatherStop"} => s.at = co[q].at
    /\ co[q].at \in {"gatherStop", "cutting"} => s.at = co[q].at /\ s.waits = co[q].waits
    /\ co[q].at = "armPaused" => s.at = co[q].at
    /\ Expiring(s) => Expiring(co[q])
    /\ s.inTurn => co[q].inTurn /\ s.turn = co[q].turn
    /\ q \in Utterances /\ Over(co[q]) => Over(s)
Aside(procs, p) ==
    procs \in [Procs -> Coroutine] /\ \A q \in Procs \ {p} : Beside(q, procs[q])

(* What it may make of the one it moves, and of the fields.                *)
Moves(p, s) ==
    /\ Fit(p, s) /\ s.turn <= conv'.turn
    /\ Shuts(co[p]) =>
         Shuts(s) \/ (~conv'.session /\ ~conv'.blocked /\ conv'.state # "paused")
    /\ p # Arm /\ co[p].at = "micStart" => s.at = "micStart"
    /\ s.at \notin {"ready", "queued", "micStop", "gatherStop"}
    /\ co[p].at \in {"gatherStop", "cutting"} => \A q \in co[p].waits : Quiescent(q)
    /\ Expiring(s) => Expiring(co[p]) /\ s.inTurn = co[p].inTurn /\ s.turn = co[p].turn
    /\ p \in Utterances /\ Over(co[p]) => Over(s)
Returns(p, s) ==
    conv'.session /\ ~stale' /\ ~Stopping =>
        /\ ~stale
        /\ conv.session \/ conv.blocked \/ (p # Arm /\ s.at = "micStart") \/ mic # "off"
        /\ \/ conv.blocked
           \/ p # Arm /\ Engaged(s)
           \/ \E r \in Procs \ {p, Arm} : Engaged(co[r])
           \/ conv'.state \in {"listening", "paused"} /\ conv'.active
           \/ /\ conv.session /\ (p = Arm \/ ~Engaged(co[p]) \/ Engaged(s))
              /\ conv'.state = conv.state /\ conv'.active = conv.active
Advances(p) ==
    /\ Aside(co', p) /\ Moves(p, co'[p]) /\ Returns(p, co'[p])
    /\ conv'.turn \in Nat /\ conv'.turn >= conv.turn /\ (conv'.blocked => conv.blocked)
    /\ mic' = mic /\ timeouts' = timeouts
Kept == TypeOK /\ reuse /\ KeptFacts

LEMMA AdvancesKeeps ==
    ASSUME Kept, Yielded, NEW p \in Procs, Advances(p)
    PROVE  KeptFacts'
<1>. USE DEF Kept, KeptFacts
<1>1. /\ co \in [Procs -> Coroutine] /\ co' \in [Procs -> Coroutine]
      /\ conv.turn \in Nat /\ conv'.turn \in Nat /\ conv'.turn >= conv.turn
  BY DEF TypeOK, Coroutine, Advances, Aside
<1>2. \A q \in Procs : /\ co[q].turn \in Nat /\ co'[q].turn \in Nat /\ Fit(q, co[q])
                       /\ co[q].turn <= conv.turn
  BY <1>1 DEF Coroutine, KeptShapes
<1>3. \A q \in Procs \ {p} : Beside(q, co'[q])
  BY DEF Advances, Aside
<1>4. Moves(p, co'[p]) /\ Returns(p, co'[p])
  BY DEF Advances
<1>5. KeptShapes'
  <2>. SUFFICES ASSUME NEW q \in Procs PROVE Fit(q, co'[q]) /\ co'[q].turn <= conv'.turn
    BY DEF KeptShapes
  <2>. QED BY <1>1, <1>2, <1>3, <1>4 DEF Beside, Moves
<1>6. ASSUME Stopping PROVE Stopping' \/ (~conv'.session /\ ~conv'.blocked)
  <2>1. PICK q \in Calls : Shuts(co[q])
    BY <1>6 DEF Stopping
  <2>2. q \in Procs
    BY Apart
  <2>3. CASE q = p
    BY <1>4, <2>1, <2>3 DEF Moves, Stopping
  <2>4. CASE q # p
    BY <1>3, <2>1, <2>2, <2>4 DEF Beside, Stopping
  <2>. QED BY <2>3, <2>4
<1>7. BlockedStops'
  BY <1>6 DEF BlockedStops, Advances
<1>8. HeardWhileOn'
  BY <1>3, <1>4, Apart DEF HeardWhileOn, Advances, Beside, Moves
<1>9. \A u \in Utterances : Over(co[u]) => Over(co'[u])
  BY <1>3, <1>4, Apart DEF Beside, Moves
<1>10. LockFree => LockFree'
  BY <1>2, <1>3, <1>4 DEF LockFree, Beside, Moves, Fit
<1>11. LockedIsOff'
  BY <1>9, <1>10 DEF LockedIsOff, Advances
<1>12. StopsClean'
  <2>. SUFFICES ASSUME NEW s \in Procs, co'[s].at = "micStop"
                PROVE  \A u \in Utterances : Over(co'[u])
    BY DEF StopsClean
  <2>1. co[s].at = "micStop"
    BY <1>3, <1>4 DEF Beside, Moves
  <2>2. ~LockFree
    BY <2>1 DEF Yielded, AtMic
  <2>. QED BY <1>9, <2>2 DEF LockedIsOff
<1>13. ExpiryAwaited'
  <2>. SUFFICES ASSUME NEW q \in Procs, Expiring(co'[q]), Current(co'[q], conv')
                PROVE  Awaited(q)'
    BY DEF ExpiryAwaited
  <2>1. Expiring(co[q]) /\ co'[q].inTurn = co[q].inTurn /\ co'[q].turn = co[q].turn
    BY <1>3, <1>4 DEF Beside, Moves, Current
  <2>2. Current(co[q], conv)
    BY <1>1, <1>2, <2>1 DEF Current
  <2>3. PICK r \in Procs : co[r].at \in {"gatherStop", "cutting"} /\ q \in co[r].waits
    BY <2>1, <2>2 DEF ExpiryAwaited, Awaited
  <2>4. ~Quiescent(q)
    BY <1>2, <2>1 DEF Expiring, Quiescent, Resting, Fit
  <2>5. r # p
    BY <1>4, <2>3, <2>4 DEF Moves
  <2>6. Beside(r, co'[r])
    BY <1>3, <2>5
  <2>. QED BY <2>3, <2>6 DEF Beside, Awaited
<1>14. MicReturns'
  <2>. SUFFICES ASSUME conv'.session, ~stale', mic' = "off" PROVE Stopping' \/ Opening'
    BY DEF MicReturns
  <2>1. mic = "off"
    BY DEF Advances
  <2>2. CASE Stopping
    BY <1>6, <2>2
  <2>3. CASE ~Stopping
    <3>1. conv.session \/ (p # Arm /\ co'[p].at = "micStart")
      BY <1>4, <2>1, <2>3 DEF Returns, BlockedStops
    <3>2. CASE p # Arm /\ co'[p].at = "micStart"
      BY <3>2 DEF Opening
    <3>3. CASE conv.session
      <4>1. PICK r \in Procs \ {Arm} : co[r].at = "micStart"
        BY <1>4, <2>1, <2>3, <3>3 DEF MicReturns, Opening, Returns
      <4>2. co'[r].at = "micStart"
        BY <1>3, <1>4, <4>1 DEF Beside, Moves
      <4>. QED BY <4>2 DEF Opening
    <3>. QED BY <3>1, <3>2, <3>3
  <2>. QED BY <2>2, <2>3
<1>15. TurnReturns'
  <2>. SUFFICES ASSUME conv'.session, ~stale',
                       ~(conv'.state \in {"listening", "paused"} /\ conv'.active)
                PROVE  Stopping' \/ Busy'
    BY DEF TurnReturns
  <2>1. CASE Stopping
    BY <1>6, <2>1
  <2>2. CASE ~Stopping
    <3>1. CASE p # Arm /\ Engaged(co'[p])
      BY <3>1 DEF Busy
    <3>2. ASSUME NEW r \in Procs \ {p, Arm}, Engaged(co[r]) PROVE Busy'
      BY <1>3, <3>2 DEF Beside, Busy
    <3>3. CASE /\ ~(p # Arm /\ Engaged(co'[p]))
               /\ ~(\E r \in Procs \ {p, Arm} : Engaged(co[r]))
      <4>1. /\ ~stale /\ conv.session /\ (p = Arm \/ ~Engaged(co[p]))
            /\ conv'.state = conv.state /\ conv'.active = conv.active
        BY <1>4, <2>2, <3>3 DEF Returns, BlockedStops
      <4>2. PICK r \in Procs \ {Arm} : Engaged(co[r])
        BY <2>2, <4>1 DEF TurnReturns, Busy
      <4>3. r # p
        BY <4>1, <4>2
      <4>. QED BY <3>3, <4>2, <4>3
    <3>. QED BY <3>1, <3>2, <3>3
  <2>. QED BY <2>1, <2>2
<1>. QED
  BY <1>5, <1>7, <1>8, <1>11, <1>12, <1>13, <1>14, <1>15 DEF Advances

-----------------------------------------------------------------------------
(* What the ways of moving coroutines do to the others.                    *)
LEMMA KeptTypes ==
    ASSUME Kept
    PROVE  /\ conv \in Conversation /\ co \in [Procs -> Coroutine] /\ conv.turn \in Nat
           /\ \A q \in Procs : /\ co[q] \in Coroutine /\ co[q].turn \in Nat /\ Fit(q, co[q])
                               /\ co[q].turn <= conv.turn
           /\ stale \in BOOLEAN
<1>1. conv \in Conversation /\ co \in [Procs -> Coroutine] /\ stale \in BOOLEAN
  BY TypeOKIs DEF Kept
<1>. QED BY <1>1 DEF Kept, KeptFacts, KeptShapes, Conversation, Coroutine

LEMMA RestKept ==
    ASSUME NEW q
    PROVE  /\ Rest \in Coroutine /\ Fit(q, Rest) /\ Rest.turn = 0 /\ ~Shuts(Rest) /\ ~Engaged(Rest)
           /\ ~Expiring(Rest) /\ ~Rest.inTurn /\ Over(Rest) /\ Rest.at = "done" /\ ~Rest.dying
BY RestIs DEF Rest, Fit, Shuts, Engaged, Expiring, Over, Resting

LEMMA AsideCo ==
    ASSUME Kept, NEW p
    PROVE  Aside(co, p)
BY KeptTypes DEF Aside, Beside

LEMMA AsideArm ==
    ASSUME Kept, NEW p, NEW procs, Aside(procs, p)
    PROVE  Aside([procs EXCEPT ![Arm] = Rest], p)
<1>1. Fit(Arm, co[Arm]) /\ conv.turn \in Nat
  BY KeptTypes, Apart
<1>2. Beside(Arm, Rest)
  BY <1>1, RestKept, Apart DEF Beside, Fit, Shuts
<1>. QED BY <1>2, RestKept DEF Aside

LEMMA AsideTimer ==
    ASSUME Kept, NEW p
    PROVE  Aside(TimerCancelled(co), p)
<1>1. Fit(Timer, co[Timer]) /\ conv.turn \in Nat /\ co \in [Procs -> Coroutine]
  BY KeptTypes, Apart
<1>2. CASE co[Timer].at = "leave"
  <2>1. Beside(Timer, Rest)
    BY <1>1, <1>2, RestKept, Apart DEF Beside, Shuts, Engaged
  <2>2. TimerCancelled(co) = [co EXCEPT ![Timer] = Rest]
    BY <1>1, <1>2, Apart DEF TimerCancelled
  <2>. QED BY <2>1, <2>2, AsideCo, RestKept DEF Aside
<1>3. CASE co[Timer].at # "leave"
  <2>1. TimerCancelled(co) = co
    BY <1>1, <1>3 DEF TimerCancelled
  <2>. QED BY <2>1, AsideCo
<1>. QED BY <1>2, <1>3

LEMMA AsideHushed ==
    ASSUME Kept, NEW p
    PROVE  Aside(Hushed(co), p)
<1>1. \A q \in Procs : Fit(q, co[q]) /\ co[q] \in Coroutine /\ Beside(q, co[q])
  BY KeptTypes DEF Beside
<1>2. ASSUME NEW q \in Procs
      PROVE  LET s == IF co[q].at = "saying" THEN [co[q] EXCEPT !.at = "said"] ELSE co[q]
             IN  s \in Coroutine /\ Beside(q, s)
  <2>1. CASE co[q].at = "saying"
    <3>. DEFINE s == [co[q] EXCEPT !.at = "said"]
    <3>1. s \in Coroutine /\ s.at = "said" /\ s.next = co[q].next /\ s.turn = co[q].turn
          /\ s.job = co[q].job /\ s.inTurn = co[q].inTurn /\ s.dying = co[q].dying
          /\ s.waits = co[q].waits
      BY <1>1, Names DEF Coroutine
    <3>. HIDE DEF s
    <3>2. Fit(q, s)
      BY <1>1, <2>1, <3>1 DEF Fit, Shuts
    <3>3. ~co[q].dying
      BY <1>1, <2>1 DEF Fit
    <3>4. Beside(q, s)
      BY <1>1, <2>1, <3>1, <3>2, <3>3 DEF Beside, Shuts, Engaged, Expiring, Over, Resting, Doomed
    <3>. QED BY <2>1, <3>1, <3>4 DEF s
  <2>2. CASE co[q].at # "saying"
    BY <1>1, <2>2
  <2>. QED BY <2>1, <2>2
<1>. QED BY <1>2 DEF Aside, Hushed

LEMMA AsideOwn ==
    ASSUME NEW p \in Procs, NEW procs, Aside(procs, p), NEW s \in Coroutine
    PROVE  Aside([procs EXCEPT ![p] = s], p) /\ [procs EXCEPT ![p] = s][p] = s
BY DEF Aside

(* A coroutine that may go on: it stops nothing, waits for nobody and is   *)
(* not over.                                                               *)
Freed(p) ==
    /\ p # Arm /\ ~Shuts(co[p]) /\ co[p].at # "micStart"
    /\ co[p].at \in {"gatherStop", "cutting"} => \A q \in co[p].waits : Quiescent(q)
    /\ p \in Utterances => ~Over(co[p])

LEMMA FreedMoves ==
    ASSUME NEW p, Freed(p), NEW s, Fit(p, s), s.turn <= conv'.turn, ~Expiring(s),
           s.at \notin {"ready", "queued", "micStop", "gatherStop"}
    PROVE  Moves(p, s)
BY DEF Freed, Moves

(* The fields a step leaves.                                               *)
Frames == conv'.turn \in Nat /\ conv'.turn >= conv.turn /\ (conv'.blocked => conv.blocked)
          /\ mic' = mic /\ timeouts' = timeouts

LEMMA KeptResumed ==
    ASSUME Kept, NEW p \in Procs, Freed(p), NEW procs, Aside(procs, p), NEW c \in Conversation,
           c.turn >= conv.turn, c.blocked => conv.blocked, NEW r \in Coroutine,
           r.turn <= c.turn, ~r.dying, NEW n \in {"listening", "lastTry"},
           ResumeListening(procs, c, p, r, n), mic' = mic, timeouts' = timeouts
    PROVE  Advances(p)
<1>0. c.turn \in Nat /\ conv.turn \in Nat /\ procs \in [Procs -> Coroutine] /\ stale \in BOOLEAN
  BY KeptTypes DEF Conversation, Aside
<1>1. CASE c.blocked \/ r.turn # c.turn
  <2>1. /\ conv' = Silenced(c) /\ co' = [procs EXCEPT ![p] = Rest] /\ stale' = (stale \/ ~c.blocked)
    BY <1>1 DEF ResumeListening
  <2>2. conv'.turn = c.turn /\ conv'.blocked = c.blocked
    BY <2>1 DEF Silenced, Conversation
  <2>3. Aside(co', p) /\ co'[p] = Rest
    BY <2>1, AsideOwn, RestKept
  <2>4. Moves(p, Rest)
    BY <1>0, <2>2, FreedMoves, RestKept
  <2>5. Returns(p, Rest)
    BY <2>1 DEF Returns
  <2>. QED BY <1>0, <2>2, <2>3, <2>4, <2>5 DEF Advances
<1>2. CASE ~(c.blocked \/ r.turn # c.turn)
  <2>. DEFINE w == [r EXCEPT !.at = "micStart", !.next = n]
              s == IF StreamReady THEN Rest ELSE w
  <2>1. /\ conv' = [c EXCEPT !.state = "listening", !.accept = TRUE, !.active = TRUE,
                             !.interrupt = FALSE, !.armed = FALSE]
        /\ co' = [procs EXCEPT ![p] = s] /\ stale' = stale
    BY <1>2 DEF ResumeListening
  <2>2. /\ conv'.turn = c.turn /\ conv'.blocked = c.blocked /\ conv'.state = "listening"
        /\ conv'.active /\ conv'.session = c.session
    BY <2>1 DEF Conversation
  <2>3. w \in Coroutine /\ w.at = "micStart" /\ w.next = n /\ w.turn = r.turn /\ ~w.dying
        /\ w.job = r.job
    BY Names DEF Coroutine
  <2>. HIDE DEF w
  <2>4. Fit(p, w) /\ ~Expiring(w)
    BY <2>3 DEF Fit, Shuts, Expiring, Freed
  <2>5. Fit(p, s) /\ ~Expiring(s) /\ s \in Coroutine /\ s.turn <= c.turn
        /\ s.at \in {"done", "micStart"} /\ (s.at = "micStart" \/ mic # "off")
    BY <1>0, <2>3, <2>4, RestKept DEF StreamReady
  <2>. HIDE DEF s
  <2>6. Aside(co', p) /\ co'[p] = s
    BY <2>1, <2>5, AsideOwn
  <2>7. Moves(p, s)
    BY <2>2, <2>5, FreedMoves
  <2>8. Returns(p, s)
    BY <2>1, <2>2, <2>5 DEF Returns, Freed
  <2>. QED BY <1>0, <2>2, <2>6, <2>7, <2>8 DEF Advances
<1>. QED BY <1>1, <1>2

LEMMA KeptSpeaks ==
    ASSUME Kept, NEW p \in Procs, Freed(p), NEW procs, Aside(procs, p), NEW c \in Conversation,
           c.turn >= conv.turn, c.blocked => conv.blocked, NEW r \in Coroutine,
           r.turn <= c.turn, ~r.dying, NEW j \in Jobs \ {"stopping"},
           StartSpeaking(procs, c, p, r, j), mic' = mic, timeouts' = timeouts
    PROVE  Advances(p)
<1>0. c.turn \in Nat /\ conv.turn \in Nat /\ procs \in [Procs -> Coroutine] /\ p # Arm /\ reuse
  BY KeptTypes DEF Conversation, Aside, Freed, Kept
<1>. DEFINE w == [r EXCEPT !.job = j, !.next = "opens"]
            m == [w EXCEPT !.at = "micStart"]
            k == [w EXCEPT !.at = "speak", !.opened = FALSE]
            a == [Rest EXCEPT !.at = "grace", !.owner = p, !.turn = w.turn]
<1>1. /\ w \in Coroutine /\ w.turn = r.turn /\ w.job = j /\ w.next = "opens" /\ ~w.dying
  BY Names DEF Coroutine
<1>2. /\ m \in Coroutine /\ m.turn = r.turn /\ m.job = j /\ m.next = "opens" /\ ~m.dying
      /\ m.at = "micStart"
  BY <1>1, Names DEF Coroutine
<1>3. /\ k \in Coroutine /\ k.turn = r.turn /\ k.job = j /\ ~k.dying /\ k.at = "speak"
  BY <1>1, Names DEF Coroutine
<1>4. a \in Coroutine /\ a.at = "grace" /\ a.turn = r.turn /\ ~a.dying /\ ~a.inTurn /\ a.job = "none"
  BY <1>1, Names DEF Coroutine, Rest, Jobs
<1>5. /\ conv' = [c EXCEPT !.state = "speaking", !.armed = FALSE, !.barge = None,
                           !.accept = IF ~reuse THEN FALSE ELSE IF StreamReady THEN TRUE ELSE @]
      /\ stale' = stale
  BY DEF StartSpeaking
<1>6. conv'.turn = c.turn /\ conv'.blocked = c.blocked /\ conv'.session = c.session
  BY <1>5 DEF Conversation
<1>7. CASE ~StreamReady
  <2>1. co' = [procs EXCEPT ![p] = m]
    BY <1>0, <1>7 DEF StartSpeaking
  <2>. HIDE DEF w, m
  <2>2. Aside(co', p) /\ co'[p] = m
    BY <1>2, <2>1, AsideOwn
  <2>3. Fit(p, m) /\ ~Expiring(m) /\ Engaged(m)
    BY <1>0, <1>2 DEF Fit, Shuts, Expiring, Engaged
  <2>4. Moves(p, m)
    BY <1>2, <1>6, <2>3, FreedMoves
  <2>5. Returns(p, m)
    BY <1>0, <1>2, <1>5, <2>3 DEF Returns
  <2>. QED BY <1>0, <1>6, <2>2, <2>4, <2>5 DEF Advances
<1>8. CASE StreamReady
  <2>1. co' = SpeechOpens([procs EXCEPT ![p] = w], p)
    BY <1>0, <1>8 DEF StartSpeaking
  <2>2. co' = [[procs EXCEPT ![p] = k] EXCEPT ![Arm] = a]
    BY <1>0, <2>1 DEF SpeechOpens
  <2>. HIDE DEF w, k, a
  <2>3. Aside([procs EXCEPT ![p] = k], p) /\ [procs EXCEPT ![p] = k][p] = k
    BY <1>3, AsideOwn
  <2>4. Fit(Arm, co[Arm])
    BY KeptTypes, Apart
  <2>5. Beside(Arm, a)
    <3>1. Fit(Arm, a)
      BY <1>4 DEF Fit, Shuts
    <3>2. ~Shuts(co[Arm]) /\ co[Arm].at \notin {"gatherStop", "cutting", "armPaused"}
      BY <2>4 DEF Fit, Shuts
    <3>. QED BY <1>4, <1>6, <3>1, <3>2, Apart DEF Beside, Expiring
  <2>6. Aside(co', p) /\ co'[p] = k
    <3>. DEFINE g == [procs EXCEPT ![p] = k]
    <3>1. g \in [Procs -> Coroutine] /\ g[p] = k /\ \A q \in Procs \ {p} : Beside(q, g[q])
      BY <2>3 DEF Aside
    <3>. HIDE DEF g
    <3>2. co' = [g EXCEPT ![Arm] = a]
      BY <2>2 DEF g
    <3>. QED BY <1>0, <1>4, <2>5, <3>1, <3>2, Apart DEF Aside
  <2>7. Fit(p, k) /\ ~Expiring(k) /\ Engaged(k)
    BY <1>0, <1>3 DEF Fit, Shuts, Expiring, Engaged
  <2>8. Moves(p, k)
    BY <1>3, <1>6, <2>7, FreedMoves
  <2>9. Returns(p, k)
    BY <1>0, <1>5, <1>8, <2>7 DEF Returns, StreamReady
  <2>. QED BY <1>0, <1>6, <2>6, <2>8, <2>9 DEF Advances
<1>. QED BY <1>7, <1>8

-----------------------------------------------------------------------------
(* Action by action, with a kept stream.  A coroutine at one of these      *)
(* awaits may go on.                                                       *)
Going == {"begin", "thinking", "executing", "speak", "saying", "spoken", "listen", "resumed",
          "greet", "opens", "armPaused", "direct", "leave", "rearmed", "rearmOff", "ready", "queued",
          "unanswered", "cut"}

LEMMA FreedAt ==
    ASSUME Kept, NEW p \in Procs,
           co[p].at \in Going \/ (co[p].at = "said" /\ ~co[p].dying),
           co[p].at = "cut" => co[p].job # "stopping"
    PROVE  Freed(p) /\ ~co[p].dying /\ co[p].job \in Jobs /\ p # Arm
<1>1. Fit(p, co[p]) /\ co[p] \in Coroutine
  BY KeptTypes
<1>2. ~co[p].dying /\ p # Arm
  BY <1>1 DEF Fit, Going
<1>. QED BY <1>1, <1>2 DEF Freed, Going, Shuts, Over, Resting, Doomed, Coroutine

LEMMA KeptGoes ==
    ASSUME Kept, NEW p \in Procs, Freed(p), NEW s \in Coroutine, Goes(p, s), Frames,
           Fit(p, s), s.turn <= conv'.turn, ~Expiring(s),
           s.at \notin {"ready", "queued", "micStop", "gatherStop"}, Returns(p, s)
    PROVE  Advances(p)
<1>1. Aside(co', p) /\ co'[p] = s
  BY AsideCo, AsideOwn DEF Goes
<1>2. Moves(p, s)
  BY FreedMoves
<1>. QED BY <1>1, <1>2 DEF Advances, Frames

LEMMA KeptEnds ==
    ASSUME Kept, NEW p \in Procs, Freed(p), Ends(p), Frames, Returns(p, Rest)
    PROVE  Advances(p)
<1>1. Rest.turn <= conv'.turn
  BY RestKept DEF Frames
<1>. QED BY <1>1, RestKept, KeptGoes DEF Ends

(* Nothing but the awaits of one coroutine changes.                        *)
LEMMA FramesSame ==
    ASSUME Kept, conv' = conv, mic' = mic, timeouts' = timeouts
    PROVE  Frames
BY KeptTypes DEF Frames

LEMMA KeptPauseConfirmed ==
    ASSUME Kept, NEW p \in Procs, PauseConfirmed(p)
    PROVE  Advances(p)
<1>. DEFINE s == [co[p] EXCEPT !.at = "cut", !.job = "pausing"]
<1>1. co[p].at = "begin" /\ mic' = mic /\ timeouts' = timeouts
  BY DEF Kept, PauseConfirmed, Deciding
<1>2. Freed(p) /\ ~co[p].dying /\ p # Arm
  BY <1>1, FreedAt DEF Going
<1>3. s \in Coroutine /\ s.at = "cut" /\ s.job = "pausing" /\ s.turn = co[p].turn /\ ~s.dying
  <2>1. co[p] \in Coroutine /\ "pausing" \in Jobs
    BY KeptTypes DEF Jobs
  <2>. QED BY <1>2, <2>1, Names DEF Coroutine
<1>4. /\ conv'.turn = conv.turn /\ conv'.blocked = conv.blocked /\ conv'.session = conv.session
      /\ Goes(p, s) /\ stale' = stale
  BY KeptTypes DEF PauseConfirmed, Conversation
<1>. HIDE DEF s
<1>5. Fit(p, s) /\ ~Expiring(s) /\ Engaged(s)
  BY <1>2, <1>3 DEF Fit, Shuts, Expiring, Engaged
<1>6. Frames /\ s.turn <= conv'.turn
  BY <1>1, <1>3, <1>4, KeptTypes DEF Frames
<1>7. Returns(p, s)
  BY <1>2, <1>4, <1>5 DEF Returns
<1>. QED BY <1>2, <1>3, <1>4, <1>5, <1>6, <1>7, KeptGoes

LEMMA KeptPrompts ==
    ASSUME Kept, NEW p \in Procs, PauseNotConfirmed(p) \/ PauseAsked(p)
    PROVE  Advances(p)
<1>1. co[p].at = "begin" /\ mic' = mic /\ timeouts' = timeouts
  BY DEF Kept, PauseNotConfirmed, PauseAsked, Deciding
<1>2. PICK b \in BOOLEAN : StartSpeaking(co, [conv EXCEPT !.asking = b], p, co[p], "prompt")
  BY DEF PauseNotConfirmed, PauseAsked, Prompts
<1>. DEFINE c == [conv EXCEPT !.asking = b]
<1>3. c \in Conversation /\ c.turn = conv.turn /\ c.blocked = conv.blocked
  BY KeptTypes DEF Conversation
<1>4. Freed(p) /\ ~co[p].dying /\ Aside(co, p) /\ "prompt" \in Jobs \ {"stopping"}
  BY <1>1, FreedAt, AsideCo DEF Going, Jobs
<1>5. StartSpeaking(co, c, p, co[p], "prompt")
  BY <1>2
<1>. HIDE DEF c
<1>. QED BY <1>1, <1>3, <1>4, <1>5, KeptSpeaks, KeptTypes

LEMMA KeptAssistantAsked ==
    ASSUME Kept, NEW p \in Procs, AssistantAsked(p)
    PROVE  Advances(p)
<1>. DEFINE s == [co[p] EXCEPT !.at = "thinking"]
<1>1. co[p].at = "begin" /\ mic' = mic /\ timeouts' = timeouts
  BY DEF Kept, AssistantAsked, Deciding
<1>2. Freed(p) /\ ~co[p].dying /\ p # Arm
  BY <1>1, FreedAt DEF Going
<1>3. s \in Coroutine /\ s.at = "thinking" /\ s.turn = co[p].turn /\ ~s.dying
  BY <1>2, KeptTypes, Names DEF Coroutine
<1>4. /\ conv'.turn = conv.turn /\ conv'.blocked = conv.blocked /\ conv'.session = conv.session
      /\ Goes(p, s) /\ stale' = stale
  BY KeptTypes DEF AssistantAsked, Conversation
<1>. HIDE DEF s
<1>5. Fit(p, s) /\ ~Expiring(s) /\ Engaged(s)
  BY <1>2, <1>3 DEF Fit, Shuts, Expiring, Engaged
<1>6. Frames /\ s.turn <= conv'.turn
  BY <1>1, <1>3, <1>4, KeptTypes DEF Frames
<1>7. Returns(p, s)
  BY <1>2, <1>4, <1>5 DEF Returns
<1>. QED BY <1>2, <1>3, <1>4, <1>5, <1>6, <1>7, KeptGoes

(* After the reply: TurnOver, with what the cleanup of the speech leaves.  *)
LEMMA KeptTurnOver ==
    ASSUME Kept, NEW p \in Procs, Freed(p), ~co[p].dying,
           NEW procs, Aside(procs, p), NEW c \in Conversation, c.turn = conv.turn,
           c.blocked = conv.blocked, TurnOver(procs, c, p), mic' = mic, timeouts' = timeouts
    PROVE  Advances(p)
<1>1. CASE ~Interrupted(co[p].turn) /\ ~c.session
  <2>1. conv' = Silenced(c) /\ co' = [procs EXCEPT ![p] = Rest]
    BY <1>1 DEF TurnOver
  <2>2. conv'.turn = c.turn /\ conv'.blocked = c.blocked /\ ~conv'.session
    BY <1>1, <2>1 DEF Silenced, Conversation
  <2>3. Aside(co', p) /\ co'[p] = Rest
    BY <2>1, AsideOwn, RestKept
  <2>4. Moves(p, Rest)
    BY <2>2, FreedMoves, RestKept, KeptTypes
  <2>. QED BY <2>2, <2>3, <2>4, KeptTypes DEF Advances, Returns
<1>2. CASE ~(~Interrupted(co[p].turn) /\ ~c.session)
  <2>1. ResumeListening(procs, c, p, co[p], "listening")
    BY <1>2 DEF TurnOver
  <2>. QED BY <2>1, KeptResumed, KeptTypes
<1>. QED BY <1>1, <1>2

LEMMA KeptAssistantAnswers ==
    ASSUME Kept, NEW p \in Procs, AssistantAnswers(p)
    PROVE  Advances(p)
<1>1. co[p].at = "thinking" /\ mic' = mic /\ timeouts' = timeouts
  BY DEF AssistantAnswers
<1>2. Freed(p) /\ ~co[p].dying /\ p # Arm /\ Fit(p, co[p]) /\ co[p] \in Coroutine
      /\ co[p].turn <= conv.turn /\ Aside(co, p) /\ conv \in Conversation
  BY <1>1, FreedAt, KeptTypes, AsideCo DEF Going
<1>3. CASE ResumeListening(co, conv, p, co[p], "listening")
  BY <1>1, <1>2, <1>3, KeptResumed, KeptTypes
<1>4. ASSUME NEW b \in BOOLEAN, StartSpeaking(co, [conv EXCEPT !.session = b], p, co[p], "reply")
      PROVE  Advances(p)
  <2>. DEFINE c == [conv EXCEPT !.session = b]
  <2>1. c \in Conversation /\ c.turn = conv.turn /\ c.blocked = conv.blocked
    BY <1>2 DEF Conversation
  <2>2. StartSpeaking(co, c, p, co[p], "reply") /\ "reply" \in Jobs \ {"stopping"}
    BY <1>4 DEF Jobs
  <2>. HIDE DEF c
  <2>. QED BY <1>1, <1>2, <2>1, <2>2, KeptSpeaks, KeptTypes
<1>5. CASE Goes(p, [co[p] EXCEPT !.at = "executing"]) /\ UNCHANGED <<conv, stale>>
  <2>. DEFINE s == [co[p] EXCEPT !.at = "executing"]
  <2>1. s \in Coroutine /\ s.at = "executing" /\ s.turn = co[p].turn /\ ~s.dying
    BY <1>2, Names DEF Coroutine
  <2>2. Goes(p, s) /\ conv' = conv /\ stale' = stale
    BY <1>5
  <2>. HIDE DEF s
  <2>3. Fit(p, s) /\ ~Expiring(s) /\ Engaged(s)
    BY <1>2, <2>1 DEF Fit, Shuts, Expiring, Engaged
  <2>4. Frames /\ s.turn <= conv'.turn
    BY <1>1, <1>2, <2>1, <2>2, FramesSame
  <2>5. Returns(p, s)
    BY <1>2, <2>2, <2>3 DEF Returns
  <2>. QED BY <1>2, <2>1, <2>2, <2>3, <2>4, <2>5, KeptGoes
<1>6. CASE TurnOver(co, conv, p)
  BY <1>1, <1>2, <1>6, KeptTurnOver
<1>7. CASE StartSpeaking(co, conv, p, co[p], "reply")
  BY <1>1, <1>2, <1>7, KeptSpeaks, KeptTypes DEF Jobs
<1>. QED BY <1>3, <1>4, <1>5, <1>6, <1>7 DEF AssistantAnswers

LEMMA KeptExecutionCompletes ==
    ASSUME Kept, NEW p \in Procs, ExecutionCompletes(p)
    PROVE  Advances(p)
<1>1. co[p].at = "executing" /\ mic' = mic /\ timeouts' = timeouts
  BY DEF ExecutionCompletes
<1>2. Freed(p) /\ ~co[p].dying /\ Aside(co, p)
  BY <1>1, FreedAt, AsideCo DEF Going
<1>3. CASE ResumeListening(co, conv, p, co[p], "listening")
  BY <1>1, <1>2, <1>3, KeptResumed, KeptTypes
<1>4. CASE StartSpeaking(co, conv, p, co[p], "reply")
  BY <1>1, <1>2, <1>4, KeptSpeaks, KeptTypes DEF Jobs
<1>. QED BY <1>3, <1>4 DEF ExecutionCompletes

LEMMA KeptRelistens ==
    ASSUME Kept, NEW p \in Procs, Relistens(p)
    PROVE  Advances(p)
<1>1. co[p].at = "listen" /\ mic' = mic /\ timeouts' = timeouts
  BY DEF Relistens
<1>2. Freed(p) /\ ~co[p].dying /\ Aside(co, p)
  BY <1>1, FreedAt, AsideCo DEF Going
<1>. QED BY <1>1, <1>2, KeptResumed, KeptTypes DEF Relistens

LEMMA KeptResumes ==
    ASSUME Kept, NEW p \in Procs, Resumes(p)
    PROVE  Advances(p)
<1>1. co[p].at = "resumed" /\ mic' = mic /\ timeouts' = timeouts
  BY DEF Resumes
<1>2. Freed(p) /\ ~co[p].dying /\ Aside(co, p)
  BY <1>1, FreedAt, AsideCo DEF Going
<1>. QED BY <1>1, <1>2, KeptSpeaks, KeptTypes DEF Resumes, Jobs

LEMMA KeptGreets ==
    ASSUME Kept, NEW p \in Procs, Greets(p)
    PROVE  Advances(p)
<1>1. co[p].at = "greet" /\ mic' = mic /\ timeouts' = timeouts
  BY DEF Greets
<1>2. Freed(p) /\ ~co[p].dying /\ Aside(co, p)
  BY <1>1, FreedAt, AsideCo DEF Going
<1>. DEFINE c == [conv EXCEPT !.session = TRUE]
<1>3. c \in Conversation /\ c.turn = conv.turn /\ c.blocked = conv.blocked
  BY KeptTypes DEF Conversation
<1>4. StartSpeaking(co, c, p, co[p], "greeting") /\ "greeting" \in Jobs \ {"stopping"}
  BY DEF Greets, Jobs
<1>. HIDE DEF c
<1>. QED BY <1>1, <1>2, <1>3, <1>4, KeptSpeaks, KeptTypes

(* A coroutine that is cancelled gives the conversation up only while      *)
(* whoever cancelled it still waits for it.                                *)
LEMMA KeptUnwinds ==
    ASSUME Kept, NEW p \in Procs, Unwinds(p)
    PROVE  Advances(p)
<1>1. co[p].at = "unwind" /\ mic' = mic /\ timeouts' = timeouts /\ stale' = stale
  BY DEF Unwinds
<1>2. p # Arm /\ co \in [Procs -> Coroutine] /\ \A q \in Procs : Fit(q, co[q])
  BY <1>1, KeptTypes DEF Fit
<1>. DEFINE s == IF p = Watch THEN [Rest EXCEPT !.at = "dead"] ELSE Rest
<1>3. s \in Coroutine /\ s.at \in {"done", "dead"} /\ s.turn = 0 /\ ~s.dying /\ s.job = "none"
  BY RestIs, Names DEF Coroutine
<1>4. Goes(p, s)
  BY DEF Unwinds
<1>. HIDE DEF s
<1>5. Aside(co', p) /\ co'[p] = s
  BY <1>3, <1>4, AsideCo, AsideOwn DEF Goes
<1>6. conv'.turn = conv.turn /\ conv'.blocked = conv.blocked /\ conv'.session = conv.session
  BY KeptTypes DEF Unwinds, Silenced, Conversation
<1>7. Moves(p, s)
  BY <1>1, <1>2, <1>3, <1>6, KeptTypes DEF Moves, Fit, Shuts, Expiring, Over, Resting
<1>8. Returns(p, s)
  <2>1. CASE ~Current(co[p], conv)
    BY <1>1, <1>2, <2>1 DEF Unwinds, Current, Returns, Engaged
  <2>2. CASE Current(co[p], conv)
    <3>1. PICK r \in Procs : co[r].at \in {"gatherStop", "cutting"} /\ p \in co[r].waits
      BY <1>1, <2>2 DEF Kept, KeptFacts, ExpiryAwaited, Expiring, Awaited
    <3>2. CASE co[r].at = "gatherStop"
      BY <1>2, <3>2 DEF Fit, Stopping, Returns
    <3>3. CASE co[r].at = "cutting"
      <4>1. Engaged(co[r]) /\ r # p /\ r # Arm
        BY <1>1, <1>2, <3>3 DEF Fit, Engaged
      <4>. QED BY <1>1, <1>6, <4>1 DEF Returns
    <3>. QED BY <3>1, <3>2, <3>3
  <2>. QED BY <2>1, <2>2
<1>. QED BY <1>1, <1>5, <1>6, <1>7, <1>8, KeptTypes DEF Advances

-----------------------------------------------------------------------------
(* Speech with a kept stream.                                              *)
LEMMA KeptSpeechPrepared ==
    ASSUME Kept, NEW p \in Procs, SpeechPrepared(p)
    PROVE  Advances(p)
<1>1. co[p].at = "opens" /\ mic' = mic /\ timeouts' = timeouts /\ stale' = stale
  BY DEF SpeechPrepared
<1>2. Freed(p) /\ ~co[p].dying /\ p # Arm /\ co[p] \in Coroutine /\ Fit(p, co[p])
      /\ co[p].turn <= conv.turn /\ co \in [Procs -> Coroutine] /\ conv.turn \in Nat
  BY <1>1, FreedAt, KeptTypes DEF Going
<1>. DEFINE k == [co[p] EXCEPT !.at = "speak", !.opened = FALSE]
            a == [Rest EXCEPT !.at = "grace", !.owner = p, !.turn = co[p].turn]
            g == [co EXCEPT ![p] = k]
<1>3. k \in Coroutine /\ k.turn = co[p].turn /\ k.job = co[p].job /\ ~k.dying /\ k.at = "speak"
  BY <1>2, Names DEF Coroutine
<1>4. a \in Coroutine /\ a.at = "grace" /\ a.turn = co[p].turn /\ ~a.dying /\ ~a.inTurn /\ a.job = "none"
  <2>1. co[p].turn \in Nat
    BY KeptTypes
  <2>. QED BY <2>1, Names DEF Coroutine, Rest, Jobs
<1>5. co' = [g EXCEPT ![Arm] = a]
  BY <1>2 DEF SpeechPrepared, SpeechOpens
<1>6. /\ conv'.turn = conv.turn /\ conv'.blocked = conv.blocked /\ conv'.session = conv.session
      /\ conv'.state = conv.state /\ conv'.active = conv.active
  BY KeptTypes DEF SpeechPrepared, Conversation
<1>. HIDE DEF k, a
<1>7. Aside(g, p) /\ g[p] = k
  BY <1>3, AsideCo, AsideOwn
<1>. HIDE DEF g
<1>8. Beside(Arm, a)
  <2>1. Fit(Arm, co[Arm])
    BY KeptTypes, Apart
  <2>2. Fit(Arm, a)
    BY <1>4 DEF Fit, Shuts
  <2>3. ~Shuts(co[Arm]) /\ co[Arm].at \notin {"gatherStop", "cutting", "armPaused"}
    BY <2>1 DEF Fit, Shuts
  <2>. QED BY <1>2, <1>4, <1>6, <2>2, <2>3, Apart DEF Beside, Expiring
<1>9. Aside(co', p) /\ co'[p] = k
  BY <1>2, <1>4, <1>5, <1>7, <1>8, Apart DEF Aside
<1>10. Fit(p, k) /\ ~Expiring(k) /\ Engaged(k)
  BY <1>2, <1>3 DEF Fit, Shuts, Expiring, Engaged
<1>11. Moves(p, k)
  BY <1>2, <1>3, <1>6, <1>10, FreedMoves
<1>12. Returns(p, k)
  BY <1>1, <1>2, <1>6, <1>10 DEF Returns, Kept, KeptFacts, MicReturns
<1>. QED BY <1>1, <1>2, <1>6, <1>9, <1>11, <1>12 DEF Advances

(* Between the awaits of speech only the speaker moves.                    *)
LEMMA KeptSpeechGoes ==
    ASSUME Kept, NEW p \in Procs, SpeechStarts(p) \/ SpeechEnds(p)
    PROVE  Advances(p)
<1>1. PICK a \in {"saying", "said"} :
        /\ co[p].at \in {"speak", "saying"} /\ Goes(p, [co[p] EXCEPT !.at = a])
        /\ mic' = mic /\ timeouts' = timeouts /\ stale' = stale /\ conv' = conv
  BY DEF SpeechStarts, SpeechEnds
<1>2. Freed(p) /\ ~co[p].dying /\ p # Arm /\ co[p] \in Coroutine /\ Fit(p, co[p])
      /\ co[p].turn <= conv.turn
  BY <1>1, FreedAt, KeptTypes DEF Going
<1>. DEFINE s == [co[p] EXCEPT !.at = a]
<1>3. s \in Coroutine /\ s.at = a /\ s.turn = co[p].turn /\ ~s.dying
  BY <1>2, Names DEF Coroutine
<1>4. Goes(p, s)
  BY <1>1
<1>. HIDE DEF s
<1>5. Fit(p, s) /\ ~Expiring(s) /\ Engaged(s)
  BY <1>2, <1>3 DEF Fit, Shuts, Expiring, Engaged
<1>6. Frames /\ s.turn <= conv'.turn
  BY <1>1, <1>2, <1>3, FramesSame
<1>7. Returns(p, s)
  BY <1>1, <1>2, <1>5 DEF Returns
<1>. QED BY <1>2, <1>3, <1>4, <1>5, <1>6, <1>7, KeptGoes

(* The coroutine that is past its speech, with what the cleanup leaves.    *)
LEMMA KeptSpoken ==
    ASSUME Kept, NEW p \in Procs, Spoken(p)
    PROVE  /\ co[p].at \in {"said", "spoken"} /\ mic' = mic /\ timeouts' = timeouts
           /\ Aside(Cleaned(p), p) /\ p # Arm /\ co[p] \in Coroutine /\ Fit(p, co[p])
           /\ Cleaned(p) \in [Procs -> Coroutine] /\ Cleaned(p)[p] = co[p]
           /\ AfterSpeech(p) \in Conversation /\ AfterSpeech(p).turn = conv.turn
           /\ AfterSpeech(p).blocked = conv.blocked /\ AfterSpeech(p).session = conv.session
           /\ AfterSpeech(p).state = conv.state /\ AfterSpeech(p).active = conv.active
           /\ ~co[p].dying => Freed(p)
<1>1. co[p].at \in {"said", "spoken"} /\ mic' = mic /\ timeouts' = timeouts
  BY DEF Spoken
<1>2. co[p] \in Coroutine /\ Fit(p, co[p]) /\ p # Arm
  BY <1>1, KeptTypes DEF Fit
<1>3. Aside(Cleaned(p), p)
  BY AsideCo, AsideArm DEF Cleaned
<1>4. Cleaned(p) \in [Procs -> Coroutine]
  BY <1>3 DEF Aside
<1>5. Cleaned(p)[p] = co[p]
  BY <1>2, KeptTypes DEF Cleaned
<1>6. /\ AfterSpeech(p) \in Conversation /\ AfterSpeech(p).turn = conv.turn
      /\ AfterSpeech(p).blocked = conv.blocked /\ AfterSpeech(p).session = conv.session
      /\ AfterSpeech(p).state = conv.state /\ AfterSpeech(p).active = conv.active
  <2>. DEFINE a == IF co[p].at = "said" THEN FALSE ELSE conv.armed
  <2>1. conv \in Conversation /\ reuse \in BOOLEAN
    BY KeptTypes, ReuseIs DEF Kept
  <2>2. a \in BOOLEAN
    BY <2>1 DEF Conversation
  <2>3. AfterSpeech(p) = [conv EXCEPT !.accept = reuse, !.armed = a]
    BY <2>1 DEF AfterSpeech, Conversation
  <2>. HIDE DEF a
  <2>. QED BY <2>1, <2>2, <2>3 DEF Conversation
<1>7. ~co[p].dying => Freed(p)
  BY <1>1, FreedAt DEF Going
<1>. QED BY <1>1, <1>2, <1>3, <1>4, <1>5, <1>6, <1>7

LEMMA KeptSpokenCancelled ==
    ASSUME Kept, NEW p \in Procs, SpokenCancelled(p)
    PROVE  Advances(p)
<1>. DEFINE s == [co[p] EXCEPT !.at = "unwind", !.dying = FALSE]
<1>1. Spoken(p) /\ co[p].dying /\ conv' = AfterSpeech(p) /\ stale' = stale
  BY DEF SpokenCancelled
<1>2. co[p].at = "said" /\ co[p] \in Coroutine /\ p # Arm /\ Fit(p, co[p]) /\ conv.turn \in Nat
      /\ co[p].turn <= conv.turn
  BY <1>1, KeptSpoken, KeptTypes DEF Fit
<1>3. s \in Coroutine /\ s.at = "unwind" /\ ~s.dying /\ s.turn = co[p].turn /\ s.inTurn = co[p].inTurn
  BY <1>2, Names DEF Coroutine
<1>4. co' = [Cleaned(p) EXCEPT ![p] = s]
  BY <1>1, KeptSpoken DEF SpokenCancelled
<1>. HIDE DEF s
<1>5. Aside(co', p) /\ co'[p] = s
  BY <1>1, <1>3, <1>4, KeptSpoken, AsideOwn
<1>6. conv'.turn = conv.turn /\ conv'.blocked = conv.blocked /\ conv'.session = conv.session
      /\ conv'.state = conv.state /\ conv'.active = conv.active /\ mic' = mic /\ timeouts' = timeouts
  BY <1>1, KeptSpoken
<1>7. Moves(p, s)
  BY <1>1, <1>2, <1>3, <1>6 DEF Moves, Fit, Shuts, Expiring, Over, Doomed
<1>8. Returns(p, s)
  BY <1>1, <1>6 DEF Returns, Engaged
<1>. QED BY <1>2, <1>5, <1>6, <1>7, <1>8 DEF Advances

LEMMA KeptSpokenBarge ==
    ASSUME Kept, NEW p \in Procs, SpokenBarge(p)
    PROVE  Advances(p)
<1>. DEFINE t == IF co[p].job = "greeting" THEN conv.turn ELSE conv.turn + 1
            s == Turn(co[p], t, conv.barge)
<1>1. Spoken(p) /\ ~co[p].dying /\ stale' = stale /\ conv.barge # None
  BY DEF SpokenBarge
<1>2. co[p] \in Coroutine /\ p # Arm /\ conv.turn \in Nat /\ Freed(p) /\ conv.barge \in Procs
  BY <1>1, KeptSpoken, KeptTypes, Apart DEF Conversation
<1>3. t \in Nat /\ t >= conv.turn
  BY <1>2
<1>4. s \in Coroutine /\ s.at = "begin" /\ ~s.dying /\ s.turn = t
  <2>. HIDE DEF t
  <2>. QED BY <1>1, <1>2, <1>3, Names DEF Coroutine, Turn, Jobs
<1>5. co' = [Cleaned(p) EXCEPT ![p] = s]
  BY <1>1, KeptSpoken DEF SpokenBarge
<1>6. conv'.turn = t /\ conv'.blocked = conv.blocked /\ conv'.session = conv.session
  <2>1. /\ AfterSpeech(p) \in Conversation /\ AfterSpeech(p).blocked = conv.blocked
        /\ AfterSpeech(p).session = conv.session
    BY <1>1, KeptSpoken
  <2>. QED BY <2>1 DEF SpokenBarge, Conversation
<1>. HIDE DEF s, t
<1>7. Aside(co', p) /\ co'[p] = s
  BY <1>1, <1>4, <1>5, KeptSpoken, AsideOwn
<1>8. Fit(p, s) /\ ~Expiring(s) /\ Engaged(s)
  BY <1>2, <1>4 DEF Fit, Shuts, Expiring, Engaged
<1>9. Moves(p, s)
  BY <1>2, <1>3, <1>4, <1>6, <1>8, FreedMoves
<1>10. Returns(p, s)
  BY <1>1, <1>2, <1>6, <1>8 DEF Returns
<1>. QED BY <1>1, <1>3, <1>6, <1>7, <1>9, <1>10, KeptSpoken DEF Advances

LEMMA KeptSpokenOut ==
    ASSUME Kept, NEW p \in Procs, SpokenOut(p)
    PROVE  Advances(p)
<1>1. Spoken(p) /\ ~co[p].dying
  BY DEF SpokenOut
<1>2. Freed(p) /\ Aside(Cleaned(p), p) /\ co[p] \in Coroutine /\ mic' = mic /\ timeouts' = timeouts
      /\ AfterSpeech(p) \in Conversation /\ AfterSpeech(p).turn = conv.turn
      /\ AfterSpeech(p).blocked = conv.blocked
  BY <1>1, KeptSpoken
<1>3. CASE TurnOver(Cleaned(p), AfterSpeech(p), p)
  BY <1>1, <1>2, <1>3, KeptTurnOver
<1>4. CASE ResumeListening(Cleaned(p), AfterSpeech(p), p, co[p], "listening")
  BY <1>1, <1>2, <1>4, KeptResumed, KeptTypes
<1>5. CASE /\ conv.blocked /\ conv' = [AfterSpeech(p) EXCEPT !.state = "idle", !.active = FALSE]
           /\ co' = [Cleaned(p) EXCEPT ![p] = Rest]
  <2>1. conv'.turn = conv.turn /\ conv'.blocked
    BY <1>2, <1>5 DEF Conversation
  <2>2. Aside(co', p) /\ co'[p] = Rest
    BY <1>2, <1>5, AsideOwn, RestKept
  <2>3. Moves(p, Rest)
    BY <1>2, <2>1, FreedMoves, RestKept, KeptTypes
  <2>4. Returns(p, Rest)
    BY <1>5 DEF Returns, Kept, KeptFacts, BlockedStops
  <2>. QED BY <1>2, <1>5, <2>1, <2>2, <2>3, <2>4, KeptTypes DEF Advances
<1>. QED BY <1>3, <1>4, <1>5 DEF SpokenOut

LEMMA KeptSpokenPause ==
    ASSUME Kept, NEW p \in Procs, SpokenPause(p)
    PROVE  Advances(p)
<1>. DEFINE c == [AfterSpeech(p) EXCEPT !.barge = None]
<1>1. Spoken(p) /\ ~co[p].dying
  BY DEF SpokenPause
<1>2. Freed(p) /\ Aside(Cleaned(p), p) /\ co[p] \in Coroutine /\ mic' = mic /\ timeouts' = timeouts
      /\ AfterSpeech(p) \in Conversation /\ AfterSpeech(p).turn = conv.turn /\ p # Arm
      /\ AfterSpeech(p).blocked = conv.blocked /\ AfterSpeech(p).session = conv.session
      /\ Cleaned(p) \in [Procs -> Coroutine] /\ Cleaned(p)[p] = co[p] /\ Fit(p, co[p])
  BY <1>1, KeptSpoken
<1>3. c \in Conversation /\ c.turn = conv.turn /\ c.blocked = conv.blocked /\ c.session = conv.session
  BY <1>2 DEF Conversation
<1>4. CASE conv.blocked \/ co[p].turn # conv.turn
  <2>1. conv' = c /\ co' = [Cleaned(p) EXCEPT ![p] = Rest] /\ stale' = (stale \/ ~conv.blocked)
    BY <1>4 DEF SpokenPause
  <2>. HIDE DEF c
  <2>2. Aside(co', p) /\ co'[p] = Rest
    BY <1>2, <2>1, AsideOwn, RestKept
  <2>3. conv'.turn = conv.turn /\ conv'.blocked = conv.blocked
    BY <1>3, <2>1
  <2>4. Moves(p, Rest)
    BY <1>2, <2>3, FreedMoves, RestKept, KeptTypes
  <2>5. Returns(p, Rest)
    BY <2>1 DEF Returns, Kept, KeptFacts, BlockedStops
  <2>. QED BY <1>2, <2>2, <2>3, <2>4, <2>5, KeptTypes DEF Advances
<1>5. CASE ResumeListening(Cleaned(p), c, p, co[p], "listening")
  <2>. HIDE DEF c
  <2>. QED BY <1>1, <1>2, <1>3, <1>5, KeptResumed, KeptTypes
<1>6. CASE /\ conv' = [c EXCEPT !.state = "paused", !.active = TRUE, !.accept = TRUE, !.until = TRUE]
           /\ co' = [Cleaned(p) EXCEPT ![p] = [co[p] EXCEPT !.at = "armPaused", !.job = "none"]]
           /\ stale' = stale
  <2>. HIDE DEF c
  <2>. DEFINE s == [co[p] EXCEPT !.at = "armPaused", !.job = "none"]
  <2>1. s \in Coroutine /\ s.at = "armPaused" /\ s.job = "none" /\ s.turn = co[p].turn /\ ~s.dying
    BY <1>1, <1>2, Names DEF Coroutine, Jobs
  <2>2. co' = [Cleaned(p) EXCEPT ![p] = s]
    BY <1>6
  <2>. HIDE DEF s
  <2>3. Aside(co', p) /\ co'[p] = s
    BY <1>2, <2>1, <2>2, AsideOwn
  <2>4. Fit(p, s) /\ ~Expiring(s)
    BY <1>2, <2>1 DEF Fit, Shuts, Expiring
  <2>5. /\ conv'.turn = conv.turn /\ conv'.blocked = conv.blocked /\ conv'.session = conv.session
        /\ conv'.state = "paused" /\ conv'.active
    BY <1>3, <1>6 DEF Conversation
  <2>6. Moves(p, s)
    BY <1>2, <2>1, <2>4, <2>5, FreedMoves, KeptTypes
  <2>7. Returns(p, s)
    BY <1>6, <2>5 DEF Returns
  <2>. QED BY <1>2, <2>3, <2>5, <2>6, <2>7, KeptTypes DEF Advances
<1>. QED BY <1>2, <1>4, <1>5, <1>6 DEF SpokenPause

-----------------------------------------------------------------------------
(* Steps that leave what the conversation is at, and steps that keep it    *)
(* busy.                                                                   *)
Unmoved ==
    /\ mic' = mic /\ timeouts' = timeouts /\ stale' = stale
    /\ conv'.turn = conv.turn /\ (conv'.blocked => conv.blocked) /\ conv'.session = conv.session
    /\ conv'.state = conv.state /\ conv'.active = conv.active
Settles(p, s) ==
    /\ Fit(p, s) /\ s.turn <= conv.turn /\ ~Expiring(s)
    /\ s.at \notin {"ready", "queued", "micStop", "gatherStop"}
Begun ==
    /\ mic' = mic /\ timeouts' = timeouts /\ stale' = stale
    /\ conv'.turn \in Nat /\ conv'.turn >= conv.turn /\ (conv'.blocked => conv.blocked)
    /\ conv'.session => conv.session \/ mic # "off"
Engages(s) ==
    /\ Engaged(s) /\ ~Expiring(s) /\ ~Shuts(s) /\ s.turn <= conv'.turn
    /\ s.at \notin {"micStop", "gatherStop", "gatherStart", "rearm", "ready", "queued"}
    /\ s.at \in {"micStart", "connect"} => s.next \in {"opens", "greet"}

LEMMA KeptGoesOn ==
    ASSUME Kept, NEW p \in Procs, Freed(p), NEW procs, Aside(procs, p), NEW s \in Coroutine,
           co' = [procs EXCEPT ![p] = s], Unmoved, Settles(p, s),
           ~Engaged(co[p]) \/ Engaged(s)
    PROVE  Advances(p)
<1>. USE DEF Unmoved, Settles
<1>1. Aside(co', p) /\ co'[p] = s
  BY AsideOwn
<1>2. Moves(p, s)
  BY FreedMoves
<1>3. Returns(p, s)
  BY DEF Returns
<1>. QED BY <1>1, <1>2, <1>3, KeptTypes DEF Advances

LEMMA KeptBusies ==
    ASSUME Kept, NEW p \in Procs, Freed(p), NEW procs, Aside(procs, p), NEW s \in Coroutine,
           co' = [procs EXCEPT ![p] = s], Begun, Engages(s)
    PROVE  Advances(p)
<1>. USE DEF Begun, Engages
<1>1. Aside(co', p) /\ co'[p] = s
  BY AsideOwn
<1>2. Fit(p, s) /\ p # Arm
  BY DEF Fit, Freed, Expiring
<1>3. Moves(p, s)
  BY <1>2, FreedMoves
<1>4. Returns(p, s)
  BY <1>2 DEF Returns
<1>. QED BY <1>1, <1>3, <1>4, KeptTypes DEF Advances

LEMMA KeptRests ==
    ASSUME Kept, NEW p \in Procs, Freed(p), ~Engaged(co[p]), NEW procs, Aside(procs, p),
           co' = [procs EXCEPT ![p] = Rest], Unmoved
    PROVE  Advances(p)
<1>1. Rest \in Coroutine /\ Settles(p, Rest)
  BY RestKept, KeptTypes DEF Settles
<1>. HIDE DEF Rest
<1>. QED BY <1>1, KeptGoesOn

LEMMA KeptRearmed ==
    ASSUME Kept, NEW p \in Procs, Rearmed(p)
    PROVE  Advances(p)
<1>1. co[p].at \in {"rearmed", "rearmOff"} /\ mic' = mic /\ timeouts' = timeouts /\ stale' = stale
      /\ co' = [co EXCEPT ![p] = Rest]
  BY DEF Rearmed, Ends, Goes
<1>2. Freed(p) /\ Aside(co, p) /\ ~Engaged(co[p])
  BY <1>1, FreedAt, AsideCo DEF Going, Engaged
<1>3. \/ conv' = [conv EXCEPT !.armed = FALSE, !.accept = FALSE]
      \/ conv' = [conv EXCEPT !.accept = TRUE]
      \/ conv' = conv
  BY DEF Rearmed
<1>4. /\ conv'.turn = conv.turn /\ conv'.blocked = conv.blocked /\ conv'.session = conv.session
      /\ conv'.state = conv.state /\ conv'.active = conv.active
  BY <1>3, KeptTypes DEF Conversation
<1>5. Unmoved
  BY <1>1, <1>4 DEF Unmoved
<1>. QED BY <1>1, <1>2, <1>5, KeptRests

LEMMA KeptArmsPaused ==
    ASSUME Kept, NEW p \in Procs, ArmsPaused(p)
    PROVE  Advances(p)
<1>. DEFINE s == [co[p] EXCEPT !.at = "micStart", !.next = "done"]
<1>1. co[p].at = "armPaused" /\ mic' = mic /\ timeouts' = timeouts /\ stale' = stale
  BY DEF ArmsPaused
<1>2. Freed(p) /\ Aside(co, p) /\ ~Engaged(co[p]) /\ ~co[p].dying /\ p # Arm
  BY <1>1, FreedAt, AsideCo DEF Going, Engaged
<1>3. CASE Ends(p) /\ conv' = conv
  BY <1>1, <1>2, <1>3, KeptRests DEF Ends, Goes, Unmoved
<1>4. CASE /\ conv.state = "paused" /\ conv' = [conv EXCEPT !.accept = TRUE, !.active = TRUE]
           /\ Goes(p, s)
  <2>1. s \in Coroutine /\ s.at = "micStart" /\ s.next = "done" /\ s.turn = co[p].turn /\ ~s.dying
    <3>1. co[p] \in Coroutine /\ "micStart" \in Awaits /\ "done" \in Resumptions
      BY KeptTypes, Names
    <3>. QED BY <1>2, <3>1 DEF Coroutine
  <2>2. /\ conv'.turn = conv.turn /\ conv'.blocked = conv.blocked /\ conv'.session = conv.session
        /\ conv'.state = "paused" /\ conv'.active
    BY <1>4, KeptTypes DEF Conversation
  <2>3. Goes(p, s)
    BY <1>4
  <2>. HIDE DEF s
  <2>4. Fit(p, s) /\ ~Expiring(s)
    BY <1>2, <2>1 DEF Fit, Shuts, Expiring
  <2>5. Frames /\ s.turn <= conv'.turn
    BY <1>1, <2>1, <2>2, KeptTypes DEF Frames
  <2>6. Returns(p, s)
    BY <1>1, <2>2 DEF Returns
  <2>. QED BY <1>2, <2>1, <2>3, <2>4, <2>5, <2>6, KeptGoes
<1>. QED BY <1>3, <1>4 DEF ArmsPaused

LEMMA KeptLeaves ==
    ASSUME Kept, NEW p \in Procs, Leaves(p)
    PROVE  Advances(p)
<1>. DEFINE t == conv.turn + 1
            r == [co[p] EXCEPT !.turn = t, !.holds = TRUE, !.job = "resumed"]
            c == [conv EXCEPT !.until = FALSE, !.accept = FALSE, !.turn = t]
<1>1. co[p].at = "leave" /\ mic' = mic /\ timeouts' = timeouts /\ reuse
  BY DEF Leaves, Kept
<1>2. Freed(p) /\ Aside(co, p) /\ ~Engaged(co[p]) /\ ~co[p].dying /\ t \in Nat /\ t >= conv.turn
  BY <1>1, FreedAt, AsideCo, KeptTypes DEF Going, Engaged
<1>3. CASE Ends(p) /\ conv' = conv /\ stale' = stale
  BY <1>1, <1>2, <1>3, KeptRests DEF Ends, Goes, Unmoved
<1>4. CASE StartSpeaking(TimerCancelled(co), c, p, r, "resumed")
  <2>. HIDE DEF t
  <2>1. c \in Conversation /\ c.turn = t /\ c.blocked = conv.blocked
    BY <1>2, KeptTypes DEF Conversation
  <2>2. r \in Coroutine /\ r.turn = t /\ ~r.dying
    <3>1. co[p] \in Coroutine /\ "resumed" \in Jobs
      BY KeptTypes DEF Jobs
    <3>. QED BY <1>2, <3>1 DEF Coroutine
  <2>3. Aside(TimerCancelled(co), p) /\ "resumed" \in Jobs \ {"stopping"}
    BY AsideTimer DEF Jobs
  <2>4. StartSpeaking(TimerCancelled(co), c, p, r, "resumed")
    BY <1>4
  <2>. HIDE DEF c, r
  <2>. QED BY <1>1, <1>2, <2>1, <2>2, <2>3, <2>4, KeptSpeaks
<1>5. \/ Ends(p) /\ conv' = conv /\ stale' = stale
      \/ StartSpeaking(TimerCancelled(co), c, p, r, "resumed")
  <2>1. [conv EXCEPT !.until = FALSE, !.accept = FALSE, !.turn = @ + 1] = c
    BY KeptTypes DEF Conversation
  <2>. QED BY <1>1, <2>1 DEF Leaves
<1>. QED BY <1>3, <1>4, <1>5

LEMMA CutFreed ==
    ASSUME Kept, NEW p \in Procs, NEW job, HasCut(p, job), job # "stopping"
    PROVE  /\ Freed(p) /\ ~co[p].dying /\ co[p].at = "cutting"
           /\ mic' = mic /\ timeouts' = timeouts
<1>1. /\ co[p].at = "cutting" /\ co[p].job = job /\ mic' = mic /\ timeouts' = timeouts
      /\ \A q \in co[p].waits : Quiescent(q)
  BY DEF HasCut
<1>2. Fit(p, co[p])
  BY KeptTypes
<1>. QED BY <1>1, <1>2 DEF Freed, Fit, Shuts, Over, Resting, Doomed

LEMMA KeptInterruptSpeechListens ==
    ASSUME Kept, NEW p \in Procs, InterruptSpeechListens(p)
    PROVE  Advances(p)
<1>. DEFINE c == [conv EXCEPT !.session = TRUE]
            r == [co[p] EXCEPT !.job = "none", !.waits = {}]
<1>1. Freed(p) /\ ~co[p].dying /\ mic' = mic /\ timeouts' = timeouts
  BY CutFreed DEF InterruptSpeechListens
<1>2. c \in Conversation /\ c.turn = conv.turn /\ c.blocked = conv.blocked
  BY KeptTypes DEF Conversation
<1>3. r \in Coroutine /\ r.turn = co[p].turn /\ ~r.dying
  <2>1. co[p] \in Coroutine /\ "none" \in Jobs
    BY KeptTypes DEF Jobs
  <2>. QED BY <1>1, <2>1 DEF Coroutine
<1>4. ResumeListening(co, c, p, r, "listening")
  BY DEF InterruptSpeechListens
<1>. HIDE DEF c, r
<1>. QED BY <1>1, <1>2, <1>3, <1>4, KeptResumed, KeptTypes, AsideCo

LEMMA KeptEntersPause ==
    ASSUME Kept, NEW p \in Procs, EntersPause(p)
    PROVE  Advances(p)
<1>. DEFINE c == [conv EXCEPT !.accept = FALSE, !.interrupt = FALSE]
            r == [co[p] EXCEPT !.waits = {}]
<1>1. Freed(p) /\ ~co[p].dying /\ mic' = mic /\ timeouts' = timeouts
  BY CutFreed DEF EntersPause
<1>2. c \in Conversation /\ c.turn = conv.turn /\ c.blocked = conv.blocked
  BY KeptTypes DEF Conversation
<1>3. r \in Coroutine /\ r.turn = co[p].turn /\ ~r.dying
  <2>1. co[p] \in Coroutine
    BY KeptTypes
  <2>. QED BY <1>1, <2>1 DEF Coroutine
<1>4. StartSpeaking(co, c, p, r, "pauseAck") /\ "pauseAck" \in Jobs \ {"stopping"}
  BY DEF EntersPause, Jobs
<1>. HIDE DEF c, r
<1>. QED BY <1>1, <1>2, <1>3, <1>4, KeptSpeaks, KeptTypes, AsideCo

LEMMA KeptHardStopEnds ==
    ASSUME Kept, NEW p \in Procs, HardStopEnds(p)
    PROVE  Advances(p)
<1>1. /\ co[p].at = "cutting" /\ mic' = mic /\ timeouts' = timeouts
      /\ \A q \in co[p].waits : Quiescent(q)
  BY DEF HardStopEnds, HasCut
<1>2. ~conv'.session /\ ~conv'.blocked /\ conv'.turn = conv.turn /\ conv'.state = "idle"
  BY KeptTypes DEF HardStopEnds, Conversation
<1>3. Aside(co', p) /\ co'[p] = Rest
  BY AsideCo, AsideOwn, RestKept DEF HardStopEnds, Ends, Goes
<1>4. Fit(p, co[p])
  BY KeptTypes
<1>5. Moves(p, Rest)
  BY <1>1, <1>2, <1>4, RestKept, KeptTypes DEF Moves, Over, Resting, Doomed
<1>6. Returns(p, Rest)
  BY <1>2 DEF Returns
<1>. QED BY <1>1, <1>2, <1>3, <1>5, <1>6, KeptTypes DEF Advances

-----------------------------------------------------------------------------
(* The finals and the calls with a kept stream.                            *)
LEMMA DeliveredFreed ==
    ASSUME Kept, NEW u \in Utterances, Delivers(u)
    PROVE  /\ u \in Procs /\ Freed(u) /\ Aside(co, u) /\ ~Engaged(co[u]) /\ mic = "on" /\ reuse
           /\ u # Arm
<1>1. co[u].at \in {"ready", "queued"} /\ u \in Procs
  BY Apart DEF Delivers
<1>. QED BY <1>1, FreedAt, AsideCo DEF Going, Engaged, Kept, KeptFacts, HeardWhileOn

LEMMA KeptInterruptSpeech ==
    ASSUME Kept, NEW p \in Procs, Freed(p), NEW c \in Conversation, c.turn = conv.turn,
           c.blocked => conv.blocked, c.session = conv.session, InterruptSpeech(p, c),
           mic' = mic, timeouts' = timeouts, stale' = stale
    PROVE  Advances(p)
<1>. DEFINE t == conv.turn + 1
            s == [Rest EXCEPT !.at = "cut", !.next = "cut", !.turn = t, !.job = "interrupt"]
            g == [co EXCEPT ![Arm] = Rest]
<1>1. t \in Nat /\ t >= conv.turn /\ p # Arm /\ reuse
  BY KeptTypes DEF Freed, Kept
<1>2. s \in Coroutine /\ s.at = "cut" /\ s.job = "interrupt" /\ s.turn = t /\ ~s.dying
  <2>. HIDE DEF t
  <2>. QED BY <1>1, Names DEF Rest, Coroutine, Jobs
<1>3. co' = [g EXCEPT ![p] = s]
  BY <1>1, KeptTypes DEF InterruptSpeech
<1>4. Aside(g, p)
  BY AsideCo, AsideArm
<1>5. conv'.turn = t /\ conv'.blocked = c.blocked /\ conv'.session = c.session
  BY DEF InterruptSpeech, Conversation
<1>. HIDE DEF s, g, t
<1>6. Engages(s)
  BY <1>1, <1>2, <1>5 DEF Engages, Expiring, Engaged, Shuts
<1>7. Begun
  BY <1>1, <1>5 DEF Begun
<1>. QED BY <1>2, <1>3, <1>4, <1>6, <1>7, KeptBusies

LEMMA KeptFinals ==
    ASSUME Kept, NEW u \in Utterances,
           \/ FinalToAssistant(u) \/ FinalWhilePaused(u) \/ FinalStops(u) \/ FinalIsEcho(u)
           \/ FinalBargesIn(u) \/ FinalIgnored(u)
    PROVE  Advances(u)
<1>1. Delivers(u) /\ mic' = mic /\ timeouts' = timeouts /\ stale' = stale
  BY DEF FinalToAssistant, FinalWhilePaused, FinalStops, FinalIsEcho, FinalBargesIn, FinalIgnored,
         Unexpected
<1>2. /\ u \in Procs /\ Freed(u) /\ Aside(co, u) /\ ~Engaged(co[u]) /\ mic = "on" /\ reuse
      /\ u # Arm /\ conv \in Conversation /\ conv.turn \in Nat
  BY <1>1, DeliveredFreed, KeptTypes
<1>3. CASE FinalToAssistant(u)
  <2>. DEFINE s == [Rest EXCEPT !.at = "direct", !.owner = u]
  <2>1. /\ s \in Coroutine /\ s.at = "direct" /\ s.turn = 0 /\ ~s.dying /\ s.job = "none"
    BY <1>2, Names DEF Rest, Coroutine, Jobs
  <2>2. co' = [co EXCEPT ![u] = s] /\ conv' = conv
    BY <1>3 DEF FinalToAssistant, Goes
  <2>. HIDE DEF s
  <2>3. Settles(u, s)
    BY <1>2, <2>1 DEF Settles, Fit, Shuts, Expiring
  <2>4. Unmoved
    BY <1>1, <2>2 DEF Unmoved
  <2>. QED BY <1>2, <2>1, <2>2, <2>3, <2>4, KeptGoesOn
<1>4. CASE FinalWhilePaused(u)
  <2>. DEFINE s == [Rest EXCEPT !.at = "leave"]
  <2>1. /\ s \in Coroutine /\ s.at = "leave" /\ s.turn = 0 /\ ~s.dying /\ s.job = "none"
    BY Names DEF Rest, Coroutine, Jobs
  <2>2. co' = [co EXCEPT ![u] = s] \/ co' = [co EXCEPT ![u] = Rest]
    BY <1>2, <1>4 DEF FinalWhilePaused, Goes
  <2>3. Unmoved
    BY <1>1, <1>2, <1>4 DEF FinalWhilePaused, Conversation, Unmoved
  <2>. HIDE DEF s
  <2>4. Settles(u, s)
    BY <1>2, <2>1 DEF Settles, Fit, Shuts, Expiring
  <2>5. CASE co' = [co EXCEPT ![u] = s]
    BY <1>2, <2>1, <2>3, <2>4, <2>5, KeptGoesOn
  <2>6. CASE co' = [co EXCEPT ![u] = Rest]
    BY <1>2, <2>3, <2>6, KeptRests
  <2>. QED BY <2>2, <2>5, <2>6
<1>5. CASE FinalStops(u)
  BY <1>1, <1>2, <1>5, KeptInterruptSpeech DEF FinalStops
<1>6. CASE FinalIsEcho(u) \/ FinalIgnored(u)
  <2>1. co' = [co EXCEPT ![u] = Rest] /\ conv' = conv
    BY <1>2, <1>6 DEF FinalIsEcho, FinalIgnored, Ends, Goes
  <2>. QED BY <1>1, <1>2, <2>1, KeptRests DEF Unmoved
<1>7. CASE FinalBargesIn(u)
  <2>. DEFINE g == IF conv.armed THEN Hushed(co) ELSE co
  <2>1. co' = [g EXCEPT ![u] = Rest] /\ Aside(g, u)
    BY <1>2, <1>7, AsideHushed DEF FinalBargesIn
  <2>. HIDE DEF g
  <2>2. Unmoved
    BY <1>1, <1>2, <1>7 DEF FinalBargesIn, Conversation, Unmoved
  <2>. QED BY <1>2, <2>1, <2>2, KeptRests
<1>. QED BY <1>3, <1>4, <1>5, <1>6, <1>7

LEMMA KeptFinalTurns ==
    ASSUME Kept, NEW u \in Utterances, FinalAsksToPause(u) \/ FinalBeginsTurn(u)
    PROVE  Advances(u)
<1>. DEFINE t == conv.turn + 1
            s == Turn(Rest, t, u)
<1>1. Delivers(u) /\ mic' = mic /\ timeouts' = timeouts /\ stale' = stale
  BY DEF FinalAsksToPause, FinalBeginsTurn, Unexpected, Expected
<1>2. /\ u \in Procs /\ Freed(u) /\ Aside(co, u) /\ mic = "on"
      /\ conv \in Conversation /\ t \in Nat /\ t >= conv.turn
  BY <1>1, DeliveredFreed, KeptTypes
<1>3. s \in Coroutine /\ s.at = "begin" /\ ~s.dying /\ s.turn = t
  <2>. HIDE DEF t
  <2>. QED BY <1>2, Names DEF Rest, Coroutine, Turn, Jobs
<1>4. conv'.turn = t /\ conv'.blocked = conv.blocked
  BY <1>2 DEF FinalAsksToPause, FinalBeginsTurn, Conversation
<1>5. co' = [co EXCEPT ![u] = s]
  BY DEF FinalAsksToPause, FinalBeginsTurn, Goes
<1>. HIDE DEF s, t
<1>6. Engages(s)
  BY <1>2, <1>3, <1>4 DEF Engages, Expiring, Engaged, Shuts
<1>7. Begun
  BY <1>1, <1>2, <1>4 DEF Begun
<1>. QED BY <1>2, <1>3, <1>5, <1>6, <1>7, KeptBusies

LEMMA KeptFinalDiscarded ==
    ASSUME Kept, NEW u \in Utterances, FinalDiscarded(u)
    PROVE  Advances(u)
<1>. DEFINE t == conv.turn + 1
            c == [conv EXCEPT !.accept = FALSE, !.turn = t]
            r == [Rest EXCEPT !.turn = t]
<1>1. Delivers(u) /\ mic' = mic /\ timeouts' = timeouts
  BY DEF FinalDiscarded, Expected
<1>2. /\ u \in Procs /\ Freed(u) /\ Aside(co, u) /\ reuse
      /\ conv \in Conversation /\ t \in Nat /\ t >= conv.turn
  BY <1>1, DeliveredFreed, KeptTypes
<1>3. ResumeListening(co, c, u, r, "listening")
  <2>1. [conv EXCEPT !.accept = FALSE, !.turn = @ + 1] = c
    BY <1>2 DEF Conversation
  <2>. QED BY <1>2, <2>1 DEF FinalDiscarded
<1>. HIDE DEF t
<1>4. c \in Conversation /\ c.turn = t /\ c.blocked = conv.blocked
  BY <1>2 DEF Conversation
<1>5. r \in Coroutine /\ r.turn = t /\ ~r.dying
  BY <1>2, Names DEF Rest, Coroutine, Jobs
<1>. HIDE DEF c, r
<1>. QED BY <1>1, <1>2, <1>3, <1>4, <1>5, KeptResumed

LEMMA KeptDirectEnds ==
    ASSUME Kept, NEW u \in Utterances, DirectEnds(u)
    PROVE  Advances(u)
<1>1. /\ co[u].at = "direct" /\ mic' = mic /\ timeouts' = timeouts /\ stale' = stale
      /\ conv' = conv /\ co' = [co EXCEPT ![u] = Rest] /\ u \in Procs
  BY Apart DEF DirectEnds, Ends, Goes
<1>2. Freed(u) /\ Aside(co, u) /\ ~Engaged(co[u])
  BY <1>1, FreedAt, AsideCo DEF Going, Engaged
<1>. QED BY <1>1, <1>2, KeptRests DEF Unmoved

LEMMA CalledFreed ==
    ASSUME Kept, NEW p \in Calls, NEW kind, Called(p, kind)
    PROVE  /\ p \in Procs /\ Freed(p) /\ Aside(co, p) /\ ~Engaged(co[p]) /\ p # Arm
           /\ Unblocked \in Conversation /\ Unblocked.turn = conv.turn /\ ~Unblocked.blocked
           /\ Unblocked.session = conv.session /\ Unblocked.state = conv.state
           /\ Unblocked.active = conv.active
<1>1. co[p].at = "silent" /\ p \in Procs /\ p \notin Utterances /\ Fit(p, co[p])
  BY Apart, KeptTypes DEF Called
<1>2. p # Arm /\ ~co[p].dying
  BY <1>1 DEF Fit
<1>3. Freed(p) /\ ~Engaged(co[p])
  BY <1>1, <1>2 DEF Freed, Shuts, Engaged
<1>4. /\ Unblocked \in Conversation /\ Unblocked.turn = conv.turn /\ ~Unblocked.blocked
      /\ Unblocked.session = conv.session /\ Unblocked.state = conv.state
      /\ Unblocked.active = conv.active
  BY KeptTypes DEF Unblocked, Conversation
<1>. QED BY <1>1, <1>2, <1>3, <1>4, AsideCo

LEMMA KeptCallStart ==
    ASSUME Kept, NEW p \in Calls, CallStart(p)
    PROVE  Advances(p)
<1>. DEFINE t == conv.turn + 1
            s == [Rest EXCEPT !.at = "micStart", !.next = "greet", !.turn = t, !.job = "greeting"]
<1>1. Called(p, "start") /\ mic' = mic /\ timeouts' = timeouts /\ stale' = stale /\ reuse
  BY DEF CallStart, Kept
<1>2. /\ p \in Procs /\ Freed(p) /\ Aside(co, p) /\ ~Engaged(co[p])
      /\ Unblocked \in Conversation /\ Unblocked.turn = conv.turn /\ ~Unblocked.blocked
      /\ Unblocked.session = conv.session /\ Unblocked.state = conv.state
      /\ Unblocked.active = conv.active /\ t \in Nat /\ t >= conv.turn
  BY <1>1, CalledFreed, KeptTypes
<1>3. CASE conv' = Unblocked /\ co' = [co EXCEPT ![p] = Rest]
  BY <1>1, <1>2, <1>3, KeptRests DEF Unmoved
<1>4. CASE /\ conv' = [Unblocked EXCEPT !.active = TRUE, !.accept = FALSE, !.turn = @ + 1]
           /\ co' = [co EXCEPT ![p] = s]
  <2>1. conv'.turn = t /\ ~conv'.blocked /\ conv'.session = conv.session
    BY <1>2, <1>4 DEF Conversation
  <2>2. co' = [co EXCEPT ![p] = s]
    BY <1>4
  <2>. HIDE DEF t
  <2>3. s \in Coroutine /\ s.at = "micStart" /\ s.next = "greet" /\ s.turn = t /\ ~s.dying
    BY <1>2, Names DEF Rest, Coroutine, Jobs
  <2>. HIDE DEF s
  <2>4. Engages(s)
    BY <1>2, <2>1, <2>3 DEF Engages, Expiring, Engaged, Shuts
  <2>5. Begun
    BY <1>1, <1>2, <2>1 DEF Begun
  <2>. QED BY <1>2, <2>2, <2>3, <2>4, <2>5, KeptBusies
<1>5. \/ conv' = Unblocked /\ co' = [co EXCEPT ![p] = Rest]
      \/ /\ conv' = [Unblocked EXCEPT !.active = TRUE, !.accept = FALSE, !.turn = @ + 1]
         /\ co' = [co EXCEPT ![p] = s]
  BY <1>1 DEF CallStart, Ends, Goes
<1>. QED BY <1>3, <1>4, <1>5

LEMMA KeptCallInterrupt ==
    ASSUME Kept, NEW p \in Calls, CallInterrupt(p)
    PROVE  Advances(p)
<1>1. Called(p, "interrupt") /\ mic' = mic /\ timeouts' = timeouts /\ stale' = stale
  BY DEF CallInterrupt
<1>2. /\ p \in Procs /\ Freed(p) /\ Aside(co, p) /\ ~Engaged(co[p])
      /\ Unblocked \in Conversation /\ Unblocked.turn = conv.turn /\ ~Unblocked.blocked
      /\ Unblocked.session = conv.session /\ Unblocked.state = conv.state
      /\ Unblocked.active = conv.active
  BY <1>1, CalledFreed
<1>3. CASE conv' = Unblocked /\ co' = [co EXCEPT ![p] = Rest]
  BY <1>1, <1>2, <1>3, KeptRests DEF Unmoved
<1>4. CASE InterruptSpeech(p, Unblocked)
  BY <1>1, <1>2, <1>4, KeptInterruptSpeech
<1>. QED BY <1>3, <1>4 DEF CallInterrupt, Ends, Goes

LEMMA KeptCallResume ==
    ASSUME Kept, NEW p \in Calls, CallResume(p)
    PROVE  Advances(p)
<1>. DEFINE s == [Rest EXCEPT !.at = "leave"]
<1>1. /\ Called(p, "resume") /\ mic' = mic /\ timeouts' = timeouts /\ stale' = stale
      /\ conv' = Unblocked
  BY DEF CallResume
<1>2. /\ p \in Procs /\ Freed(p) /\ Aside(co, p) /\ ~Engaged(co[p]) /\ p # Arm
      /\ Unblocked \in Conversation /\ Unblocked.turn = conv.turn /\ ~Unblocked.blocked
      /\ Unblocked.session = conv.session /\ Unblocked.state = conv.state
      /\ Unblocked.active = conv.active /\ conv.turn \in Nat
  BY <1>1, CalledFreed, KeptTypes
<1>3. co' = [co EXCEPT ![p] = s] \/ co' = [co EXCEPT ![p] = Rest]
  BY DEF CallResume, Goes
<1>4. /\ s \in Coroutine /\ s.at = "leave" /\ s.turn = 0 /\ ~s.dying /\ s.job = "none"
  BY Names DEF Rest, Coroutine, Jobs
<1>. HIDE DEF s
<1>5. Settles(p, s) /\ Unmoved
  BY <1>1, <1>2, <1>4 DEF Fit, Shuts, Expiring, Settles, Unmoved
<1>6. CASE co' = [co EXCEPT ![p] = s]
  BY <1>2, <1>4, <1>5, <1>6, KeptGoesOn
<1>7. CASE co' = [co EXCEPT ![p] = Rest]
  BY <1>2, <1>5, <1>7, KeptRests
<1>. QED BY <1>3, <1>6, <1>7

-----------------------------------------------------------------------------
(* The microphone, the task that arms barge-in and the countdown.          *)

(* Steps of the task that arms barge-in, and steps that move nobody.       *)
LEMMA KeptArm ==
    ASSUME Kept, NEW s, co'[Arm] = s, Aside(co', Arm), Unmoved, Settles(Arm, s)
    PROVE  Advances(Arm)
<1>. USE DEF Unmoved, Settles
<1>1. Fit(Arm, co[Arm]) /\ ~Shuts(co[Arm]) /\ Arm \notin Utterances
  BY KeptTypes, Apart DEF Fit, Shuts
<1>2. Moves(Arm, s)
  BY <1>1 DEF Moves, Fit
<1>3. Returns(Arm, s)
  BY DEF Returns
<1>. QED BY <1>2, <1>3, KeptTypes DEF Advances

LEMMA ArmIs ==
    ASSUME Kept
    PROVE  /\ Arm \in Procs /\ co[Arm] \in Coroutine /\ Settles(Arm, Rest) /\ Settles(Arm, co[Arm])
           /\ ~Shuts(co[Arm]) /\ Arm \notin Utterances /\ conv \in Conversation
           /\ ~co[Arm].dying /\ co[Arm].turn <= conv.turn
<1>1. Arm \in Procs /\ Arm \notin Utterances /\ Fit(Arm, co[Arm]) /\ co[Arm] \in Coroutine
  BY KeptTypes, Apart
<1>2. ~Shuts(co[Arm]) /\ ~co[Arm].dying
  BY <1>1 DEF Fit, Shuts
<1>. QED BY <1>1, <1>2, RestKept, KeptTypes DEF Settles, Fit, Expiring

LEMMA KeptArmWakes ==
    ASSUME Kept, ArmWakes
    PROVE  Advances(Arm)
<1>. DEFINE s == [co[Arm] EXCEPT !.at = "micStart", !.next = "armed"]
            g == [co EXCEPT ![Arm] = s]
            o == co[Arm].owner
            h == [g EXCEPT ![o] = [g[o] EXCEPT !.opened = ~reuse]]
<1>1. Unmoved
  BY DEF ArmWakes, Unmoved
<1>2. CASE Ends(Arm)
  BY <1>1, <1>2, ArmIs, AsideCo, AsideOwn, RestKept, KeptArm DEF Ends, Goes
<1>3. CASE co' = h
  <2>1. /\ s \in Coroutine /\ s.at = "micStart" /\ s.next = "armed" /\ s.turn = co[Arm].turn
        /\ ~s.dying /\ s.job = co[Arm].job
    <3>1. co[Arm] \in Coroutine /\ ~co[Arm].dying
      BY ArmIs
    <3>. QED BY <3>1, Names DEF Coroutine
  <2>2. co' = [g EXCEPT ![o] = [g[o] EXCEPT !.opened = ~reuse]]
    BY <1>3
  <2>. HIDE DEF s, o
  <2>3. Aside(g, Arm) /\ g[Arm] = s /\ g \in [Procs -> Coroutine]
    BY <2>1, ArmIs, AsideCo, AsideOwn DEF Aside
  <2>. HIDE DEF g
  <2>4. Settles(Arm, s)
    BY <2>1, ArmIs DEF Settles, Fit, Shuts, Expiring
  <2>5. (~reuse) \in BOOLEAN
    BY ReuseIs, Zenon DEF Kept
  <2>6. CASE o \in Procs
    <3>. DEFINE k == [g[o] EXCEPT !.opened = ~reuse]
    <3>1. g[o] \in Coroutine
      BY <2>3, <2>6
    <3>2. k \in Coroutine /\ k.at = g[o].at /\ k.next = g[o].next /\ k.turn = g[o].turn
          /\ k.job = g[o].job /\ k.inTurn = g[o].inTurn /\ k.dying = g[o].dying
          /\ k.waits = g[o].waits
      <4>. DEFINE v == ~reuse
      <4>1. v \in BOOLEAN /\ k = [g[o] EXCEPT !.opened = v]
        BY <2>5
      <4>. HIDE DEF v, k
      <4>. QED BY <3>1, <4>1 DEF Coroutine
    <3>. HIDE DEF k
    <3>3. co' = [g EXCEPT ![o] = k]
      BY <2>2 DEF k
    <3>4. co' \in [Procs -> Coroutine] /\ co'[o] = k /\ \A q \in Procs \ {o} : co'[q] = g[q]
      BY <2>3, <2>6, <3>2, <3>3
    <3>5. o # Arm => Beside(o, k)
      <4>. SUFFICES ASSUME o # Arm PROVE Beside(o, k)
        OBVIOUS
      <4>1. Beside(o, g[o])
        BY <2>3, <2>6 DEF Aside
      <4>. QED
        BY <3>2, <4>1 DEF Beside, Fit, Shuts, Engaged, Expiring, Over, Doomed
    <3>6. Aside(co', Arm)
      BY <2>3, <3>4, <3>5 DEF Aside
    <3>7. Settles(Arm, co'[Arm])
      BY <2>3, <2>4, <3>2, <3>4, ArmIs DEF Settles, Fit, Shuts, Expiring
    <3>. QED BY <1>1, <3>6, <3>7, ArmIs, KeptArm
  <2>7. CASE o \notin Procs
    <3>1. co' = g
      BY <2>2, <2>3, <2>7
    <3>. QED BY <1>1, <2>3, <2>4, <3>1, ArmIs, KeptArm
  <2>. QED BY <2>6, <2>7
<1>. QED BY <1>2, <1>3 DEF ArmWakes

LEMMA KeptArmReady ==
    ASSUME Kept, ArmReady
    PROVE  Advances(Arm)
<1>. DEFINE g == IF conv.barge # None THEN Hushed(co) ELSE co
<1>1. Unmoved
  BY ArmIs DEF ArmReady, Unmoved, Conversation
<1>2. Aside(g, Arm)
  BY AsideCo, AsideHushed
<1>3. co' = [co EXCEPT ![Arm] = Rest] \/ co' = [g EXCEPT ![Arm] = Rest]
  BY DEF ArmReady, Ends, Goes
<1>. HIDE DEF g
<1>4. Aside(co', Arm) /\ co'[Arm] = Rest
  BY <1>2, <1>3, ArmIs, AsideCo, AsideOwn, RestKept
<1>. QED BY <1>1, <1>4, ArmIs, KeptArm

LEMMA KeptInterimCuts ==
    ASSUME Kept, InterimCuts
    PROVE  Advances(Arm)
<1>1. Unmoved
  BY ArmIs DEF InterimCuts, Unmoved, Conversation
<1>2. Aside(co', Arm)
  BY AsideHushed DEF InterimCuts
<1>3. co'[Arm] = co[Arm]
  <2>1. co[Arm].at # "saying"
    BY KeptTypes, Apart DEF Fit
  <2>. QED BY <2>1, ArmIs DEF InterimCuts, Hushed
<1>. QED BY <1>1, <1>2, <1>3, ArmIs, KeptArm

LEMMA TimerApart == Timer # Arm
<1>. SUFFICES ASSUME Timer = Arm PROVE FALSE
  OBVIOUS
<1>. DEFINE S == {Watch, None}
<1>1. IsFiniteSet({None}) /\ Cardinality({None}) = 1
  BY FS_Singleton
<1>2. S = {None} \cup {Watch} /\ IsFiniteSet(S) /\ Cardinality(S) \in {1, 2}
  BY <1>1, FS_AddElement
<1>3. {Arm, Timer, Watch, None} = S \cup {Arm}
  OBVIOUS
<1>. HIDE DEF S
<1>4. Cardinality(S \cup {Arm}) \in {Cardinality(S), Cardinality(S) + 1}
  BY <1>2, FS_AddElement
<1>5. Cardinality({Arm, Timer, Watch, None}) = 4
  BY ConversationAssumption
<1>. QED BY <1>2, <1>3, <1>4, <1>5

LEMMA KeptTimerFires ==
    ASSUME Kept, TimerFires
    PROVE  Advances(Timer)
<1>. DEFINE s == [Rest EXCEPT !.at = "leave"]
<1>1. Unmoved /\ co' = [co EXCEPT ![Timer] = s] /\ co[Timer].at \in Resting
  BY DEF TimerFires, Unmoved, Goes, Quiescent
<1>2. Timer \in Procs /\ Timer \notin Utterances /\ Timer # Arm /\ Aside(co, Timer)
      /\ conv.turn \in Nat
  BY Apart, TimerApart, AsideCo, KeptTypes
<1>3. Freed(Timer) /\ ~Engaged(co[Timer])
  BY <1>1, <1>2 DEF Freed, Engaged, Shuts, Resting
<1>4. /\ s \in Coroutine /\ s.at = "leave" /\ s.turn = 0 /\ ~s.dying /\ s.job = "none"
  BY Names DEF Rest, Coroutine, Jobs
<1>. HIDE DEF s
<1>5. Settles(Timer, s)
  BY <1>2, <1>4 DEF Fit, Shuts, Expiring, Settles
<1>. QED BY <1>1, <1>2, <1>3, <1>4, <1>5, KeptGoesOn

LEMMA KeptGathered ==
    ASSUME Kept, NEW p \in Procs, Gathered(p)
    PROVE  Advances(p)
<1>. DEFINE s == [co[p] EXCEPT !.at = co[p].next, !.waits = {}]
<1>1. co[p].at = "gatherStop" /\ Shuts(co[p]) /\ p \in Calls /\ Fit(p, co[p]) /\ co[p] \in Coroutine
      /\ co[p].next = "cut" /\ co[p].job = "stopping" /\ ~co[p].dying
  BY KeptTypes DEF Gathered, Fit, Shuts
<1>2. s \in Coroutine /\ s.at = "cut" /\ s.job = "stopping" /\ s.turn = co[p].turn /\ ~s.dying
  BY <1>1, Names DEF Coroutine
<1>3. co' = [co EXCEPT ![p] = s] /\ mic' = mic /\ conv' = conv /\ timeouts' = timeouts
      /\ \A q \in co[p].waits : Quiescent(q)
  BY <1>1 DEF Gathered, Goes, Onwards
<1>. HIDE DEF s
<1>4. Aside(co', p) /\ co'[p] = s
  BY <1>2, <1>3, AsideCo, AsideOwn
<1>5. p # Arm /\ p \notin Utterances
  BY <1>1, Apart DEF Fit
<1>6. Fit(p, s) /\ Shuts(s) /\ ~Expiring(s)
  BY <1>1, <1>2, <1>5 DEF Fit, Shuts, Expiring
<1>7. Moves(p, s)
  BY <1>1, <1>2, <1>3, <1>5, <1>6, KeptTypes DEF Moves
<1>8. Returns(p, s)
  BY <1>1 DEF Returns, Stopping
<1>. QED BY <1>3, <1>4, <1>7, <1>8, KeptTypes DEF Advances

(* A session without a microphone is being stopped: whoever would open it  *)
(* has the lock before any other step.                                     *)
LEMMA MicOffStops ==
    ASSUME Kept, Yielded, conv.session, ~stale, mic = "off"
    PROVE  Stopping
<1>1. CASE Opening
  <2>1. PICK p \in Procs : co[p].at = "micStart"
    BY <1>1 DEF Opening
  <2>2. PICK q \in Procs : co[q].at \in {"gatherStop", "gatherStart"}
    BY <2>1 DEF Yielded, AtMic, LockFree
  <2>. QED BY <2>2, KeptTypes DEF Fit, Stopping
<1>. QED BY <1>1 DEF Kept, KeptFacts, MicReturns

LEMMA KeptConnectFails ==
    ASSUME Kept, Yielded, NEW p \in Procs, ConnectFails(p), mic = "off"
    PROVE  Advances(p)
<1>1. /\ co[p].at = "connect" /\ mic' = mic /\ timeouts' = timeouts /\ Fit(p, co[p])
      /\ Aside(co, p) /\ ~Shuts(co[p]) /\ co[p] \in Coroutine /\ conv \in Conversation /\ ~co[p].dying
      /\ conv.turn \in Nat /\ reuse
  BY KeptTypes, AsideCo DEF ConnectFails, Shuts, Fit, Kept
<1>2. CASE co[p].next = "armed"
  <2>1. Unmoved /\ co' = [co EXCEPT ![p] = Rest] /\ ~Engaged(co[p])
    BY <1>1, <1>2 DEF ConnectFails, Unmoved, Goes, Engaged
  <2>2. CASE p = Arm
    <3>1. Aside(co', Arm) /\ co'[Arm] = Rest
      <4>1. Aside([co EXCEPT ![p] = Rest], p) /\ [co EXCEPT ![p] = Rest][p] = Rest
        BY <1>1, AsideOwn, RestKept
      <4>. QED BY <2>1, <2>2, <4>1
    <3>2. Settles(Arm, Rest)
      BY ArmIs
    <3>. HIDE DEF Rest
    <3>3. Advances(Arm)
      BY <2>1, <3>1, <3>2, KeptArm
    <3>. QED BY <2>2, <3>3
  <2>3. CASE p # Arm
    <3>1. Freed(p)
      BY <1>1, <2>3 DEF Freed, Over, Resting, Doomed
    <3>. QED BY <1>1, <2>1, <3>1, KeptRests
  <2>. QED BY <2>2, <2>3
<1>3. CASE co[p].next # "armed"
  <2>1. p # Arm /\ Fails(p)
    BY <1>1, <1>3 DEF Fit, ConnectFails
  <2>2. Freed(p)
    BY <1>1, <2>1 DEF Freed, Over, Resting, Doomed
  <2>3. ASSUME NEW n \in {"listening", "lastTry"}, ResumeListening(co, conv, p, co[p], n)
        PROVE  Advances(p)
    BY <1>1, <2>2, <2>3, KeptResumed, KeptTypes
  <2>4. ASSUME NEW c \in Conversation, c.turn = conv.turn, c.blocked = conv.blocked,
               c.session = conv.session, conv' = c, stale' = stale,
               NEW s \in Coroutine, Goes(p, s), s.at \in {"done", "dead"}, s.turn = 0, ~s.dying,
               s.job = "none"
        PROVE  Advances(p)
    <3>1. Fit(p, s) /\ ~Expiring(s)
      BY <2>1, <2>4 DEF Fit, Shuts, Expiring
    <3>2. Returns(p, s)
      BY <1>1, <2>4, MicOffStops DEF Returns
    <3>3. Frames /\ s.turn <= conv'.turn
      BY <1>1, <2>4 DEF Frames
    <3>. QED BY <2>2, <2>4, <3>1, <3>2, <3>3, KeptGoes
  <2>5. Silenced(conv) \in Conversation /\ Silenced(conv).turn = conv.turn
        /\ Silenced(conv).blocked = conv.blocked /\ Silenced(conv).session = conv.session
    BY <1>1 DEF Silenced, Conversation, States
  <2>. DEFINE d == [Rest EXCEPT !.at = "dead"]
  <2>6. d \in Coroutine /\ d.at = "dead" /\ d.turn = 0 /\ ~d.dying /\ d.job = "none"
    BY Names DEF Rest, Coroutine, Jobs
  <2>7. Rest \in Coroutine /\ Rest.at = "done" /\ Rest.turn = 0 /\ ~Rest.dying /\ Rest.job = "none"
    BY RestIs
  <2>8. \/ ResumeListening(co, conv, p, co[p], "listening")
        \/ ResumeListening(co, conv, p, co[p], "lastTry")
        \/ /\ conv' = Silenced(conv) \/ conv' = conv
           /\ Goes(p, d) \/ Goes(p, Rest)
           /\ stale' = stale
    BY <2>1 DEF Fails, Ends
  <2>. HIDE DEF d, Rest
  <2>9. CASE /\ conv' = Silenced(conv) \/ conv' = conv
             /\ Goes(p, d)
             /\ stale' = stale
    BY <1>1, <2>4, <2>5, <2>6, <2>9
  <2>10. CASE /\ conv' = Silenced(conv) \/ conv' = conv
              /\ Goes(p, Rest)
              /\ stale' = stale
    BY <1>1, <2>4, <2>5, <2>7, <2>10
  <2>. QED BY <2>3, <2>8, <2>9, <2>10
<1>. QED BY <1>2, <1>3

-----------------------------------------------------------------------------
(* The steps that change the microphone, cut the assistant or begin a stop *)
(* meet the whole of the invariant.                                        *)

(* _stop_locked ends or cancels every callback but its caller.             *)
LEMMA StopLockedKept ==
    ASSUME Kept, NEW p \in Calls, NEW r \in Coroutine, StopLocked(p, r, "gatherStop")
    PROVE  /\ co' \in [Procs -> Coroutine]
           /\ co'[p] = IF CallbackTasks(p) = {} THEN r
                       ELSE [r EXCEPT !.at = "gatherStop", !.waits = CallbackTasks(p)]
           /\ \A q \in Procs \ {p} : q \notin CallbackTasks(p) =>
                  co'[q] = co[q] \/ (co'[q] = Rest /\ co[q].at = "queued")
           /\ \A q \in CallbackTasks(p) :
                  /\ q \in Utterances \ {p} /\ Fit(q, co'[q]) /\ Doomed(co'[q])
                  /\ co'[q].turn <= conv.turn
           /\ \A u \in Utterances : Over(co'[u]) /\ co'[u].at \notin {"ready", "queued"}
<1>. DEFINE victims == CallbackTasks(p)
            s == IF victims = {} THEN r ELSE [r EXCEPT !.at = "gatherStop", !.waits = victims]
            x == Cancelling(co, victims)
            d == Dropped(x)
<1>1. victims = {u \in Utterances \ {p} : co[u].at \notin {"silent", "queued", "done"}}
  BY DEF CallbackTasks
<1>2. \A q \in Procs : x[q] = IF q \in victims THEN Cancelled(co[q]) ELSE co[q]
  BY DEF Cancelling
<1>3. \A q \in Procs : d[q] = IF x[q].at = "queued" THEN Rest ELSE x[q]
  BY DEF Dropped
<1>4. co' = [d EXCEPT ![p] = s] /\ d = [q \in Procs |-> d[q]]
  BY DEF StopLocked, Dropped
<1>5. p \in Procs /\ p \notin Utterances /\ Utterances \subseteq Procs /\ Arm \notin Utterances
  BY Apart
<1>6. s \in Coroutine
  <2>. DEFINE w == [r EXCEPT !.at = "gatherStop", !.waits = victims]
  <2>1. victims \in SUBSET Procs
    BY <1>1, <1>5
  <2>. HIDE DEF victims
  <2>2. w \in Coroutine
    BY <2>1, Names DEF Coroutine
  <2>. QED BY <2>2
<1>. HIDE DEF victims, x, d
<1>7. ASSUME NEW q \in victims
      PROVE  /\ d[q] \in Coroutine /\ Fit(q, d[q]) /\ Doomed(d[q]) /\ d[q].turn <= conv.turn
             /\ d[q].at \notin {"ready", "queued"}
  <2>1. /\ q \in Utterances /\ q \in Procs /\ q # Arm /\ co[q] \in Coroutine /\ Fit(q, co[q])
        /\ co[q].turn <= conv.turn /\ co[q].turn \in Nat /\ conv.turn \in Nat
    BY <1>1, <1>5, KeptTypes
  <2>2. x[q] = Cancelled(co[q])
    BY <1>2, <2>1
  <2>. DEFINE m == [co[q] EXCEPT !.at = "said", !.dying = TRUE]
              k == [co[q] EXCEPT !.at = "unwind"]
  <2>3. m \in Coroutine /\ m.at = "said" /\ m.dying /\ m.turn = co[q].turn /\ m.job = co[q].job
        /\ k \in Coroutine /\ k.at = "unwind" /\ k.turn = co[q].turn /\ k.dying = co[q].dying
    BY <2>1, Names DEF Coroutine
  <2>4. x[q] \in {Rest, m, k}
    BY <2>2 DEF Cancelled
  <2>. HIDE DEF m, k
  <2>5. /\ Fit(q, m) /\ Doomed(m) /\ Fit(q, k) /\ Doomed(k)
    BY <2>1, <2>3 DEF Fit, Shuts, Doomed
  <2>6. /\ Fit(q, Rest) /\ Doomed(Rest) /\ Rest \in Coroutine /\ Rest.turn = 0 /\ Rest.at = "done"
    BY RestKept, RestIs
  <2>7. d[q] = x[q]
    BY <1>3, <2>1, <2>3, <2>4, <2>6
  <2>. QED BY <2>1, <2>3, <2>4, <2>5, <2>6, <2>7
<1>8. ASSUME NEW q \in Procs \ {p}, q \notin victims
      PROVE  /\ d[q] \in Coroutine
             /\ d[q] = co[q] \/ (d[q] = Rest /\ co[q].at = "queued")
             /\ d[q].at # "queued"
  BY <1>2, <1>3, <1>8, KeptTypes, RestIs
<1>9. \A q \in Procs \ {p} : d[q] \in Coroutine
  BY <1>7, <1>8
<1>10. co' \in [Procs -> Coroutine] /\ co'[p] = s /\ \A q \in Procs \ {p} : co'[q] = d[q]
  BY <1>4, <1>5, <1>6, <1>9
<1>11. ASSUME NEW u \in Utterances
       PROVE  Over(co'[u]) /\ co'[u].at \notin {"ready", "queued"}
  <2>1. u \in Procs \ {p} /\ co'[u] = d[u]
    BY <1>5, <1>10
  <2>2. CASE u \in victims
    BY <1>7, <2>1, <2>2 DEF Over
  <2>3. CASE u \notin victims
    <3>1. co[u].at \in {"silent", "queued", "done"}
      BY <1>1, <2>1, <2>3
    <3>. QED BY <1>8, <2>1, <2>3, <3>1, RestKept DEF Over, Resting
  <2>. QED BY <2>2, <2>3
<1>12. victims \subseteq Utterances \ {p} /\ victims \subseteq Procs \ {p}
  BY <1>1, <1>5
<1>. QED BY <1>7, <1>8, <1>10, <1>11, <1>12 DEF victims

LEMMA KeptMicStops ==
    ASSUME Kept, NEW p \in Procs, MicStops(p)
    PROVE  KeptFacts' /\ Stopping'
<1>. DEFINE r == [co[p] EXCEPT !.at = co[p].next, !.waits = {}]
            v == CallbackTasks(p)
            w == [r EXCEPT !.at = "gatherStop", !.waits = v]
<1>1. /\ co[p].at = "micStop" /\ LockFree /\ mic' = "off" /\ conv' = conv /\ timeouts' = timeouts
      /\ stale' = stale /\ Shuts(co[p]) /\ p \in Calls /\ Fit(p, co[p]) /\ co[p] \in Coroutine
      /\ co[p].next = "cut" /\ co[p].job = "stopping" /\ ~co[p].dying /\ co[p].turn <= conv.turn
  BY KeptTypes DEF MicStops, Fit, Shuts
<1>2. r \in Coroutine /\ r.at = "cut" /\ r.next = "cut" /\ r.job = "stopping" /\ ~r.dying
      /\ r.turn = co[p].turn
  BY <1>1, Names DEF Coroutine
<1>3. StopLocked(p, r, "gatherStop")
  BY <1>1 DEF MicStops, Onwards
<1>. HIDE DEF r
<1>4. /\ co' \in [Procs -> Coroutine] /\ co'[p] = IF v = {} THEN r ELSE w
      /\ \A q \in Procs \ {p} : q \notin v =>
             co'[q] = co[q] \/ (co'[q] = Rest /\ co[q].at = "queued")
      /\ \A q \in v : q \in Utterances \ {p} /\ Fit(q, co'[q]) /\ Doomed(co'[q])
                      /\ co'[q].turn <= conv.turn
      /\ \A u \in Utterances : Over(co'[u]) /\ co'[u].at \notin {"ready", "queued"}
  BY <1>1, <1>2, <1>3, StopLockedKept
<1>. HIDE DEF v
<1>5. w.at = "gatherStop" /\ w.next = "cut" /\ w.job = "stopping" /\ ~w.dying /\ w.turn = r.turn
      /\ w.waits = v
  BY <1>2 DEF Coroutine
<1>. HIDE DEF w
<1>6. p # Arm /\ p \notin Utterances
  BY <1>1, Apart DEF Fit
<1>7. Shuts(co'[p]) /\ Fit(p, co'[p]) /\ ~Expiring(co'[p]) /\ co'[p].turn <= conv.turn
      /\ (v # {} => co'[p].at = "gatherStop" /\ co'[p].waits = v)
  <2>1. Shuts(r) /\ Fit(p, r) /\ ~Expiring(r) /\ Shuts(w) /\ Fit(p, w) /\ ~Expiring(w)
    BY <1>1, <1>2, <1>5, <1>6 DEF Shuts, Fit, Expiring
  <2>. QED BY <1>1, <1>2, <1>4, <1>5, <2>1
<1>8. Stopping'
  BY <1>1, <1>7 DEF Stopping
<1>9. KeptShapes'
  <2>. SUFFICES ASSUME NEW q \in Procs PROVE Fit(q, co'[q]) /\ co'[q].turn <= conv.turn
    BY <1>1 DEF KeptShapes
  <2>1. Fit(q, co[q]) /\ co[q].turn <= conv.turn /\ Fit(q, Rest) /\ Rest.turn = 0 /\ conv.turn \in Nat
    BY KeptTypes, RestKept
  <2>. QED BY <1>4, <1>7, <2>1
<1>10. HeardWhileOn' /\ LockedIsOff' /\ StopsClean'
  BY <1>1, <1>4 DEF HeardWhileOn, LockedIsOff, StopsClean
<1>11. ExpiryAwaited'
  <2>. SUFFICES ASSUME NEW q \in Procs, Expiring(co'[q]), Current(co'[q], conv)
                PROVE  Awaited(q)'
    BY <1>1 DEF ExpiryAwaited
  <2>1. CASE q \in v
    BY <1>7, <2>1 DEF Awaited
  <2>2. CASE q \notin v
    <3>1. q # p /\ co'[q] = co[q]
      BY <1>4, <1>7, <2>2, RestKept
    <3>2. Current(co[q], conv) /\ Awaited(q)
      BY <3>1 DEF Kept, KeptFacts, ExpiryAwaited
    <3>3. PICK t \in Procs : co[t].at = "cutting" /\ q \in co[t].waits
      BY <1>1, <3>2 DEF Awaited, LockFree
    <3>4. \A u \in Utterances : Over(co[u])
      BY <1>1, <3>2 DEF Kept, KeptFacts, StopsClean
    <3>5. t \notin Utterances
      BY <3>3, <3>4, KeptTypes DEF Over, Resting, Doomed, Fit
    <3>6. t # p /\ co'[t] = co[t]
      BY <1>1, <1>4, <3>3, <3>5
    <3>. QED BY <3>3, <3>6 DEF Awaited
  <2>. QED BY <2>1, <2>2
<1>. QED BY <1>1, <1>8, <1>9, <1>10, <1>11
         DEF Kept, KeptFacts, BlockedStops, MicReturns, TurnReturns

(* What is left of a coroutine that waited for the microphone.             *)
LEMMA OnwardsKept ==
    ASSUME Kept, NEW q \in Procs, co[q].at \in {"micStart", "connect"}
    PROVE  LET s == Onwards(co[q])
           IN  /\ s \in Coroutine /\ Fit(q, s) /\ s.turn <= conv.turn /\ ~Expiring(s)
               /\ s.at \notin {"ready", "queued", "micStop", "micStart", "gatherStop", "gatherStart"}
               /\ s.inTurn => co[q].inTurn /\ s.turn = co[q].turn
               /\ Engaged(co[q]) => Engaged(s)
<1>. DEFINE s == [co[q] EXCEPT !.at = co[q].next, !.waits = {}]
<1>1. /\ co[q] \in Coroutine /\ Fit(q, co[q]) /\ co[q].turn <= conv.turn /\ conv.turn \in Nat
      /\ co[q].next \in {"listening", "lastTry", "opens", "greet", "done", "armed"}
      /\ ~co[q].dying
  BY KeptTypes DEF Fit
<1>2. /\ s \in Coroutine /\ s.at = co[q].next /\ s.next = co[q].next /\ s.turn = co[q].turn
      /\ s.inTurn = co[q].inTurn /\ ~s.dying /\ s.job = co[q].job
  BY <1>1, Names DEF Coroutine
<1>3. Onwards(co[q]) = IF co[q].next \in {"done", "listening", "lastTry"} THEN Rest ELSE s
  BY DEF Onwards
<1>. HIDE DEF s
<1>4. CASE co[q].next \in {"done", "listening", "lastTry"}
  <2>1. Onwards(co[q]) = Rest /\ ~Engaged(co[q])
    BY <1>3, <1>4 DEF Engaged
  <2>. QED BY <1>1, <2>1, RestKept
<1>5. CASE co[q].next \in {"opens", "greet", "armed"}
  <2>1. Onwards(co[q]) = s
    BY <1>3, <1>5
  <2>2. Fit(q, s) /\ ~Expiring(s)
    BY <1>1, <1>2, <1>5 DEF Fit, Shuts, Expiring
  <2>3. Engaged(co[q]) => Engaged(s)
    BY <1>1, <1>2, <1>5 DEF Engaged
  <2>. QED BY <1>1, <1>2, <1>5, <2>1, <2>2, <2>3
<1>. QED BY <1>1, <1>4, <1>5

(* Steps that move coroutines from await to await of the microphone.       *)
Nears(q, s) ==
    /\ Fit(q, s) /\ s.turn <= conv.turn /\ ~Expiring(s) /\ ~Shuts(co[q])
    /\ s.at \notin {"ready", "queued", "micStop", "gatherStop", "gatherStart"}
    /\ co[q].at \in {"micStart", "connect"} /\ ~co[q].dying
    /\ s.inTurn => co[q].inTurn /\ s.turn = co[q].turn
    /\ Engaged(co[q]) => Engaged(s)

LEMMA NearsKept ==
    ASSUME Kept, co' \in [Procs -> Coroutine], \A q \in Procs : co'[q] = co[q] \/ Nears(q, co'[q]),
           conv' = conv, stale' = stale, timeouts' = timeouts, LockFree,
           mic' # "off", mic = "on" => mic' = "on"
    PROVE  KeptFacts' /\ (Stopping => Stopping')
<1>. USE DEF Kept, KeptFacts
<1>1. \A q \in Procs : Fit(q, co[q]) /\ co[q].turn <= conv.turn
  BY KeptTypes
<1>2. KeptShapes'
  BY <1>1 DEF KeptShapes, Nears
<1>3. Stopping => Stopping'
  BY Apart DEF Stopping, Nears
<1>4. BlockedStops' /\ MicReturns'
  BY <1>3 DEF BlockedStops, MicReturns
<1>5. HeardWhileOn'
  BY Apart DEF HeardWhileOn, Nears
<1>6. LockedIsOff'
  BY DEF LockedIsOff, LockFree, Nears
<1>7. StopsClean'
  <2>. SUFFICES ASSUME NEW s \in Procs, co'[s].at = "micStop"
                PROVE  \/ \A u \in Utterances : Over(co'[u])
                       \/ \A q \in Procs : ~Current(co'[q], conv')
    BY DEF StopsClean
  <2>1. co[s].at = "micStop"
    BY DEF Nears
  <2>2. \A u \in Utterances : Over(co[u]) => Over(co'[u])
    BY Apart DEF Nears, Over, Resting, Doomed
  <2>3. \A q \in Procs : ~Current(co[q], conv) => ~Current(co'[q], conv')
    BY DEF Nears, Current
  <2>. QED BY <2>1, <2>2, <2>3 DEF StopsClean
<1>8. ExpiryAwaited'
  <2>. SUFFICES ASSUME NEW q \in Procs, Expiring(co'[q]), Current(co'[q], conv')
                PROVE  Awaited(q)'
    BY DEF ExpiryAwaited
  <2>1. co'[q] = co[q]
    BY DEF Nears
  <2>2. PICK r \in Procs : co[r].at \in {"gatherStop", "cutting"} /\ q \in co[r].waits
    BY <2>1 DEF ExpiryAwaited, Awaited
  <2>3. co'[r] = co[r]
    BY <2>2 DEF Nears
  <2>. QED BY <2>2, <2>3 DEF Awaited
<1>9. TurnReturns'
  <2>1. Busy => Busy'
    BY DEF Busy, Nears
  <2>. QED BY <1>3, <2>1 DEF TurnReturns
<1>. QED BY <1>2, <1>3, <1>4, <1>5, <1>6, <1>7, <1>8, <1>9

LEMMA OnwardsNears ==
    ASSUME Kept, NEW q \in Procs, co[q].at \in {"micStart", "connect"}
    PROVE  Nears(q, Onwards(co[q])) /\ Onwards(co[q]) \in Coroutine
<1>. DEFINE s == Onwards(co[q])
<1>1. /\ s \in Coroutine /\ Fit(q, s) /\ s.turn <= conv.turn /\ ~Expiring(s)
      /\ s.at \notin {"ready", "queued", "micStop", "micStart", "gatherStop", "gatherStart"}
      /\ s.inTurn => co[q].inTurn /\ s.turn = co[q].turn
      /\ Engaged(co[q]) => Engaged(s)
  BY OnwardsKept
<1>. HIDE DEF s
<1>2. ~co[q].dying /\ ~Shuts(co[q])
  BY KeptTypes DEF Fit, Shuts
<1>3. Nears(q, s)
  BY <1>1, <1>2 DEF Nears
<1>. QED BY <1>1, <1>3 DEF s

LEMMA KeptMicStarts ==
    ASSUME Kept, NEW p \in Procs, MicStarts(p)
    PROVE  KeptFacts' /\ (Stopping => Stopping') /\ conv' = conv /\ mic' # "off"
<1>. DEFINE s == [co[p] EXCEPT !.at = "connect"]
<1>1. /\ co[p].at = "micStart" /\ LockFree /\ mic' # "off" /\ (mic = "on" => mic' = "on")
      /\ conv' = conv /\ timeouts' = timeouts /\ stale' = stale
      /\ \/ co' = [co EXCEPT ![p] = Onwards(co[p])]
         \/ co' = [co EXCEPT ![p] = s]
  BY DEF MicStarts, Goes, Kept
<1>2. /\ co[p] \in Coroutine /\ Fit(p, co[p]) /\ co[p].turn <= conv.turn /\ ~co[p].dying
      /\ ~Shuts(co[p]) /\ co \in [Procs -> Coroutine]
  BY <1>1, KeptTypes DEF Fit, Shuts
<1>3. /\ s \in Coroutine /\ s.at = "connect" /\ s.next = co[p].next /\ s.turn = co[p].turn
      /\ s.inTurn = co[p].inTurn /\ s.dying = co[p].dying
  BY <1>2, Names DEF Coroutine
<1>. HIDE DEF s
<1>4. Nears(p, s)
  BY <1>1, <1>2, <1>3 DEF Nears, Fit, Shuts, Expiring, Engaged
<1>5. Nears(p, Onwards(co[p])) /\ Onwards(co[p]) \in Coroutine
  BY <1>1, OnwardsNears
<1>6. co' \in [Procs -> Coroutine] /\ \A q \in Procs : co'[q] = co[q] \/ Nears(q, co'[q])
  BY <1>1, <1>2, <1>3, <1>4, <1>5
<1>. QED BY <1>1, <1>6, NearsKept

LEMMA KeptMicConnects ==
    ASSUME Kept, Yielded, MicConnects
    PROVE  KeptFacts' /\ (Stopping => Stopping') /\ conv' = conv /\ mic' # "off"
<1>1. /\ mic = "connecting" /\ mic' = "on" /\ conv' = conv /\ timeouts' = timeouts /\ stale' = stale
      /\ co' = [p \in Procs |-> IF co[p].at = "connect" THEN Onwards(co[p]) ELSE co[p]]
  BY DEF MicConnects
<1>2. LockFree
  BY <1>1 DEF Kept, KeptFacts, LockedIsOff
<1>3. \A q \in Procs : co[q] \in Coroutine
  BY KeptTypes
<1>4. co' \in [Procs -> Coroutine] /\ \A q \in Procs : co'[q] = co[q] \/ Nears(q, co'[q])
  BY <1>1, <1>3, OnwardsNears
<1>. QED BY <1>1, <1>2, <1>4, NearsKept

(* A final that is heard waits for its callback.                           *)
LEMMA KeptHeard ==
    ASSUME Kept, Yielded, SilentUnsaid, NEW i \in DOMAIN Voice, Heard(i)
    PROVE  KeptFacts' /\ (Stopping => Stopping') /\ conv' = conv /\ mic' # "off"
<1>. DEFINE u == Voice[i]
            a == [Rest EXCEPT !.at = "ready"]
            b == [Rest EXCEPT !.at = "queued"]
<1>1. u \in Utterances /\ u \in Procs /\ u # Arm
  <2>1. u \in Utterances
    BY DEF Utterances
  <2>. HIDE DEF u
  <2>. QED BY <2>1, Apart
<1>2. /\ co[u].at = "silent" /\ mic = "on" /\ mic' = "on" /\ conv' = conv /\ timeouts' = timeouts
      /\ stale' = stale
      /\ \/ co' = [co EXCEPT ![u] = a]
         \/ co' = [co EXCEPT ![u] = b]
  <2>1. says[u] = None
    BY DEF Heard
  <2>2. co[u].at = "silent"
    BY <1>1, <2>1 DEF SilentUnsaid
  <2>. QED BY <2>2 DEF Heard, Goes, Kept
<1>. HIDE DEF u
<1>3. /\ a.at = "ready" /\ a.turn = 0 /\ a.job = "none" /\ ~a.dying /\ ~a.inTurn
      /\ b.at = "queued" /\ b.turn = 0 /\ b.job = "none" /\ ~b.dying /\ ~b.inTurn
  BY DEF Rest
<1>. HIDE DEF a, b
<1>4. \A q \in Procs : Fit(q, co[q]) /\ co[q].turn <= conv.turn /\ conv.turn \in Nat
  BY KeptTypes
<1>5. co \in [Procs -> Coroutine]
  BY KeptTypes
<1>6. /\ \A q \in Procs \ {u} : co'[q] = co[q]
      /\ co'[u].at \in {"ready", "queued"} /\ co'[u].turn = 0 /\ co'[u].job = "none"
      /\ ~co'[u].dying /\ ~co'[u].inTurn
  BY <1>1, <1>2, <1>3, <1>5
<1>7. LockFree /\ LockFree'
  BY <1>2, <1>6 DEF Kept, KeptFacts, LockedIsOff, LockFree
<1>8. ~Shuts(co'[u]) /\ Fit(u, co'[u]) /\ ~Expiring(co'[u])
  BY <1>1, <1>6 DEF Fit, Shuts, Expiring
<1>. USE DEF Kept, KeptFacts
<1>9. KeptShapes'
  BY <1>2, <1>4, <1>6, <1>8 DEF KeptShapes
<1>10. Stopping => Stopping'
  BY <1>2, <1>6, Apart DEF Stopping, Shuts
<1>11. BlockedStops' /\ MicReturns' /\ LockedIsOff' /\ HeardWhileOn'
  BY <1>2, <1>7, <1>10 DEF BlockedStops, MicReturns, LockedIsOff, HeardWhileOn
<1>12. StopsClean'
  BY <1>6, <1>7 DEF StopsClean, Yielded, AtMic
<1>13. ExpiryAwaited'
  <2>. SUFFICES ASSUME NEW q \in Procs, Expiring(co'[q]), Current(co'[q], conv)
                PROVE  Awaited(q)'
    BY <1>2 DEF ExpiryAwaited
  <2>1. co'[q] = co[q]
    BY <1>6, <1>8
  <2>2. PICK r \in Procs : co[r].at \in {"gatherStop", "cutting"} /\ q \in co[r].waits
    BY <2>1 DEF ExpiryAwaited, Awaited
  <2>3. co'[r] = co[r]
    BY <1>2, <1>6, <2>2
  <2>. QED BY <2>2, <2>3 DEF Awaited
<1>14. TurnReturns'
  <2>1. ~Engaged(co[u])
    BY <1>2 DEF Engaged
  <2>2. Busy => Busy'
    BY <1>6, <2>1 DEF Busy
  <2>. QED BY <1>2, <1>10, <2>2 DEF TurnReturns
<1>. QED BY <1>2, <1>9, <1>10, <1>11, <1>12, <1>13, <1>14

(* assistant.interrupt: whoever is cancelled is waited for.                *)
LEMMA KeptCuts ==
    ASSUME Kept, Yielded, NEW p \in Procs, Cuts(p)
    PROVE  /\ KeptFacts' /\ (Stopping => Stopping') /\ conv' = conv /\ mic' = mic
           /\ \A q \in Procs : co[q].at \in {"micStart", "armPaused"} => co'[q].at = co[q].at
<1>1. PICK running \in SUBSET Executing :
         LET procs == [q \in Procs |-> IF q \in running
                        THEN [co[q] EXCEPT !.at = "unanswered"] ELSE co[q]]
         IN  co' = [Hushed(Cancelling(procs, Planning(p))) EXCEPT ![p] =
                     [@ EXCEPT !.at = "cutting", !.waits = Planning(p)]]
  BY DEF Cuts
<1>. DEFINE procs == [q \in Procs |-> IF q \in running
                        THEN [co[q] EXCEPT !.at = "unanswered"] ELSE co[q]]
            x == Cancelling(procs, Planning(p))
            h == Hushed(x)
            s == [co[p] EXCEPT !.at = "cutting", !.waits = Planning(p)]
<1>2. /\ co[p].at = "cut" /\ mic' = mic /\ conv' = conv /\ timeouts' = timeouts /\ stale' = stale
      /\ co' = [h EXCEPT ![p] = [h[p] EXCEPT !.at = "cutting", !.waits = Planning(p)]]
  BY <1>1 DEF Cuts
<1>3. \A q \in Procs : procs[q] = IF q \in running THEN [co[q] EXCEPT !.at = "unanswered"] ELSE co[q]
  OBVIOUS
<1>4. \A q \in Procs : x[q] = IF q \in Planning(p) THEN Cancelled(procs[q]) ELSE procs[q]
  BY DEF Cancelling
<1>5. \A q \in Procs : h[q] = IF x[q].at = "saying" THEN [x[q] EXCEPT !.at = "said"] ELSE x[q]
  BY DEF Hushed
<1>6. h = [q \in Procs |-> h[q]]
  BY DEF Hushed
<1>. HIDE DEF procs, x, h
<1>7. \A q \in Procs : co[q] \in Coroutine /\ Fit(q, co[q]) /\ co[q].turn <= conv.turn
  BY KeptTypes
<1>8. ASSUME NEW q \in Procs
      PROVE  \/ h[q] = co[q] /\ q \notin Planning(p)
             \/ /\ q # p /\ q \notin Planning(p) /\ co[q].at \in {"executing", "saying"}
                /\ \/ h[q] = [co[q] EXCEPT !.at = "unanswered"]
                   \/ h[q] = [co[q] EXCEPT !.at = "said"]
             \/ /\ q \in Planning(p) /\ co[q].at \in {"thinking", "direct"}
                /\ h[q] = [co[q] EXCEPT !.at = "unwind"]
  <2>. DEFINE a == [co[q] EXCEPT !.at = "unanswered"]
              b == [co[q] EXCEPT !.at = "said"]
              c == [co[q] EXCEPT !.at = "unwind"]
  <2>1. a.at = "unanswered" /\ c.at = "unwind"
    BY <1>7 DEF Coroutine
  <2>2. CASE q \in Planning(p)
    <3>1. q \notin running /\ co[q].at \in {"thinking", "direct"}
      BY <2>2 DEF Executing, Planning
    <3>2. x[q] = c
      BY <1>3, <1>4, <2>2, <3>1 DEF Cancelled
    <3>. HIDE DEF c
    <3>3. h[q] = c
      BY <1>5, <2>1, <3>2
    <3>. QED BY <2>2, <3>1, <3>3 DEF c
  <2>3. CASE q \in running
    <3>1. q \notin Planning(p) /\ co[q].at = "executing" /\ q # p
      BY <1>2, <2>3 DEF Executing, Planning
    <3>2. x[q] = a
      BY <1>3, <1>4, <2>3, <3>1
    <3>. HIDE DEF a
    <3>3. h[q] = a
      BY <1>5, <2>1, <3>2
    <3>. QED BY <3>1, <3>3 DEF a
  <2>4. CASE q \notin Planning(p) /\ q \notin running
    <3>1. x[q] = co[q]
      BY <1>3, <1>4, <2>4
    <3>2. h[q] = IF co[q].at = "saying" THEN b ELSE co[q]
      BY <1>5, <3>1
    <3>. QED BY <1>2, <2>4, <3>2
  <2>. QED BY <2>2, <2>3, <2>4
<1>9. ASSUME NEW q \in Procs
      PROVE  /\ h[q] \in Coroutine /\ h[q].turn = co[q].turn /\ h[q].inTurn = co[q].inTurn
             /\ h[q].job = co[q].job /\ h[q].dying = co[q].dying /\ h[q].waits = co[q].waits
             /\ h[q].next = co[q].next
             /\ \/ h[q].at = co[q].at /\ q \notin Planning(p)
                \/ /\ q # p /\ q \notin Planning(p) /\ co[q].at \in {"executing", "saying"}
                   /\ h[q].at \in {"unanswered", "said"}
                \/ q \in Planning(p) /\ co[q].at \in {"thinking", "direct"} /\ h[q].at = "unwind"
  <2>1. co[q] \in Coroutine
    BY <1>7
  <2>2. ASSUME NEW a \in {"unanswered", "said", "unwind"}
        PROVE  LET r == [co[q] EXCEPT !.at = a]
               IN  /\ r \in Coroutine /\ r.at = a /\ r.turn = co[q].turn /\ r.inTurn = co[q].inTurn
                   /\ r.job = co[q].job /\ r.dying = co[q].dying /\ r.waits = co[q].waits
                   /\ r.next = co[q].next
    BY <2>1, Names DEF Coroutine
  <2>. QED BY <1>8, <2>1, <2>2
<1>10. p \notin Planning(p) /\ Planning(p) \subseteq Procs
  BY DEF Planning
<1>11. h[p] = co[p]
  BY <1>2, <1>8, <1>10
<1>12. s \in Coroutine /\ s.at = "cutting" /\ s.waits = Planning(p) /\ s.turn = co[p].turn
       /\ s.job = co[p].job /\ s.dying = co[p].dying /\ s.next = co[p].next
  <2>. DEFINE w == Planning(p)
  <2>1. w \in SUBSET Procs /\ co[p] \in Coroutine /\ "cutting" \in Awaits
    BY <1>7, <1>10, Names
  <2>. HIDE DEF w
  <2>2. [co[p] EXCEPT !.at = "cutting", !.waits = w] \in Coroutine
    BY <2>1 DEF Coroutine
  <2>. QED BY <2>1, <2>2 DEF Coroutine, w
<1>13. co' = [h EXCEPT ![p] = s]
  BY <1>2, <1>11
<1>. HIDE DEF s
<1>14. /\ co' \in [Procs -> Coroutine] /\ co'[p] = s /\ \A q \in Procs \ {p} : co'[q] = h[q]
  BY <1>6, <1>9, <1>12, <1>13
<1>15. ~s.dying /\ p # Arm
  BY <1>2, <1>7, <1>12 DEF Fit
<1>. USE DEF Kept, KeptFacts
<1>16. KeptShapes'
  <2>. SUFFICES ASSUME NEW q \in Procs PROVE Fit(q, co'[q]) /\ co'[q].turn <= conv.turn
    BY <1>2 DEF KeptShapes
  <2>1. CASE q = p
    BY <1>2, <1>7, <1>12, <1>14, <1>15, <2>1 DEF Fit, Shuts
  <2>2. CASE q # p
    <3>1. co'[q] = h[q]
      BY <1>14, <2>2
    <3>2. Fit(q, h[q])
      BY <1>7, <1>9, <2>2 DEF Fit, Shuts
    <3>. QED BY <1>7, <1>9, <3>1, <3>2
  <2>. QED BY <2>1, <2>2
<1>17. \A q \in Procs : Shuts(co[q]) => Shuts(co'[q])
  BY <1>2, <1>9, <1>12, <1>14 DEF Shuts
<1>18. Stopping => Stopping'
  BY <1>17, Apart DEF Stopping
<1>19. Busy'
  BY <1>12, <1>14, <1>15 DEF Busy, Engaged
<1>20. BlockedStops' /\ TurnReturns'
  BY <1>2, <1>18, <1>19 DEF BlockedStops, TurnReturns
<1>21. HeardWhileOn'
  BY <1>2, <1>9, <1>12, <1>14, Apart DEF HeardWhileOn
<1>22. \A u \in Utterances : Over(co[u]) => Over(co'[u])
  <2>. SUFFICES ASSUME NEW u \in Utterances, Over(co[u]) PROVE Over(co'[u])
    OBVIOUS
  <2>1. u \in Procs /\ Fit(u, co[u]) /\ u # p
    BY <1>2, <1>7, Apart DEF Over, Resting, Doomed
  <2>. QED BY <1>9, <1>14, <2>1 DEF Over, Resting, Doomed, Fit
<1>23. LockedIsOff'
  <2>1. LockFree => LockFree'
    BY <1>9, <1>12, <1>14 DEF LockFree
  <2>. QED BY <1>2, <1>22, <2>1 DEF LockedIsOff
<1>24. StopsClean'
  <2>. SUFFICES ASSUME NEW q \in Procs, co'[q].at = "micStop"
                PROVE  \A u \in Utterances : Over(co'[u])
    BY DEF StopsClean
  <2>1. co[q].at = "micStop"
    BY <1>9, <1>12, <1>14
  <2>2. ~LockFree
    BY <2>1 DEF Yielded, AtMic
  <2>. QED BY <1>22, <2>2 DEF LockedIsOff
<1>25. ExpiryAwaited'
  <2>. SUFFICES ASSUME NEW q \in Procs, Expiring(co'[q]), Current(co'[q], conv)
                PROVE  Awaited(q)'
    BY <1>2 DEF ExpiryAwaited
  <2>1. q # p
    BY <1>12, <1>14, <1>15 DEF Expiring
  <2>2. CASE q \in Planning(p)
    BY <1>12, <1>14, <2>2 DEF Awaited
  <2>3. CASE q \notin Planning(p)
    <3>1. Expiring(co[q]) /\ Current(co[q], conv)
      BY <1>9, <1>14, <2>1, <2>3 DEF Expiring, Current
    <3>2. PICK r \in Procs : co[r].at \in {"gatherStop", "cutting"} /\ q \in co[r].waits
      BY <3>1 DEF ExpiryAwaited, Awaited
    <3>3. r # p
      BY <1>2, <3>2
    <3>4. co'[r].at = co[r].at /\ co'[r].waits = co[r].waits
      BY <1>9, <1>14, <3>2, <3>3
    <3>. QED BY <3>2, <3>4 DEF Awaited
  <2>. QED BY <2>2, <2>3
<1>26. \A q \in Procs : co[q].at \in {"micStart", "armPaused"} => co'[q].at = co[q].at
  BY <1>2, <1>9, <1>14
<1>27. MicReturns'
  <2>1. Opening => Opening'
    BY <1>26 DEF Opening
  <2>. QED BY <1>2, <1>18, <2>1 DEF MicReturns
<1>. QED BY <1>2, <1>16, <1>18, <1>20, <1>21, <1>23, <1>24, <1>25, <1>26, <1>27

(* hard_stop begins: the turn it stops is superseded.                      *)
LEMMA KeptCallStop ==
    ASSUME Kept, Yielded, NEW p \in Calls, CallStop(p)
    PROVE  KeptFacts' /\ Stopping'
<1>. DEFINE s == [Rest EXCEPT !.at = "micStop", !.next = "cut", !.job = "stopping"]
            g == TimerCancelled(co)
            h == [g EXCEPT ![Arm] = Rest]
<1>1. /\ co[p].at = "silent" /\ mic' = mic /\ timeouts' = timeouts /\ stale' = stale
      /\ co' = [h EXCEPT ![p] = s]
  BY DEF CallStop, Called
<1>2. conv.turn \in Nat /\ conv'.turn = conv.turn + 1
  BY KeptTypes DEF CallStop, Conversation
<1>3. s \in Coroutine /\ s.at = "micStop" /\ s.next = "cut" /\ s.job = "stopping" /\ s.turn = 0
      /\ ~s.dying
  BY Names DEF Rest, Coroutine, Jobs
<1>. HIDE DEF s
<1>4. co \in [Procs -> Coroutine] /\ Rest \in Coroutine /\ Timer \in Procs /\ Arm \in Procs
      /\ p \in Procs /\ p \notin Utterances /\ Timer \notin Utterances /\ Arm \notin Utterances
  BY KeptTypes, RestIs, Apart
<1>5. \A q \in Procs : co[q] \in Coroutine /\ Fit(q, co[q]) /\ co[q].turn <= conv.turn
                       /\ co[q].turn \in Nat
  BY KeptTypes
<1>6. g \in [Procs -> Coroutine] /\ \A q \in Procs : g[q] = co[q] \/ (g[q] = Rest /\ q = Timer
                                                                      /\ co[q].at = "leave")
  BY <1>4 DEF TimerCancelled
<1>. HIDE DEF g
<1>7. h \in [Procs -> Coroutine]
      /\ \A q \in Procs : h[q] = co[q] \/ (h[q] = Rest /\ (q = Arm \/ (q = Timer /\ co[q].at = "leave")))
  BY <1>4, <1>6
<1>. HIDE DEF h
<1>8. /\ co' \in [Procs -> Coroutine] /\ co'[p] = s
      /\ \A q \in Procs \ {p} :
            \/ co'[q] = co[q]
            \/ co'[q] = Rest /\ (q = Arm \/ (q = Timer /\ co[q].at = "leave"))
  BY <1>1, <1>3, <1>4, <1>7
<1>9. p # Arm
  BY <1>1, <1>4, <1>5 DEF Fit
<1>10. Stopping'
  BY <1>3, <1>8 DEF Stopping, Shuts
<1>. USE DEF Kept, KeptFacts
<1>11. KeptShapes'
  <2>. SUFFICES ASSUME NEW q \in Procs PROVE Fit(q, co'[q]) /\ co'[q].turn <= conv'.turn
    BY DEF KeptShapes
  <2>1. Fit(q, Rest) /\ Rest.turn = 0
    BY RestKept
  <2>2. Fit(p, s)
    BY <1>3, <1>9 DEF Fit, Shuts
  <2>. QED BY <1>2, <1>3, <1>5, <1>8, <2>1, <2>2
<1>12. \A u \in Utterances : u \in Procs /\ co'[u] = co[u]
  BY <1>4, <1>8, Apart
<1>13. HeardWhileOn'
  BY <1>1, <1>12 DEF HeardWhileOn
<1>14. LockedIsOff'
  <2>1. LockFree => LockFree'
    BY <1>3, <1>8, RestIs DEF LockFree
  <2>. QED BY <1>1, <1>12, <2>1 DEF LockedIsOff
<1>15. \A q \in Procs : ~Current(co'[q], conv')
  BY <1>2, <1>3, <1>5, <1>8, RestIs DEF Current
<1>. QED BY <1>1, <1>10, <1>11, <1>13, <1>14, <1>15
         DEF BlockedStops, StopsClean, ExpiryAwaited, MicReturns, TurnReturns

-----------------------------------------------------------------------------
(* The invariant of a kept stream is inductive.                            *)
LEMMA KeptInit == Init => KeptInv
<1>. SUFFICES ASSUME Init
     PROVE  KeptFacts
  BY DEF KeptInv
<1>. DEFINE s == [Rest EXCEPT !.at = "silent"]
<1>1. s.at = "silent" /\ s.turn = 0 /\ s.job = "none" /\ ~s.dying
      /\ Rest.at = "done" /\ Rest.turn = 0 /\ Rest.job = "none" /\ ~Rest.dying
  BY DEF Rest
<1>2. co = [p \in Procs |-> IF p \in Utterances \cup Calls THEN s ELSE Rest]
      /\ mic = "off" /\ timeouts = 0
  BY DEF Init
<1>3. conv.turn = 0 /\ ~conv.blocked /\ ~conv.session
  BY DEF Init
<1>. HIDE DEF s, Rest
<1>4. Arm \notin Utterances \cup Calls
  BY ConversationAssumption
<1>5. \A p \in Procs : /\ co[p].at \in {"silent", "done"} /\ co[p].turn = 0 /\ co[p].job = "none"
                       /\ ~co[p].dying /\ (p = Arm => co[p].at = "done")
  BY <1>1, <1>2, <1>4
<1>6. KeptShapes
  BY <1>3, <1>5 DEF KeptShapes, Fit, Shuts
<1>7. HeardWhileOn /\ LockedIsOff /\ StopsClean
  BY <1>5, Apart DEF HeardWhileOn, LockedIsOff, LockFree, StopsClean
<1>8. ExpiryAwaited
  BY <1>5 DEF ExpiryAwaited, Expiring
<1>. QED BY <1>2, <1>3, <1>6, <1>7, <1>8 DEF KeptFacts, BlockedStops, MicReturns, TurnReturns

(* What a behaviour is bounded by stays, and faults are counted.           *)
LEMMA BoundsStay ==
    ASSUME TypeOK, [Next]_vars
    PROVE  scene' = scene /\ faults' \in {faults, faults + 1}
<1>1. CASE MicLocked
  BY <1>1 DEF MicLocked, MicStops, MicStarts, bounds
<1>2. ASSUME NEW p \in Procs, Continues(p) PROVE scene' = scene /\ faults' \in {faults, faults + 1}
  <2>1. CASE \/ Gathered(p) \/ ConnectFails(p) \/ TurnBegins(p) \/ PauseConfirmed(p)
             \/ PauseNotConfirmed(p) \/ PauseAsked(p) \/ AssistantAsked(p) \/ AssistantAnswers(p)
             \/ AssistantFails(p) \/ ExecutionCompletes(p) \/ Unwinds(p)
    BY <2>1 DEF Gathered, ConnectFails, TurnBegins, PauseConfirmed, PauseNotConfirmed, PauseAsked,
       AssistantAsked, AssistantAnswers, AssistantFails, ExecutionCompletes, Unwinds, bounds
  <2>2. CASE \/ SpeechPrepared(p) \/ SpeechStarts(p) \/ SpeechEnds(p) \/ SpeechCloses(p)
             \/ SpokenCancelled(p) \/ SpokenBarge(p) \/ SpokenOut(p) \/ SpokenPause(p)
    BY <2>2 DEF SpeechPrepared, SpeechStarts, SpeechEnds, SpeechCloses, SpokenCancelled,
       SpokenBarge, SpokenOut, SpokenPause, Spoken, bounds
  <2>3. CASE \/ Rearms(p) \/ Rearmed(p) \/ Relistens(p) \/ ArmsPaused(p) \/ Leaves(p) \/ Resumes(p)
             \/ Cuts(p) \/ InterruptSpeechListens(p) \/ HardStopEnds(p) \/ EntersPause(p)
             \/ Greets(p)
    BY <2>3 DEF Rearms, Rearmed, Relistens, ArmsPaused, Leaves, Resumes, Cuts,
       InterruptSpeechListens, HardStopEnds, EntersPause, HasCut, Greets, bounds
  <2>. QED BY <1>2, <2>1, <2>2, <2>3 DEF Continues
<1>3. ASSUME NEW u \in Utterances, FinalCallback(u)
      PROVE  scene' = scene /\ faults' \in {faults, faults + 1}
  BY <1>3 DEF FinalCallback, FinalToAssistant, FinalWhilePaused, FinalStops, FinalIsEcho,
     FinalBargesIn, FinalIgnored, FinalAsksToPause, FinalDiscarded, FinalBeginsTurn, DirectEnds,
     bounds
<1>4. ASSUME NEW p \in Calls, ApiCall(p)
      PROVE  scene' = scene /\ faults' \in {faults, faults + 1}
  BY <1>4 DEF ApiCall, CallStart, CallInterrupt, CallStop, CallResume, bounds
<1>5. ASSUME NEW i \in DOMAIN Voice, Heard(i)
      PROVE  scene' = scene /\ faults' \in {faults, faults + 1}
  BY <1>5 DEF Heard, bounds
<1>6. CASE \/ MicConnects \/ MicFails \/ InterimCuts
           \/ ArmWakes \/ ArmReady \/ TimerFires \/ TakesTimeout
  BY <1>6 DEF MicConnects, MicFails, InterimCuts, ArmWakes, ArmReady, TimerFires, TakesTimeout,
     bounds
<1>7. CASE UNCHANGED vars
  BY <1>7 DEF vars
<1>. QED BY <1>1, <1>2, <1>3, <1>4, <1>5, <1>6, <1>7 DEF Next

LEMMA KeptContinues ==
    ASSUME Kept, Yielded, faults' = faults, faults = 0, NEW p \in Procs, Continues(p)
    PROVE  KeptFacts'
<1>1. CASE Cuts(p)
  BY <1>1, KeptCuts
<1>2. CASE \/ Gathered(p) \/ ConnectFails(p)
           \/ PauseConfirmed(p) \/ PauseNotConfirmed(p) \/ PauseAsked(p) \/ AssistantAsked(p)
           \/ AssistantAnswers(p) \/ ExecutionCompletes(p) \/ Unwinds(p)
  <2>1. ConnectFails(p) => mic = "off"
    BY DEF ConnectFails
  <2>2. Advances(p)
    BY <1>2, <2>1, KeptGathered, KeptConnectFails, KeptPauseConfirmed, KeptPrompts,
       KeptAssistantAsked, KeptAssistantAnswers, KeptExecutionCompletes, KeptUnwinds
  <2>. QED BY <2>2, AdvancesKeeps
<1>3. CASE \/ SpeechPrepared(p) \/ SpeechStarts(p) \/ SpeechEnds(p)
           \/ SpokenCancelled(p) \/ SpokenBarge(p) \/ SpokenOut(p) \/ SpokenPause(p)
  <2>1. Advances(p)
    BY <1>3, KeptSpeechPrepared, KeptSpeechGoes, KeptSpokenCancelled, KeptSpokenBarge,
       KeptSpokenOut, KeptSpokenPause
  <2>. QED BY <2>1, AdvancesKeeps
<1>4. CASE \/ Rearmed(p) \/ Relistens(p) \/ ArmsPaused(p) \/ Leaves(p) \/ Resumes(p)
           \/ InterruptSpeechListens(p) \/ HardStopEnds(p) \/ EntersPause(p) \/ Greets(p)
  <2>1. Advances(p)
    BY <1>4, KeptRearmed, KeptRelistens, KeptArmsPaused, KeptLeaves, KeptResumes,
       KeptInterruptSpeechListens, KeptHardStopEnds, KeptEntersPause, KeptGreets
  <2>. QED BY <2>1, AdvancesKeeps
<1>5. ~TurnBegins(p) /\ ~SpeechCloses(p)
  BY DEF Kept, TurnBegins, SpeechCloses, MustClose
<1>6. ~AssistantFails(p)
  BY DEF AssistantFails
<1>7. ~Rearms(p)
  BY KeptTypes DEF Rearms, Fit
<1>. QED BY <1>1, <1>2, <1>3, <1>4, <1>5, <1>6, <1>7 DEF Continues

LEMMA KeptStep ==
    ASSUME ConversationInv, KeptInv, [Next]_vars
    PROVE  KeptInv'
<1>. SUFFICES ASSUME reuse', faults' = 0 PROVE KeptFacts'
  BY DEF KeptInv
<1>1. TypeOK /\ SilentUnsaid /\ faults \in Nat /\ timeouts \in Nat
  BY TypeOKIs DEF ConversationInv
<1>2. reuse /\ faults = 0 /\ faults' = faults
  BY <1>1, BoundsStay DEF reuse
<1>3. Kept
  BY <1>1, <1>2 DEF Kept, KeptInv
<1>4. CASE MicLocked
  BY <1>3, <1>4, KeptMicStops, KeptMicStarts DEF MicLocked
<1>5. CASE Yielded /\ Next
  <2>1. ASSUME NEW p \in Procs, Continues(p) PROVE KeptFacts'
    BY <1>2, <1>3, <1>5, <2>1, KeptContinues
  <2>2. ASSUME NEW u \in Utterances, FinalCallback(u) PROVE KeptFacts'
    <3>1. u \in Procs
      BY Apart
    <3>2. Advances(u)
      BY <1>3, <2>2, KeptFinals, KeptFinalTurns, KeptFinalDiscarded, KeptDirectEnds
         DEF FinalCallback
    <3>. QED BY <1>3, <1>5, <3>1, <3>2, AdvancesKeeps
  <2>3. ASSUME NEW p \in Calls, ApiCall(p) PROVE KeptFacts'
    <3>1. p \in Procs
      BY Apart
    <3>2. CASE CallStop(p)
      BY <1>3, <1>5, <3>2, KeptCallStop
    <3>3. CASE CallStart(p) \/ CallInterrupt(p) \/ CallResume(p)
      BY <1>3, <1>5, <3>1, <3>3, KeptCallStart, KeptCallInterrupt, KeptCallResume, AdvancesKeeps
    <3>. QED BY <2>3, <3>2, <3>3 DEF ApiCall
  <2>4. ASSUME NEW i \in DOMAIN Voice, Heard(i) PROVE KeptFacts'
    BY <1>1, <1>3, <1>5, <2>4, KeptHeard
  <2>5. CASE MicConnects
    BY <1>3, <1>5, <2>5, KeptMicConnects
  <2>6. CASE InterimCuts \/ ArmWakes \/ ArmReady
    <3>1. Advances(Arm)
      BY <1>3, <2>6, KeptInterimCuts, KeptArmWakes, KeptArmReady
    <3>. QED BY <1>3, <1>5, <3>1, Apart, AdvancesKeeps
  <2>7. CASE TimerFires
    BY <1>3, <1>5, <2>7, KeptTimerFires, Apart, AdvancesKeeps
  <2>8. ~MicFails /\ ~TakesTimeout
    BY <1>2, <1>3 DEF MicFails, TakesTimeout, Kept, KeptFacts
  <2>. QED BY <1>4, <1>5, <2>1, <2>2, <2>3, <2>4, <2>5, <2>6, <2>7, <2>8 DEF Next
<1>6. CASE UNCHANGED vars
  <2>1. KeptFacts
    BY <1>3 DEF Kept
  <2>. QED BY <1>6, <2>1
       DEF vars, KeptFacts, KeptShapes, BlockedStops, HeardWhileOn, LockedIsOff, LockFree,
           StopsClean, ExpiryAwaited, Awaited, MicReturns, TurnReturns, Stopping, Busy, Opening
<1>. QED BY <1>4, <1>5, <1>6 DEF Next

(* With a kept stream, a conversation that has come to rest, is not over   *)
(* and met no fault listens or is paused, with the microphone open: speech,*)
(* barge-in, interrupts, pauses and stops, in whatever order, leave it so, *)
(* unless a superseded turn came to _resume_listening.                     *)
THEOREM KeptStreamStaysListening == Spec => []KeptStreamListens
<1>1. ConversationInv /\ KeptInv /\ [Next]_vars => KeptInv'
  BY KeptStep
<1>2. KeptInv => KeptStreamListens
  <2>. SUFFICES ASSUME KeptInv, reuse, Quiet, conv.session, ~stale, faults = 0
                PROVE  conv.state \in {"listening", "paused"} /\ mic # "off" /\ conv.active
    BY DEF KeptStreamListens
  <2>1. \A p \in Procs : co[p].at \in {"silent", "done", "dead", "unanswered"}
    BY DEF Quiet, Quiescent, Stuck, Resting
  <2>2. ~Stopping /\ ~Busy /\ ~Opening
    BY <2>1, Apart DEF Stopping, Shuts, Busy, Engaged, Opening
  <2>. QED BY <2>2 DEF KeptInv, KeptFacts, MicReturns, TurnReturns
<1>. QED
  BY <1>1, <1>2, KeptInit, ConversationAlways, PTL DEF Spec

-----------------------------------------------------------------------------
(* A pause that can be left.  With a kept stream a conversation that is    *)
(* paused and not being stopped has an end of its pause, and a microphone  *)
(* or somebody about to open one (PauseHeld): only an acknowledgement that *)
(* is still its turn's pauses, and only _leave_pause, which makes the      *)
(* conversation speak in the same step, and a stop take the end away.      *)
PauseHeld ==
    conv.state = "paused" /\ ~Stopping =>
        /\ conv.until
        /\ mic = "off" => \E p \in Procs \ {Arm} : co[p].at \in {"micStart", "armPaused"}
PauseInv == reuse /\ faults = 0 => PauseHeld

(* A step that begins no pause and opens no microphone for one.            *)
Stands(p) ==
    conv'.state = "paused" =>
        conv.state = "paused" /\ conv'.until = conv.until /\ co[p].at # "armPaused"

LEMMA StopsOn ==
    ASSUME Kept, NEW p \in Procs, Advances(p), Stopping, conv'.state = "paused"
    PROVE  Stopping'
<1>1. PICK q \in Calls : Shuts(co[q])
  BY DEF Stopping
<1>2. q \in Procs
  BY Apart
<1>3. Moves(p, co'[p]) /\ \A r \in Procs \ {p} : Beside(r, co'[r])
  BY DEF Advances, Aside
<1>4. CASE q = p
  BY <1>1, <1>3, <1>4 DEF Moves, Stopping
<1>5. CASE q # p
  BY <1>1, <1>2, <1>3, <1>5 DEF Beside, Stopping
<1>. QED BY <1>4, <1>5

LEMMA StandsHolds ==
    ASSUME Kept, PauseHeld, NEW p \in Procs, Advances(p), Stands(p)
    PROVE  PauseHeld'
<1>. SUFFICES ASSUME conv'.state = "paused", ~Stopping'
     PROVE  /\ conv'.until
            /\ mic' = "off" => \E q \in Procs \ {Arm} : co'[q].at \in {"micStart", "armPaused"}
  BY DEF PauseHeld
<1>1. ~Stopping
  BY StopsOn
<1>2. /\ conv.until /\ conv'.until /\ co[p].at # "armPaused" /\ mic' = mic
      /\ mic = "off" => \E q \in Procs \ {Arm} : co[q].at \in {"micStart", "armPaused"}
  BY <1>1 DEF PauseHeld, Stands, Advances
<1>3. Moves(p, co'[p]) /\ \A r \in Procs \ {p} : Beside(r, co'[r])
  BY DEF Advances, Aside
<1>4. ASSUME NEW q \in Procs \ {Arm}, co[q].at \in {"micStart", "armPaused"}
      PROVE  co'[q].at \in {"micStart", "armPaused"}
  BY <1>2, <1>3, <1>4 DEF Moves, Beside
<1>. QED BY <1>2, <1>4

(* What the ways of going on make of the state.                            *)
LEMMA SpeaksOut ==
    ASSUME NEW procs, NEW c \in Conversation, NEW p, NEW r, NEW j, StartSpeaking(procs, c, p, r, j)
    PROVE  conv'.state = "speaking"
<1>1. conv'.state = "speaking"
  BY DEF StartSpeaking, Conversation
<1>. QED BY <1>1

LEMMA ResumedOut ==
    ASSUME NEW procs, NEW c \in Conversation, NEW p, NEW r, NEW n, ResumeListening(procs, c, p, r, n)
    PROVE  conv'.state \in {"listening", "idle"}
BY DEF ResumeListening, Silenced, Conversation

LEMMA TurnOverOut ==
    ASSUME NEW procs, NEW c \in Conversation, NEW p, TurnOver(procs, c, p)
    PROVE  conv'.state \in {"listening", "idle"}
<1>1. CASE ~Interrupted(co[p].turn) /\ ~c.session
  BY <1>1 DEF TurnOver, Silenced, Conversation
<1>2. CASE ResumeListening(procs, c, p, co[p], "listening")
  BY <1>2, ResumedOut
<1>. QED BY <1>1, <1>2 DEF TurnOver

LEMMA TurnAdvanced ==
    ASSUME NEW c \in Conversation
    PROVE  /\ [c EXCEPT !.accept = FALSE, !.turn = @ + 1] \in Conversation
           /\ [c EXCEPT !.until = FALSE, !.accept = FALSE, !.turn = @ + 1] \in Conversation
<1>1. c.turn + 1 \in Nat
  BY DEF Conversation
<1>. QED BY <1>1 DEF Conversation

(* Action by action: what begins no pause.                                 *)
LEMMA ContinuesStands ==
    ASSUME Kept, NEW p \in Procs,
           \/ Gathered(p) \/ PauseConfirmed(p) \/ PauseNotConfirmed(p)
           \/ PauseAsked(p) \/ AssistantAsked(p) \/ AssistantAnswers(p) \/ ExecutionCompletes(p)
           \/ Unwinds(p) \/ SpeechPrepared(p) \/ SpeechStarts(p) \/ SpeechEnds(p)
           \/ Rearmed(p) \/ Relistens(p) \/ Resumes(p) \/ Greets(p)
    PROVE  Stands(p)
<1>0. conv \in Conversation /\ reuse
  BY KeptTypes DEF Kept
<1>1. CASE Gathered(p) \/ SpeechStarts(p) \/ SpeechEnds(p)
  BY <1>1 DEF Gathered, SpeechStarts, SpeechEnds, Stands
<1>2. CASE PauseConfirmed(p) \/ AssistantAsked(p)
  BY <1>0, <1>2 DEF PauseConfirmed, AssistantAsked, Conversation, Stands
<1>3. CASE PauseNotConfirmed(p) \/ PauseAsked(p)
  <2>1. PICK b \in BOOLEAN : StartSpeaking(co, [conv EXCEPT !.asking = b], p, co[p], "prompt")
    BY <1>3 DEF PauseNotConfirmed, PauseAsked, Prompts
  <2>2. [conv EXCEPT !.asking = b] \in Conversation
    BY <1>0 DEF Conversation
  <2>. QED BY <2>1, <2>2, SpeaksOut DEF Stands
<1>4. CASE AssistantAnswers(p)
  <2>1. [conv EXCEPT !.session = FALSE] \in Conversation
    BY <1>0 DEF Conversation
  <2>2. \/ conv'.state \in {"listening", "idle", "speaking"}
        \/ conv' = conv /\ co[p].at = "thinking"
    BY <1>0, <1>4, <2>1, ResumedOut, SpeaksOut, TurnOverOut DEF AssistantAnswers
  <2>. QED BY <2>2 DEF Stands
<1>5. CASE ExecutionCompletes(p) \/ Relistens(p) \/ Resumes(p)
  BY <1>0, <1>5, ResumedOut, SpeaksOut DEF ExecutionCompletes, Relistens, Resumes, Stands
<1>6. CASE Unwinds(p)
  BY <1>0, <1>6 DEF Unwinds, Silenced, Conversation, Stands
<1>7. CASE SpeechPrepared(p) \/ Rearmed(p)
  BY <1>0, <1>7 DEF SpeechPrepared, Rearmed, Conversation, Stands
<1>8. CASE Greets(p)
  <2>1. [conv EXCEPT !.session = TRUE] \in Conversation
    BY <1>0 DEF Conversation
  <2>. QED BY <1>8, <2>1, SpeaksOut DEF Greets, Stands
<1>. QED
  BY <1>1, <1>2, <1>3, <1>4, <1>5, <1>6, <1>7, <1>8

LEMMA ConnectFailsStands ==
    ASSUME Kept, NEW p \in Procs, ConnectFails(p)
    PROVE  Stands(p)
<1>1. conv \in Conversation /\ co[p].at = "connect"
  BY KeptTypes DEF ConnectFails
<1>2. conv' = conv \/ Fails(p)
  BY DEF ConnectFails
<1>3. CASE Fails(p)
  <2>1. \/ conv' = conv \/ conv' = Silenced(conv)
        \/ ResumeListening(co, conv, p, co[p], "listening")
        \/ ResumeListening(co, conv, p, co[p], "lastTry")
    BY <1>3 DEF Fails
  <2>2. Silenced(conv).state = "idle"
    BY <1>1 DEF Silenced, Conversation
  <2>. QED BY <1>1, <2>1, <2>2, ResumedOut DEF Stands
<1>. QED BY <1>1, <1>2, <1>3 DEF Stands

LEMMA CutStands ==
    ASSUME Kept, NEW p \in Procs,
           InterruptSpeechListens(p) \/ HardStopEnds(p) \/ EntersPause(p) \/ Leaves(p)
    PROVE  Stands(p)
<1>0. conv \in Conversation /\ reuse
  BY KeptTypes DEF Kept
<1>1. CASE InterruptSpeechListens(p)
  <2>1. [conv EXCEPT !.session = TRUE] \in Conversation
    BY <1>0 DEF Conversation
  <2>. QED BY <1>1, <2>1, ResumedOut DEF InterruptSpeechListens, Stands
<1>2. CASE HardStopEnds(p)
  BY <1>0, <1>2 DEF HardStopEnds, Conversation, Stands
<1>3. CASE EntersPause(p)
  <2>1. [conv EXCEPT !.accept = FALSE, !.interrupt = FALSE] \in Conversation
    BY <1>0 DEF Conversation
  <2>. QED BY <1>3, <2>1, SpeaksOut DEF EntersPause, Stands
<1>4. CASE Leaves(p)
  <2>. DEFINE c == [conv EXCEPT !.until = FALSE, !.accept = FALSE, !.turn = @ + 1]
  <2>1. c \in Conversation
    BY <1>0, TurnAdvanced
  <2>2. \/ conv' = conv /\ conv.state # "paused"
        \/ StartSpeaking(TimerCancelled(co), c, p,
                         [co[p] EXCEPT !.turn = conv.turn + 1, !.holds = TRUE, !.job = "resumed"],
                         "resumed")
    BY <1>0, <1>4 DEF Leaves
  <2>. HIDE DEF c
  <2>. QED BY <2>1, <2>2, SpeaksOut DEF Stands
<1>. QED BY <1>1, <1>2, <1>3, <1>4

LEMMA SpokenStands ==
    ASSUME Kept, NEW p \in Procs, SpokenCancelled(p) \/ SpokenBarge(p) \/ SpokenOut(p)
    PROVE  Stands(p)
<1>1. Spoken(p)
  BY DEF SpokenCancelled, SpokenBarge, SpokenOut
<1>2. /\ AfterSpeech(p) \in Conversation /\ AfterSpeech(p).state = conv.state
      /\ co[p].at \in {"said", "spoken"}
  BY <1>1, KeptSpoken
<1>3. AfterSpeech(p).until = conv.until
  BY KeptTypes DEF AfterSpeech, Conversation
<1>4. CASE SpokenCancelled(p)
  BY <1>2, <1>3, <1>4 DEF SpokenCancelled, Stands
<1>5. CASE SpokenBarge(p)
  <2>1. conv'.state = AfterSpeech(p).state /\ conv'.until = AfterSpeech(p).until
    BY <1>2, <1>5 DEF SpokenBarge, Conversation
  <2>. QED BY <1>2, <1>3, <2>1 DEF Stands
<1>6. CASE SpokenOut(p)
  <2>1. \/ TurnOver(Cleaned(p), AfterSpeech(p), p)
        \/ conv' = [AfterSpeech(p) EXCEPT !.state = "idle", !.active = FALSE]
        \/ ResumeListening(Cleaned(p), AfterSpeech(p), p, co[p], "listening")
    BY <1>6 DEF SpokenOut
  <2>2. [AfterSpeech(p) EXCEPT !.state = "idle", !.active = FALSE].state = "idle"
    BY <1>2 DEF Conversation
  <2>. QED BY <1>2, <2>1, <2>2, TurnOverOut, ResumedOut DEF Stands
<1>. QED BY <1>4, <1>5, <1>6

LEMMA FinalStands ==
    ASSUME Kept, NEW u \in Utterances, FinalCallback(u)
    PROVE  Stands(u)
<1>0. conv \in Conversation /\ reuse
  BY KeptTypes DEF Kept
<1>1. co[u].at # "armPaused"
  BY DEF FinalCallback, FinalToAssistant, FinalWhilePaused, FinalStops, FinalIsEcho,
     FinalBargesIn, FinalIgnored, FinalAsksToPause, FinalDiscarded, FinalBeginsTurn, DirectEnds,
     Unexpected, Expected, Delivers
<1>2. CASE \/ FinalToAssistant(u) \/ FinalWhilePaused(u) \/ FinalStops(u) \/ FinalIsEcho(u)
           \/ FinalBargesIn(u) \/ FinalIgnored(u) \/ FinalAsksToPause(u) \/ FinalBeginsTurn(u)
           \/ DirectEnds(u)
  <2>1. conv'.state = conv.state /\ conv'.until = conv.until
    BY <1>0, <1>2 DEF FinalToAssistant, FinalWhilePaused, FinalStops, FinalIsEcho,
       FinalBargesIn, FinalIgnored, FinalAsksToPause, FinalBeginsTurn, DirectEnds,
       InterruptSpeech, Conversation
  <2>. QED BY <1>1, <2>1 DEF Stands
<1>3. CASE FinalDiscarded(u)
  <2>. DEFINE c == [conv EXCEPT !.accept = FALSE, !.turn = @ + 1]
  <2>1. c \in Conversation
    BY <1>0, TurnAdvanced
  <2>2. ResumeListening(co, c, u, [Rest EXCEPT !.turn = conv.turn + 1], "listening")
    BY <1>0, <1>3 DEF FinalDiscarded
  <2>. HIDE DEF c
  <2>. QED BY <2>1, <2>2, ResumedOut DEF Stands
<1>. QED BY <1>2, <1>3 DEF FinalCallback

LEMMA CallStands ==
    ASSUME Kept, NEW p \in Calls, CallStart(p) \/ CallInterrupt(p) \/ CallResume(p)
    PROVE  Stands(p)
<1>1. co[p].at = "silent" /\ conv \in Conversation
  BY KeptTypes DEF CallStart, CallInterrupt, CallResume, Called
<1>2. Unblocked \in Conversation /\ Unblocked.state = conv.state /\ Unblocked.until = conv.until
  BY <1>1 DEF Unblocked, Conversation
<1>3. conv'.state = Unblocked.state /\ conv'.until = Unblocked.until
  BY <1>2 DEF CallStart, CallInterrupt, CallResume, InterruptSpeech, Conversation
<1>. QED BY <1>1, <1>2, <1>3 DEF Stands

LEMMA ArmStands ==
    ASSUME Kept, InterimCuts \/ ArmWakes \/ ArmReady
    PROVE  Stands(Arm)
<1>1. co[Arm].at # "armPaused" /\ conv \in Conversation
  BY KeptTypes, Apart DEF Fit
<1>2. conv'.state = conv.state /\ conv'.until = conv.until
  BY <1>1 DEF InterimCuts, ArmWakes, ArmReady, Conversation
<1>. QED BY <1>1, <1>2 DEF Stands

LEMMA TimerStands ==
    ASSUME Kept, TimerFires
    PROVE  Stands(Timer)
BY DEF TimerFires, Quiescent, Resting, Stands

(* The acknowledgement of a pause has been spoken: its coroutine is about  *)
(* to arm the microphone.                                                  *)
LEMMA SpokenPauseHolds ==
    ASSUME Kept, PauseHeld, NEW p \in Procs, SpokenPause(p)
    PROVE  PauseHeld'
<1>. DEFINE c == [AfterSpeech(p) EXCEPT !.barge = None]
            s == [co[p] EXCEPT !.at = "armPaused", !.job = "none"]
<1>1. Spoken(p)
  BY DEF SpokenPause
<1>2. /\ AfterSpeech(p) \in Conversation /\ AfterSpeech(p).state = conv.state /\ p # Arm
      /\ co[p].at \in {"said", "spoken"} /\ Cleaned(p) \in [Procs -> Coroutine]
      /\ Cleaned(p)[p] = co[p] /\ co[p] \in Coroutine
  BY <1>1, KeptSpoken
<1>3. AfterSpeech(p).until = conv.until
  BY KeptTypes DEF AfterSpeech, Conversation
<1>4. c \in Conversation /\ c.state = conv.state /\ c.until = conv.until
  BY <1>2, <1>3 DEF Conversation
<1>5. Advances(p)
  BY KeptSpokenPause
<1>6. CASE conv' = c \/ ResumeListening(Cleaned(p), c, p, co[p], "listening")
  <2>. HIDE DEF c
  <2>1. Stands(p)
    BY <1>2, <1>4, <1>6, ResumedOut DEF Stands
  <2>. QED BY <1>5, <2>1, StandsHolds
<1>7. CASE /\ conv' = [c EXCEPT !.state = "paused", !.active = TRUE, !.accept = TRUE, !.until = TRUE]
           /\ co' = [Cleaned(p) EXCEPT ![p] = s]
  <2>. HIDE DEF c
  <2>1. conv'.until
    BY <1>4, <1>7 DEF Conversation
  <2>2. s.at = "armPaused"
    BY <1>2 DEF Coroutine
  <2>. HIDE DEF s
  <2>3. co'[p].at = "armPaused"
    BY <1>2, <1>7, <2>2
  <2>. QED BY <1>2, <2>1, <2>3 DEF PauseHeld
<1>8. \/ conv' = c \/ ResumeListening(Cleaned(p), c, p, co[p], "listening")
      \/ /\ conv' = [c EXCEPT !.state = "paused", !.active = TRUE, !.accept = TRUE, !.until = TRUE]
         /\ co' = [Cleaned(p) EXCEPT ![p] = s]
  BY <1>2 DEF SpokenPause
<1>. QED BY <1>6, <1>7, <1>8

(* _arm_paused_listening: the microphone it opens is what the pause is     *)
(* held by now.                                                            *)
LEMMA ArmsPausedHolds ==
    ASSUME Kept, PauseHeld, NEW p \in Procs, ArmsPaused(p)
    PROVE  PauseHeld'
<1>. DEFINE s == [co[p] EXCEPT !.at = "micStart", !.next = "done"]
<1>1. co[p].at = "armPaused" /\ co[p] \in Coroutine /\ p # Arm /\ co \in [Procs -> Coroutine]
  BY KeptTypes, FreedAt DEF ArmsPaused, Going
<1>2. Advances(p)
  BY KeptArmsPaused
<1>3. CASE (conv.state # "paused" \/ ~conv.until) /\ conv' = conv
  <2>1. conv'.state = "paused" /\ ~Stopping' => conv.until
    BY <1>2, <1>3, StopsOn DEF PauseHeld
  <2>. QED BY <1>3, <2>1 DEF PauseHeld
<1>4. CASE /\ conv.until /\ conv' = [conv EXCEPT !.accept = TRUE, !.active = TRUE]
           /\ co' = [co EXCEPT ![p] = s]
  <2>1. conv'.until
    BY <1>4, KeptTypes DEF Conversation
  <2>2. s.at = "micStart"
    BY <1>1 DEF Coroutine
  <2>. HIDE DEF s
  <2>3. co'[p].at = "micStart"
    BY <1>1, <1>4, <2>2
  <2>. QED BY <1>1, <2>1, <2>3 DEF PauseHeld
<1>. QED BY <1>3, <1>4 DEF ArmsPaused, Goes

(* assistant.interrupt leaves a pause and who opens its microphone alone.  *)
LEMMA CutsHolds ==
    ASSUME Kept, Yielded, PauseHeld, NEW p \in Procs, Cuts(p)
    PROVE  PauseHeld'
<1>1. /\ Stopping => Stopping'
      /\ conv' = conv /\ mic' = mic
      /\ \A q \in Procs : co[q].at \in {"micStart", "armPaused"} => co'[q].at = co[q].at
  BY KeptCuts
<1>. QED BY <1>1 DEF PauseHeld

LEMMA PauseContinues ==
    ASSUME Kept, Yielded, PauseHeld, faults' = faults, faults = 0, NEW p \in Procs, Continues(p)
    PROVE  PauseHeld'
<1>1. CASE Cuts(p)
  BY <1>1, CutsHolds
<1>2. CASE SpokenPause(p)
  BY <1>2, SpokenPauseHolds
<1>3. CASE ArmsPaused(p)
  BY <1>3, ArmsPausedHolds
<1>4. CASE \/ Gathered(p) \/ ConnectFails(p)
           \/ PauseConfirmed(p) \/ PauseNotConfirmed(p) \/ PauseAsked(p) \/ AssistantAsked(p)
           \/ AssistantAnswers(p) \/ ExecutionCompletes(p) \/ Unwinds(p)
  <2>1. ConnectFails(p) => mic = "off"
    BY DEF ConnectFails
  <2>2. Advances(p)
    BY <1>4, <2>1, KeptGathered, KeptConnectFails, KeptPauseConfirmed, KeptPrompts,
       KeptAssistantAsked, KeptAssistantAnswers, KeptExecutionCompletes, KeptUnwinds
  <2>3. Stands(p)
    BY <1>4, ContinuesStands, ConnectFailsStands
  <2>. QED BY <2>2, <2>3, StandsHolds
<1>5. CASE \/ SpeechPrepared(p) \/ SpeechStarts(p) \/ SpeechEnds(p)
           \/ SpokenCancelled(p) \/ SpokenBarge(p) \/ SpokenOut(p)
  <2>1. Advances(p)
    BY <1>5, KeptSpeechPrepared, KeptSpeechGoes, KeptSpokenCancelled, KeptSpokenBarge,
       KeptSpokenOut
  <2>2. Stands(p)
    BY <1>5, ContinuesStands, SpokenStands
  <2>. QED BY <2>1, <2>2, StandsHolds
<1>6. CASE \/ Rearmed(p) \/ Relistens(p) \/ Leaves(p) \/ Resumes(p)
           \/ InterruptSpeechListens(p) \/ HardStopEnds(p) \/ EntersPause(p) \/ Greets(p)
  <2>1. Advances(p)
    BY <1>6, KeptRearmed, KeptRelistens, KeptLeaves, KeptResumes,
       KeptInterruptSpeechListens, KeptHardStopEnds, KeptEntersPause, KeptGreets
  <2>2. Stands(p)
    BY <1>6, ContinuesStands, CutStands
  <2>. QED BY <2>1, <2>2, StandsHolds
<1>7. ~TurnBegins(p) /\ ~SpeechCloses(p)
  BY DEF Kept, TurnBegins, SpeechCloses, MustClose
<1>8. ~AssistantFails(p)
  BY DEF AssistantFails
<1>9. ~Rearms(p)
  BY KeptTypes DEF Rearms, Fit
<1>. QED BY <1>1, <1>2, <1>3, <1>4, <1>5, <1>6, <1>7, <1>8, <1>9 DEF Continues

LEMMA PauseStep ==
    ASSUME ConversationInv, KeptInv, PauseInv, [Next]_vars
    PROVE  PauseInv'
<1>. SUFFICES ASSUME reuse', faults' = 0 PROVE PauseHeld'
  BY DEF PauseInv
<1>1. TypeOK /\ SilentUnsaid /\ faults \in Nat /\ timeouts \in Nat
  BY TypeOKIs DEF ConversationInv
<1>2. reuse /\ faults = 0 /\ faults' = faults
  BY <1>1, BoundsStay DEF reuse
<1>3. Kept /\ PauseHeld
  BY <1>1, <1>2 DEF Kept, KeptInv, PauseInv
<1>4. CASE MicLocked
  <2>1. ASSUME NEW p \in Procs, MicStops(p) PROVE PauseHeld'
    BY <1>3, <2>1, KeptMicStops DEF PauseHeld
  <2>2. ASSUME NEW p \in Procs, MicStarts(p) PROVE PauseHeld'
    BY <1>3, <2>2, KeptMicStarts DEF PauseHeld
  <2>. QED BY <1>4, <2>1, <2>2 DEF MicLocked
<1>5. CASE Yielded /\ Next
  <2>1. ASSUME NEW p \in Procs, Continues(p) PROVE PauseHeld'
    BY <1>2, <1>3, <1>5, <2>1, PauseContinues
  <2>2. ASSUME NEW u \in Utterances, FinalCallback(u) PROVE PauseHeld'
    <3>1. u \in Procs
      BY Apart
    <3>2. Advances(u)
      BY <1>3, <2>2, KeptFinals, KeptFinalTurns, KeptFinalDiscarded, KeptDirectEnds
         DEF FinalCallback
    <3>. QED BY <1>3, <2>2, <3>1, <3>2, FinalStands, StandsHolds
  <2>3. ASSUME NEW p \in Calls, ApiCall(p) PROVE PauseHeld'
    <3>1. p \in Procs
      BY Apart
    <3>2. CASE CallStop(p)
      BY <1>3, <1>5, <3>2, KeptCallStop DEF PauseHeld
    <3>3. CASE CallStart(p) \/ CallInterrupt(p) \/ CallResume(p)
      <4>1. Advances(p)
        BY <1>3, <3>3, KeptCallStart, KeptCallInterrupt, KeptCallResume
      <4>. QED BY <1>3, <3>1, <3>3, <4>1, CallStands, StandsHolds
    <3>. QED BY <2>3, <3>2, <3>3 DEF ApiCall
  <2>4. ASSUME NEW i \in DOMAIN Voice, Heard(i) PROVE PauseHeld'
    BY <1>1, <1>3, <1>5, <2>4, KeptHeard DEF PauseHeld
  <2>5. CASE MicConnects
    BY <1>3, <1>5, <2>5, KeptMicConnects DEF PauseHeld
  <2>6. CASE InterimCuts \/ ArmWakes \/ ArmReady
    <3>1. Advances(Arm)
      BY <1>3, <2>6, KeptInterimCuts, KeptArmWakes, KeptArmReady
    <3>. QED BY <1>3, <2>6, <3>1, Apart, ArmStands, StandsHolds
  <2>7. CASE TimerFires
    BY <1>3, <2>7, KeptTimerFires, Apart, TimerStands, StandsHolds
  <2>8. ~MicFails /\ ~TakesTimeout
    BY <1>2, <1>3 DEF MicFails, TakesTimeout, Kept, KeptFacts
  <2>. QED BY <1>4, <1>5, <2>1, <2>2, <2>3, <2>4, <2>5, <2>6, <2>7, <2>8 DEF Next
<1>6. CASE UNCHANGED vars
  BY <1>3, <1>6 DEF vars, PauseHeld, Stopping
<1>. QED BY <1>4, <1>5, <1>6 DEF Next

(* With a kept stream a conversation that has come to rest in a pause can  *)
(* leave it: the microphone is there for "resume" and the countdown has an *)
(* end, whatever pauses, resumptions and stops overlapped.                 *)
THEOREM KeptStreamPauseCanBeLeft == Spec => [](reuse => PauseCanBeLeft)
<1>1. ConversationInv /\ KeptInv /\ [Next]_vars => KeptInv'
  BY KeptStep
<1>2. ConversationInv /\ KeptInv /\ PauseInv /\ [Next]_vars => PauseInv'
  BY PauseStep
<1>3. Init => PauseInv
  BY DEF Init, PauseInv, PauseHeld
<1>4. PauseInv => (reuse => PauseCanBeLeft)
  <2>. SUFFICES ASSUME PauseInv, reuse, Quiet, faults = 0, conv.state = "paused"
                PROVE  mic # "off" /\ conv.until
    BY DEF PauseCanBeLeft
  <2>1. \A p \in Procs : co[p].at \in {"silent", "done", "dead", "unanswered"}
    BY DEF Quiet, Quiescent, Stuck, Resting
  <2>2. ~Stopping
    BY <2>1, Apart DEF Stopping, Shuts
  <2>. QED BY <2>1, <2>2 DEF PauseInv, PauseHeld
<1>. QED
  BY <1>1, <1>2, <1>3, <1>4, KeptInit, ConversationAlways, PTL DEF Spec
=============================================================================
