------------------------- MODULE VoiceConversation -------------------------
(***************************************************************************)
(* The coordinator of spoken conversation, with the microphone it opens    *)
(* and closes and the callbacks that run it:                               *)
(*   src/listener/voiceloop/voice_conversation.py, deepgram.py, app.py.    *)
(*                                                                         *)
(* Every coroutine is a process: one per utterance the recogniser delivers *)
(* (the worker of the final callbacks runs the ordinary ones one after     *)
(* another, a control phrase gets a task of its own), one per call of the  *)
(* API, the watcher of listen timeouts, the countdown of a pause and the   *)
(* task that arms barge-in.  A process moves from one await to the next in *)
(* one action; co[p].at says which await it is in.                         *)
(***************************************************************************)
EXTENDS Naturals, Sequences, FiniteSets

CONSTANTS
    Voice,        \* the utterances, in the order they are spoken
    Calls,        \* calls of the HTTP API
    Scenes,       \* what users and the microphone may do (see Scene)
    Arm,          \* the task that arms barge-in (_barge_arm_task)
    Timer,        \* the countdown of a pause (_pause_task)
    Watch,        \* the watcher of listen timeouts (app.py)
    None          \* no utterance, nobody

Utterances == {Voice[i] : i \in DOMAIN Voice}
Procs == Utterances \cup Calls \cup {Arm, Timer, Watch}

(* "noise" is what the filters discard: an echo of the assistant, a voice  *)
(* in the room that does not address it, several speakers at once.         *)
Classes == {"talk", "noise", "stop", "pause", "badpause", "yes", "no", "resume"}
CallKinds == {"start", "interrupt", "stop", "resume"}
PauseRequests == {"pause", "badpause"}
States == {"idle", "speaking", "listening", "processing", "paused"}
Jobs == {"none", "greeting", "reply", "prompt", "pauseAck", "resumed",
         "interrupt", "stopping", "pausing"}

(* Where a coroutine can be: not begun, at an await, ended.                *)
Resting == {"silent", "done", "dead"}
MicAwaits == {"micStop", "micStart", "gatherStop", "gatherStart", "connect"}
Resumptions == {"done", "listening", "lastTry", "opens", "spoken", "decide",
                "armPaused", "rearm", "rearmed", "rearmOff", "armed", "cut",
                "greet", "resumed", "listen"}
Awaits == Resting \cup MicAwaits \cup Resumptions \cup
          {"queued", "ready", "direct", "begin", "thinking", "executing",
           "unanswered", "speak", "saying", "said", "cutting", "leave", "grace", "unwind"}

(* The bounds of a behaviour: whether the stream of the microphone is kept *)
(* (stream_reuse_enabled) or opened for every turn, what each utterance    *)
(* and each call may be, how often the microphone or the assistant may     *)
(* fail, and how often an interim may cut the assistant's speech.          *)
Scene == [reuse : BOOLEAN, say : [Utterances -> SUBSET Classes],
          call : [Calls -> SUBSET CallKinds], faults : Nat, cuts : Nat]

ASSUME ConversationAssumption ==
    /\ Voice \in Seq(Utterances)
    /\ \A i, j \in DOMAIN Voice : Voice[i] = Voice[j] => i = j
    /\ Scenes \subseteq Scene
    /\ Utterances \cap Calls = {}
    /\ Cardinality({Arm, Timer, Watch, None}) = 4
    /\ {Arm, Timer, Watch, None} \cap (Utterances \cup Calls) = {}
    /\ None \notin Classes

VARIABLES
    conv,      \* the coordinator's fields
    co,        \* co[p]: where the coroutine p is
    mic,       \* the recogniser: off, connecting, on
    queue,     \* _final_queue
    worker,    \* the utterance the worker of final callbacks is at
    says,      \* says[u]: what was said, None before
    timeouts,  \* listen timeouts the watcher has not taken yet
    faults, cuts,  \* how much of the bounds is spent
    scene,     \* the bounds of this behaviour
    told,      \* history: how often each utterance was given to the assistant
    stale      \* history: a superseded turn came to _resume_listening

vars == <<conv, co, mic, queue, worker, says, timeouts, faults, cuts, scene,
          told, stale>>
bounds == <<faults, cuts, scene>>

reuse == scene.reuse

(* A coroutine: its await, where it goes on after the microphone or the    *)
(* assistant has answered, the turn it works for, what it is saying,       *)
(* whether it is inside _run_user_turn, whether it was cancelled while it  *)
(* spoke, whether its speech opened a microphone for barge-in, whom it     *)
(* waits for, whether it holds _pause_lock, and whose words its turn is    *)
(* about (for Arm: whose speech it belongs to).                            *)
Rest == [at |-> "done", next |-> "done", turn |-> 0, job |-> "none",
         inTurn |-> FALSE, dying |-> FALSE, opened |-> FALSE, waits |-> {},
         holds |-> FALSE, owner |-> None]

Quiescent(p) == co[p].at \in Resting

TypeOK ==
    /\ conv \in [state : States, turn : Nat, active : BOOLEAN, accept : BOOLEAN,
                 interrupt : BOOLEAN, armed : BOOLEAN,
                 barge : Utterances \cup {None}, asking : BOOLEAN, until : BOOLEAN,
                 blocked : BOOLEAN, session : BOOLEAN]
    /\ co \in [Procs -> [at : Awaits, next : Resumptions, turn : Nat, job : Jobs,
                         inTurn : BOOLEAN, dying : BOOLEAN, opened : BOOLEAN,
                         waits : SUBSET Procs, holds : BOOLEAN,
                         owner : Procs \cup {None}]]
    /\ mic \in {"off", "connecting", "on"}
    /\ queue \in Seq(Utterances)
    /\ worker \in Utterances \cup {"idle", "dead"}
    /\ says \in [Utterances -> Classes \cup {None}]
    /\ timeouts \in Nat /\ faults \in Nat /\ cuts \in Nat
    /\ scene \in Scenes
    /\ told \in [Utterances -> Nat]
    /\ stale \in BOOLEAN

Init ==
    /\ conv = [state |-> "idle", turn |-> 0, active |-> FALSE, accept |-> FALSE,
               interrupt |-> FALSE, armed |-> FALSE, barge |-> None,
               asking |-> FALSE, until |-> FALSE, blocked |-> FALSE, session |-> FALSE]
    /\ co = [p \in Procs |->
                IF p \in Utterances \cup Calls THEN [Rest EXCEPT !.at = "silent"]
                                               ELSE Rest]
    /\ mic = "off"
    /\ queue = <<>>
    /\ worker = "idle"
    /\ says = [u \in Utterances |-> None]
    /\ timeouts = 0 /\ faults = 0 /\ cuts = 0
    /\ scene \in Scenes
    /\ told = [u \in Utterances |-> 0]
    /\ stale = FALSE

-----------------------------------------------------------------------------
(* Coroutines.                                                             *)

Goes(p, r) == co' = [co EXCEPT ![p] = r]
Ends(p) == Goes(p, Rest)

(* CancelledError: raised in an await of speak it runs the cleanup of the  *)
(* speech first; elsewhere it unwinds to the handler of the turn, which    *)
(* does not cover the trace a turn begins with.                            *)
Cancelled(r) ==
    CASE r.at \in {"ready", "queued", "begin"} -> Rest
      [] r.at \in {"speak", "saying"} -> [r EXCEPT !.at = "said", !.dying = TRUE]
      [] OTHER -> [r EXCEPT !.at = "unwind"]
Cancelling(procs, victims) ==
    [q \in Procs |-> IF q \in victims THEN Cancelled(procs[q]) ELSE procs[q]]
WorkerWithout(victims) == IF worker \in victims THEN "dead" ELSE worker

(* tts.stop: whoever is heard falls silent, whoever waits to speak does not. *)
Hushed(procs) ==
    [q \in Procs |-> IF procs[q].at = "saying"
                     THEN [procs[q] EXCEPT !.at = "said"] ELSE procs[q]]

Interrupted(t) == conv.interrupt \/ conv.blocked \/ t # conv.turn
Silenced(c) == [c EXCEPT !.state = "idle", !.active = FALSE, !.accept = FALSE]

(* After an await of the microphone: r goes on where it was bound for.     *)
Onwards(r) ==
    IF r.next \in {"done", "listening", "lastTry"} THEN Rest
    ELSE [r EXCEPT !.at = r.next, !.waits = {}]

(* Whether the lifecycle lock of the microphone is free, and whether the   *)
(* kept stream is there, so that making sure of it awaits nothing.         *)
LockFree == \A q \in Procs : co[q].at \notin {"gatherStop", "gatherStart"}

StreamReady == reuse /\ mic = "on" /\ LockFree

-----------------------------------------------------------------------------
(* _resume_listening: the current turn opens the microphone, a superseded  *)
(* one makes the conversation idle.                                        *)
ResumeListening(procs, c, p, r, n) ==
    IF c.blocked \/ r.turn # c.turn
    THEN /\ conv' = Silenced(c)
         /\ co' = [procs EXCEPT ![p] = Rest]
         /\ stale' = (stale \/ ~c.blocked)
    ELSE /\ conv' = [c EXCEPT !.state = "listening", !.accept = TRUE,
                              !.active = TRUE, !.interrupt = FALSE, !.armed = FALSE]
         /\ co' = [procs EXCEPT ![p] =
                    IF StreamReady THEN Rest
                    ELSE [r EXCEPT !.at = "micStart", !.next = n]]
         /\ UNCHANGED stale

(* _speak_with_barge_in up to the first await.  With a kept stream it      *)
(* makes sure of the stream before it arms barge-in and speaks.            *)
SpeechOpens(procs, p) ==
    [procs EXCEPT ![p] = [@ EXCEPT !.at = "speak", !.opened = FALSE],
                  ![Arm] = [Rest EXCEPT !.at = "grace", !.owner = p,
                                        !.turn = procs[p].turn]]
StartSpeaking(procs, c, p, r, job) ==
    LET s == [r EXCEPT !.job = job, !.next = "opens"]
    IN  /\ conv' = [c EXCEPT !.state = "speaking", !.armed = FALSE, !.barge = None,
                             !.accept = IF ~reuse THEN FALSE
                                        ELSE IF StreamReady THEN TRUE ELSE @]
        /\ co' = IF reuse /\ ~StreamReady
                 THEN [procs EXCEPT ![p] = [s EXCEPT !.at = "micStart"]]
                 ELSE SpeechOpens([procs EXCEPT ![p] = s], p)
        /\ UNCHANGED stale

(* _run_user_turn is entered for utterance u by p; its first await is the  *)
(* trace, after which the state becomes processing.                        *)
Turn(r, t, u) ==
    [r EXCEPT !.at = "begin", !.turn = t, !.inTurn = TRUE, !.job = "none", !.owner = u]

(* An exception that is no cancellation.                                   *)
Fails(p) ==
    LET r == co[p]
    IN  CASE r.next = "lastTry" ->
              /\ conv' = Silenced(conv) /\ Ends(p) /\ UNCHANGED stale
          [] r.next # "lastTry" /\ r.job = "resumed" /\ r.next = "opens" ->
              ResumeListening(co, conv, p, r, "listening")
          [] r.next # "lastTry" /\ ~(r.job = "resumed" /\ r.next = "opens")
             /\ r.inTurn ->
              ResumeListening(co, conv, p, r, "lastTry")
          [] OTHER ->
              /\ conv' = IF r.job = "greeting" THEN Silenced(conv) ELSE conv
              /\ Goes(p, IF p = Watch THEN [Rest EXCEPT !.at = "dead"] ELSE Rest)
              /\ UNCHANGED stale

-----------------------------------------------------------------------------
(* The microphone: DeepgramListener under its lifecycle lock.              *)

(* The callback tasks stop() cancels and waits for: all but its caller.    *)
CallbackTasks(p) ==
    {u \in Utterances \ {p} : co[u].at \notin {"silent", "queued", "done"}}
Dropped(procs) == [q \in Procs |-> IF procs[q].at = "queued" THEN Rest ELSE procs[q]]

(* _stop_locked: closes the stream, cancels the callbacks, clears the queue. *)
StopLocked(p, r, awaiting) ==
    LET victims == CallbackTasks(p)
    IN  /\ queue' = <<>>
        /\ worker' = WorkerWithout(victims)
        /\ co' = [Dropped(Cancelling(co, victims)) EXCEPT ![p] =
                    IF victims = {} THEN r
                    ELSE [r EXCEPT !.at = awaiting, !.waits = victims]]

MicStops(p) ==
    /\ co[p].at = "micStop" /\ LockFree
    /\ mic' = "off"
    /\ StopLocked(p, Onwards(co[p]), "gatherStop")
    /\ UNCHANGED <<conv, says, timeouts, bounds, told, stale>>

(* start_conversation keeps a running stream; start_once stops one first.  *)
MicStarts(p) ==
    /\ co[p].at = "micStart" /\ LockFree
    /\ \/ /\ reuse \/ mic = "off"
          /\ mic' = IF mic = "off" THEN "connecting" ELSE mic
          /\ Goes(p, IF mic = "on" THEN Onwards(co[p]) ELSE [co[p] EXCEPT !.at = "connect"])
          /\ UNCHANGED <<queue, worker>>
       \/ /\ ~reuse /\ mic # "off"
          /\ mic' = IF CallbackTasks(p) = {} THEN "connecting" ELSE "off"
          /\ StopLocked(p, [co[p] EXCEPT !.at = "connect"], "gatherStart")
    /\ UNCHANGED <<conv, says, timeouts, bounds, told, stale>>

(* The cancelled callbacks have ended; the lock is released.               *)
Gathered(p) ==
    /\ co[p].at \in {"gatherStop", "gatherStart"}
    /\ \A q \in co[p].waits : Quiescent(q)
    /\ IF co[p].at = "gatherStop"
       THEN Goes(p, Onwards(co[p])) /\ UNCHANGED mic
       ELSE /\ Goes(p, [co[p] EXCEPT !.at = "connect", !.waits = {}])
            /\ mic' = "connecting"
    /\ UNCHANGED <<conv, queue, worker, says, timeouts, bounds, told, stale>>

(* wait_until_connected gives up after five seconds.  Arming handles it:   *)
(* both its tries close what they opened.                                  *)
ConnectFails(p) ==
    /\ co[p].at = "connect"
    /\ mic = "off" \/ faults < scene.faults
    /\ faults' = IF mic = "off" THEN faults ELSE faults + 1
    /\ CASE co[p].next = "armed" ->
              /\ Goes(p, IF reuse THEN Rest
                         ELSE [co[p] EXCEPT !.at = "micStop", !.next = "done"])
              /\ UNCHANGED <<conv, stale>>
         [] co[p].next = "rearmed" ->
              /\ Goes(p, [co[p] EXCEPT !.at = "micStop", !.next = "rearmOff"])
              /\ UNCHANGED <<conv, stale>>
         [] OTHER -> Fails(p)
    /\ UNCHANGED <<mic, queue, worker, says, timeouts, cuts, scene, told>>

(* The socket is open: whoever waits for it goes on.                       *)
MicConnects ==
    /\ mic = "connecting"
    /\ mic' = "on"
    /\ co' = [p \in Procs |-> IF co[p].at = "connect" THEN Onwards(co[p]) ELSE co[p]]
    /\ UNCHANGED <<conv, queue, worker, says, timeouts, bounds, told, stale>>

(* A one-shot listen that hears nothing or breaks ends and says so; a kept *)
(* stream reconnects by itself.                                            *)
MicFails ==
    /\ mic # "off" /\ faults < scene.faults
    /\ faults' = faults + 1
    /\ IF reuse THEN mic = "on" /\ mic' = "connecting" /\ UNCHANGED timeouts
                ELSE mic' = "off" /\ timeouts' = timeouts + 1
    /\ UNCHANGED <<conv, co, queue, worker, says, cuts, scene, told, stale>>

-----------------------------------------------------------------------------
(* What the recogniser hears.                                              *)

(* should_handle_control_transcript                                        *)
Control(c) ==
    conv.state = "paused" \/ conv.asking \/ c \in PauseRequests \cup {"stop"}

(* flush and _dispatch_final: a one-shot listen is over; a control phrase  *)
(* gets its own task, anything else the worker's queue.                    *)
Heard(i) ==
    LET u == Voice[i]
    IN  /\ says[u] = None
        /\ \A j \in 1 .. i - 1 : says[Voice[j]] # None
        /\ mic = "on"
        /\ mic' = IF reuse THEN "on" ELSE "off"
        /\ \E c \in scene.say[u] :
             /\ says' = [says EXCEPT ![u] = c]
             /\ IF Control(c)
                THEN /\ Goes(u, [Rest EXCEPT !.at = "ready"])
                     /\ UNCHANGED <<queue, worker>>
                ELSE /\ Goes(u, [Rest EXCEPT !.at = "queued"])
                     /\ queue' = Append(queue, u)
                     /\ worker' = IF worker = "dead" THEN "idle" ELSE worker
        /\ UNCHANGED <<conv, timeouts, bounds, told, stale>>

(* handle_interim: enough of what the user is saying, heard often enough.  *)
InterimCuts ==
    /\ conv.state = "speaking" /\ (conv.armed \/ reuse)
    /\ mic = "on" /\ cuts < scene.cuts
    /\ cuts' = cuts + 1
    /\ conv' = [conv EXCEPT !.interrupt = TRUE]
    /\ co' = Hushed(co)
    /\ UNCHANGED <<mic, queue, worker, says, timeouts, faults, scene, told, stale>>

(* The callback of a final runs: at once for a control phrase, else when   *)
(* the worker has come to it.                                              *)
Delivers(u) ==
    \/ co[u].at = "ready" /\ UNCHANGED <<queue, worker>>
    \/ /\ co[u].at = "queued" /\ queue # <<>> /\ Head(queue) = u
       /\ worker = "idle" \/ (worker \in Utterances /\ Quiescent(worker))
       /\ queue' = Tail(queue) /\ worker' = u

BargeInHeard == conv.state = "speaking" /\ (conv.armed \/ reuse)
Routed(u) == conv.accept \/ Control(says[u]) \/ BargeInHeard

(* on_deepgram_final outside a conversation: straight to the assistant.    *)
FinalToAssistant(u) ==
    /\ Delivers(u) /\ ~Routed(u)
    /\ told' = [told EXCEPT ![u] = @ + 1]
    /\ Goes(u, [Rest EXCEPT !.at = "direct", !.owner = u])
    /\ UNCHANGED <<conv, mic, says, timeouts, bounds, stale>>

(* _handle_paused_transcript: only resumption is listened to.              *)
FinalWhilePaused(u) ==
    /\ Delivers(u) /\ conv.state = "paused"
    /\ conv' = [conv EXCEPT !.accept = FALSE]
    /\ Goes(u, CASE says[u] = "resume" -> [Rest EXCEPT !.at = "leave"]
                 [] says[u] # "resume" /\ reuse -> Rest
                 [] OTHER -> [Rest EXCEPT !.at = "micStop", !.next = "armPaused"])
    /\ UNCHANGED <<mic, says, timeouts, bounds, told, stale>>

(* interrupt_speech up to its first await that lets others act.            *)
InterruptSpeech(p, c) ==
    /\ conv' = [c EXCEPT !.interrupt = TRUE, !.armed = FALSE, !.barge = None,
                         !.turn = @ + 1, !.accept = FALSE]
    /\ co' = [co EXCEPT ![p] = [Rest EXCEPT !.at = IF reuse THEN "cut" ELSE "micStop",
                                            !.next = "cut", !.turn = conv.turn + 1,
                                            !.job = "interrupt"],
                        ![Arm] = Rest]
FinalStops(u) ==
    /\ Delivers(u) /\ conv.state # "paused" /\ says[u] = "stop"
    /\ InterruptSpeech(u, conv)
    /\ UNCHANGED <<mic, says, timeouts, bounds, told, stale>>

(* During the assistant's own speech: its echo is dropped; anything else,  *)
(* a voice in the room too, is kept for after it and, once barge-in is     *)
(* armed, cuts it.                                                         *)
FinalIsEcho(u) ==
    /\ Delivers(u) /\ BargeInHeard /\ says[u] = "noise"
    /\ IF reuse THEN UNCHANGED conv /\ Ends(u)
       ELSE /\ conv' = [conv EXCEPT !.accept = FALSE]
            /\ Goes(u, [Rest EXCEPT !.at = "micStop", !.next = "rearm",
                                    !.turn = conv.turn])
    /\ UNCHANGED <<mic, says, timeouts, bounds, told, stale>>
FinalBargesIn(u) ==
    /\ Delivers(u) /\ BargeInHeard /\ says[u] # "stop"
    /\ conv' = [conv EXCEPT !.barge = u, !.accept = FALSE,
                            !.interrupt = @ \/ conv.armed]
    /\ LET procs == IF conv.armed THEN Hushed(co) ELSE co
       IN  co' = [procs EXCEPT ![u] = Rest]
    /\ UNCHANGED <<mic, says, timeouts, bounds, told, stale>>

(* Outside a turn only a request to pause begins one.                      *)
Unexpected(u) ==
    /\ Delivers(u) /\ Routed(u) /\ ~conv.accept /\ ~BargeInHeard
    /\ conv.state # "paused" /\ says[u] # "stop"
FinalIgnored(u) ==
    /\ Unexpected(u) /\ (says[u] \notin PauseRequests \/ conv.blocked)
    /\ Ends(u)
    /\ UNCHANGED <<conv, mic, says, timeouts, bounds, told, stale>>
FinalAsksToPause(u) ==
    /\ Unexpected(u) /\ says[u] \in PauseRequests /\ ~conv.blocked
    /\ conv' = [conv EXCEPT !.session = TRUE, !.active = TRUE, !.interrupt = FALSE,
                            !.turn = @ + 1]
    /\ Goes(u, Turn(Rest, conv.turn + 1, u))
    /\ UNCHANGED <<mic, says, timeouts, bounds, told, stale>>

(* In a turn: noise re-arms the microphone, the rest is the user's turn;    *)
(* while a pause is to be confirmed only several speakers are noise.       *)
Expected(u) ==
    /\ Delivers(u) /\ conv.accept /\ ~BargeInHeard
    /\ conv.state # "paused" /\ says[u] # "stop"
FinalDiscarded(u) ==
    /\ Expected(u) /\ says[u] = "noise"
    /\ LET c == [conv EXCEPT !.accept = FALSE, !.turn = @ + 1]
           r == [Rest EXCEPT !.turn = conv.turn + 1]
       IN  IF reuse THEN ResumeListening(co, c, u, r, "listening")
           ELSE /\ conv' = c
                /\ Goes(u, [r EXCEPT !.at = "micStop", !.next = "listen"])
                /\ UNCHANGED stale
    /\ UNCHANGED <<mic, says, timeouts, bounds, told>>
FinalBeginsTurn(u) ==
    /\ Expected(u) /\ (says[u] # "noise" \/ conv.asking)
    /\ conv' = [conv EXCEPT !.accept = FALSE, !.interrupt = FALSE, !.turn = @ + 1]
    /\ Goes(u, Turn(Rest, conv.turn + 1, u))
    /\ UNCHANGED <<mic, says, timeouts, bounds, told, stale>>

-----------------------------------------------------------------------------
(* _run_user_turn.                                                         *)

(* With a one-shot listen the microphone is closed for the turn.           *)
TurnBegins(p) ==
    /\ co[p].at = "begin" /\ ~reuse
    /\ conv' = [conv EXCEPT !.state = "processing"]
    /\ Goes(p, [co[p] EXCEPT !.at = "micStop", !.next = "decide"])
    /\ UNCHANGED <<mic, queue, worker, says, timeouts, bounds, told, stale>>

Deciding(p) == co[p].at = IF reuse THEN "begin" ELSE "decide"
Words(p) == says[co[p].owner]
Prompts(p, c) == StartSpeaking(co, c, p, co[p], "prompt")

(* _handle_pause_confirmation                                              *)
PauseConfirmed(p) ==
    /\ Deciding(p) /\ conv.asking /\ Words(p) = "yes"
    /\ conv' = [conv EXCEPT !.asking = FALSE, !.state = "processing"]
    /\ Goes(p, [co[p] EXCEPT !.at = "cut", !.job = "pausing"])
    /\ UNCHANGED <<mic, queue, worker, says, timeouts, bounds, told, stale>>
PauseNotConfirmed(p) ==
    /\ Deciding(p) /\ conv.asking /\ Words(p) # "yes"
    /\ Prompts(p, [conv EXCEPT !.asking = Words(p) \notin {"no", "resume"}])
    /\ UNCHANGED <<mic, queue, worker, says, timeouts, bounds, told>>
(* A pause of no time, or of more than a day, is refused.                  *)
PauseAsked(p) ==
    /\ Deciding(p) /\ ~conv.asking /\ Words(p) \in PauseRequests
    /\ Prompts(p, [conv EXCEPT !.asking = Words(p) = "pause"])
    /\ UNCHANGED <<mic, queue, worker, says, timeouts, bounds, told>>
AssistantAsked(p) ==
    /\ Deciding(p) /\ ~conv.asking /\ Words(p) \notin PauseRequests
    /\ conv' = [conv EXCEPT !.state = "processing"]
    /\ told' = [told EXCEPT ![co[p].owner] = @ + 1]
    /\ Goes(p, [co[p] EXCEPT !.at = "thinking"])
    /\ UNCHANGED <<mic, queue, worker, says, timeouts, bounds, stale>>

(* Mutant: a turn that was interrupted simply ends.                        *)
TurnOverSilently(procs, c, p) ==
    IF Interrupted(co[p].turn)
    THEN conv' = c /\ co' = [procs EXCEPT ![p] = Rest] /\ UNCHANGED stale
    ELSE ResumeListening(procs, c, p, co[p], "listening")

(* After the reply, or without one: listen again, unless it was the end.   *)
TurnOver(procs, c, p) ==
    IF ~Interrupted(co[p].turn) /\ ~c.session
    THEN /\ conv' = Silenced(c) /\ co' = [procs EXCEPT ![p] = Rest]
         /\ UNCHANGED stale
    ELSE ResumeListening(procs, c, p, co[p], "listening")

(* assistant.handle returns: a reply, the end of the conversation, a plan  *)
(* the executor runs while the turn waits, or nothing to say.              *)
AssistantAnswers(p) ==
    /\ co[p].at = "thinking"
    /\ \/ /\ Interrupted(co[p].turn)
          /\ ResumeListening(co, conv, p, co[p], "listening")
       \/ /\ ~Interrupted(co[p].turn)
          /\ \/ StartSpeaking(co, conv, p, co[p], "reply")
             \/ StartSpeaking(co, [conv EXCEPT !.session = FALSE], p, co[p], "reply")
             \/ /\ Goes(p, [co[p] EXCEPT !.at = "executing"])
                /\ UNCHANGED <<conv, stale>>
             \/ TurnOver(co, conv, p)
    /\ UNCHANGED <<mic, queue, worker, says, timeouts, bounds, told>>
AssistantFails(p) ==
    /\ co[p].at = "thinking" /\ faults < scene.faults
    /\ faults' = faults + 1
    /\ Fails(p)
    /\ UNCHANGED <<mic, queue, worker, says, timeouts, cuts, scene, told>>

(* Mutant: a plan that an interrupt cancelled is never answered.           *)
ExecutionCompletesUncut(p) ==
    /\ co[p].at = "executing" /\ ~Interrupted(co[p].turn)
    /\ StartSpeaking(co, conv, p, co[p], "reply")
    /\ UNCHANGED <<mic, queue, worker, says, timeouts, bounds, told>>

ExecutionCompletes(p) ==
    /\ co[p].at = "executing"
    /\ IF Interrupted(co[p].turn)
       THEN ResumeListening(co, conv, p, co[p], "listening")
       ELSE StartSpeaking(co, conv, p, co[p], "reply")
    /\ UNCHANGED <<mic, queue, worker, says, timeouts, bounds, told>>
DirectEnds(u) ==
    /\ co[u].at = "direct"
    /\ Ends(u)
    /\ UNCHANGED <<conv, mic, queue, worker, says, timeouts, bounds, told, stale>>

(* The handler of CancelledError: only the current turn gives up the       *)
(* conversation.                                                           *)
Unwinds(p) ==
    /\ co[p].at = "unwind"
    /\ conv' = IF co[p].inTurn /\ co[p].turn = conv.turn THEN Silenced(conv) ELSE conv
    /\ Goes(p, IF p = Watch THEN [Rest EXCEPT !.at = "dead"] ELSE Rest)
    /\ UNCHANGED <<mic, queue, worker, says, timeouts, bounds, told, stale>>

-----------------------------------------------------------------------------
(* _speak_with_barge_in and what its callers do with what it returns.      *)

SpeechPrepared(p) ==
    /\ co[p].at = "opens"
    /\ conv' = [conv EXCEPT !.accept = TRUE]
    /\ co' = SpeechOpens(co, p)
    /\ UNCHANGED <<mic, queue, worker, says, timeouts, bounds, told, stale>>
SpeechStarts(p) ==
    /\ co[p].at = "speak" /\ \A q \in Procs : co[q].at # "saying"
    /\ Goes(p, [co[p] EXCEPT !.at = "saying"])
    /\ UNCHANGED <<conv, mic, queue, worker, says, timeouts, bounds, told, stale>>
SpeechEnds(p) ==
    /\ co[p].at = "saying"
    /\ Goes(p, [co[p] EXCEPT !.at = "said"])
    /\ UNCHANGED <<conv, mic, queue, worker, says, timeouts, bounds, told, stale>>

(* Mutant: speech always closes the microphone when it ends.               *)
MustCloseAlways(p) == co[p].at = "said"

(* The cleanup: barge-in is disarmed, a one-shot listen opened for it is   *)
(* closed before the caller goes on.                                       *)
MustClose(p) == ~reuse /\ (conv.armed \/ co[p].opened)
SpeechCloses(p) ==
    /\ co[p].at = "said" /\ MustClose(p)
    /\ conv' = [conv EXCEPT !.armed = FALSE]
    /\ co' = [[co EXCEPT ![Arm] = Rest] EXCEPT
                ![p] = [@ EXCEPT !.at = "micStop", !.next = "spoken"]]
    /\ UNCHANGED <<mic, queue, worker, says, timeouts, bounds, told, stale>>

Spoken(p) ==
    /\ co[p].at = "spoken" \/ (co[p].at = "said" /\ ~MustClose(p))
    /\ UNCHANGED <<mic, queue, worker, says, timeouts, bounds, told>>
Cleaned(p) == IF co[p].at = "said" THEN [co EXCEPT ![Arm] = Rest] ELSE co
AfterSpeech(p) ==
    [conv EXCEPT !.accept = reuse, !.armed = IF co[p].at = "said" THEN FALSE ELSE @]

SpokenCancelled(p) ==
    /\ Spoken(p) /\ co[p].dying
    /\ conv' = AfterSpeech(p)
    /\ co' = [Cleaned(p) EXCEPT ![p] = [@ EXCEPT !.at = "unwind", !.dying = FALSE]]
    /\ UNCHANGED stale

(* Mutant: what was kept is answered and still kept.                       *)
SpokenBargeKept(p) ==
    /\ Spoken(p) /\ ~co[p].dying /\ co[p].job # "pauseAck" /\ conv.barge # None
    /\ conv' = [AfterSpeech(p) EXCEPT !.turn = @ + 1]
    /\ co' = [Cleaned(p) EXCEPT ![p] = Turn(@, conv.turn + 1, conv.barge)]
    /\ UNCHANGED stale

(* What the user said meanwhile is the next turn.                          *)
SpokenBarge(p) ==
    /\ Spoken(p) /\ ~co[p].dying /\ co[p].job # "pauseAck" /\ conv.barge # None
    /\ LET t == IF co[p].job = "greeting" THEN conv.turn ELSE conv.turn + 1
       IN  /\ conv' = [AfterSpeech(p) EXCEPT !.turn = t, !.barge = None,
                          !.interrupt = IF co[p].job = "resumed" THEN @ ELSE FALSE]
           /\ co' = [Cleaned(p) EXCEPT ![p] = Turn(@, t, conv.barge)]
    /\ UNCHANGED stale
(* Nothing was said: listen, unless the conversation is over.              *)
SpokenOut(p) ==
    /\ Spoken(p) /\ ~co[p].dying /\ co[p].job # "pauseAck" /\ conv.barge = None
    /\ CASE co[p].job = "reply" -> TurnOver(Cleaned(p), AfterSpeech(p), p)
         [] co[p].job = "resumed" /\ conv.blocked ->
              /\ conv' = [AfterSpeech(p) EXCEPT !.state = "idle", !.active = FALSE]
              /\ co' = [Cleaned(p) EXCEPT ![p] = Rest]
              /\ UNCHANGED stale
         [] OTHER -> ResumeListening(Cleaned(p), AfterSpeech(p), p, co[p], "listening")
(* _enter_pause after its acknowledgement: paused, unless the user said to *)
(* resume or the turn was superseded.                                      *)
SpokenPause(p) ==
    LET c == [AfterSpeech(p) EXCEPT !.barge = None]
        resumed == conv.barge # None /\ says[conv.barge] = "resume"
    IN  /\ Spoken(p) /\ ~co[p].dying /\ co[p].job = "pauseAck"
        /\ CASE conv.blocked \/ co[p].turn # conv.turn ->
                  /\ conv' = c
                  /\ co' = [Cleaned(p) EXCEPT ![p] = Rest]
                  /\ stale' = (stale \/ ~conv.blocked)
             [] ~conv.blocked /\ co[p].turn = conv.turn /\ resumed ->
                  ResumeListening(Cleaned(p), c, p, co[p], "listening")
             [] OTHER ->
                  /\ conv' = [c EXCEPT !.state = "paused", !.active = TRUE,
                                       !.accept = TRUE, !.until = TRUE]
                  /\ co' = [Cleaned(p) EXCEPT ![p] = [@ EXCEPT !.at = "armPaused",
                                                               !.job = "none"]]
                  /\ UNCHANGED stale

(* arm_barge_in                                                            *)
ArmWakes ==
    /\ co[Arm].at = "grace"
    /\ IF Interrupted(co[Arm].turn) \/ conv.state # "speaking"
       THEN Ends(Arm)
       ELSE co' = [[co EXCEPT ![Arm] = [@ EXCEPT !.at = "micStart", !.next = "armed"]]
                     EXCEPT ![co[Arm].owner] = [@ EXCEPT !.opened = ~reuse]]
    /\ UNCHANGED <<conv, mic, queue, worker, says, timeouts, bounds, told, stale>>
ArmReady ==
    /\ co[Arm].at = "armed"
    /\ IF Interrupted(co[Arm].turn) \/ conv.state # "speaking"
       THEN Ends(Arm) /\ UNCHANGED conv
       ELSE /\ conv' = [conv EXCEPT !.armed = TRUE, !.accept = TRUE,
                                    !.interrupt = @ \/ conv.barge # None]
            /\ LET procs == IF conv.barge # None THEN Hushed(co) ELSE co
               IN  co' = [procs EXCEPT ![Arm] = Rest]
    /\ UNCHANGED <<mic, queue, worker, says, timeouts, bounds, told, stale>>

(* _rearm_barge_in_listener                                                *)
RearmHolds(p) ==
    /\ ~conv.blocked /\ ~conv.interrupt /\ co[p].turn = conv.turn
    /\ conv.state = "speaking"
Rearms(p) ==
    /\ co[p].at = "rearm"
    /\ Goes(p, IF RearmHolds(p) /\ conv.armed
               THEN [co[p] EXCEPT !.at = "micStart", !.next = "rearmed"] ELSE Rest)
    /\ UNCHANGED <<conv, mic, queue, worker, says, timeouts, bounds, told, stale>>
Rearmed(p) ==
    /\ co[p].at \in {"rearmed", "rearmOff"}
    /\ conv' = CASE co[p].at = "rearmOff" -> [conv EXCEPT !.armed = FALSE, !.accept = FALSE]
                 [] co[p].at = "rearmed" /\ RearmHolds(p) -> [conv EXCEPT !.accept = TRUE]
                 [] OTHER -> conv
    /\ Ends(p)
    /\ UNCHANGED <<mic, queue, worker, says, timeouts, bounds, told, stale>>

Relistens(p) ==
    /\ co[p].at = "listen"
    /\ ResumeListening(co, conv, p, co[p], "listening")
    /\ UNCHANGED <<mic, queue, worker, says, timeouts, bounds, told>>

-----------------------------------------------------------------------------
(* A pause.                                                                *)

(* Mutant: the fields are set, the microphone is not opened.               *)
ArmsPausedOnlyFields(p) ==
    /\ co[p].at = "armPaused"
    /\ conv' = [conv EXCEPT !.accept = TRUE, !.active = TRUE]
    /\ Ends(p)
    /\ UNCHANGED <<mic, queue, worker, says, timeouts, bounds, told, stale>>

(* _arm_paused_listening                                                   *)
ArmsPaused(p) ==
    /\ co[p].at = "armPaused"
    /\ IF conv.state # "paused" \/ ~conv.until
       THEN Ends(p) /\ UNCHANGED conv
       ELSE /\ conv' = [conv EXCEPT !.accept = TRUE, !.active = TRUE]
            /\ Goes(p, [co[p] EXCEPT !.at = "micStart", !.next = "done"])
    /\ UNCHANGED <<mic, queue, worker, says, timeouts, bounds, told, stale>>

TimerFires ==
    /\ conv.until /\ conv.state = "paused" /\ Quiescent(Timer)
    /\ Goes(Timer, [Rest EXCEPT !.at = "leave"])
    /\ UNCHANGED <<conv, mic, queue, worker, says, timeouts, bounds, told, stale>>

(* _cancel_pause_task: the countdown, unless it is what leaves the pause.  *)
TimerCancelled(procs) ==
    [procs EXCEPT ![Timer] = IF @.at = "leave" THEN Rest ELSE @]

(* _leave_pause                                                            *)
Leaves(p) ==
    /\ co[p].at = "leave" /\ \A q \in Procs : ~co[q].holds
    /\ LET r == [co[p] EXCEPT !.turn = conv.turn + 1, !.holds = TRUE, !.job = "resumed"]
           c == [conv EXCEPT !.until = FALSE, !.accept = FALSE, !.turn = @ + 1]
       IN  IF conv.state # "paused" THEN Ends(p) /\ UNCHANGED <<conv, stale>>
           ELSE IF reuse THEN StartSpeaking(TimerCancelled(co), c, p, r, "resumed")
           ELSE /\ conv' = c
                /\ co' = [TimerCancelled(co) EXCEPT ![p] =
                            [r EXCEPT !.at = "micStop", !.next = "resumed"]]
                /\ UNCHANGED stale
    /\ UNCHANGED <<mic, queue, worker, says, timeouts, bounds, told>>
Resumes(p) ==
    /\ co[p].at = "resumed"
    /\ StartSpeaking(co, conv, p, co[p], "resumed")
    /\ UNCHANGED <<mic, queue, worker, says, timeouts, bounds, told>>

-----------------------------------------------------------------------------
(* assistant.interrupt: silence, and an end to whatever the assistant is   *)
(* planning; a spoken yes it cannot cut.  The plan that is being executed  *)
(* is cancelled, and the turn that waits for it is not told (stop_all).    *)
Planning(p) ==
    {q \in Procs \ {p} : co[q].at \in {"thinking", "direct"} /\ Words(q) # "yes"}
Executing == {q \in Procs : co[q].at = "executing"}
Cuts(p) ==
    /\ co[p].at = "cut"
    /\ \E running \in SUBSET Executing :
         /\ Cardinality(running) <= 1
         /\ LET procs == [q \in Procs |-> IF q \in running
                            THEN [co[q] EXCEPT !.at = "unanswered"] ELSE co[q]]
            IN  co' = [Hushed(Cancelling(procs, Planning(p))) EXCEPT ![p] =
                         [@ EXCEPT !.at = "cutting", !.waits = Planning(p)]]
    /\ worker' = WorkerWithout(Planning(p))
    /\ UNCHANGED <<conv, mic, queue, says, timeouts, bounds, told, stale>>

HasCut(p, job) ==
    /\ co[p].at = "cutting" /\ co[p].job = job
    /\ \A q \in co[p].waits : Quiescent(q)
    /\ UNCHANGED <<mic, queue, worker, says, timeouts, bounds, told>>
InterruptSpeechListens(p) ==
    /\ HasCut(p, "interrupt")
    /\ ResumeListening(co, [conv EXCEPT !.session = TRUE], p,
                       [co[p] EXCEPT !.job = "none", !.waits = {}], "listening")
(* hard_stop returns, and the route clears the block.                      *)
HardStopEnds(p) ==
    /\ HasCut(p, "stopping")
    /\ conv' = [conv EXCEPT !.session = FALSE, !.state = "idle", !.blocked = FALSE,
                            !.interrupt = FALSE]
    /\ Ends(p)
    /\ UNCHANGED stale
EntersPause(p) ==
    /\ HasCut(p, "pausing")
    /\ StartSpeaking(co, [conv EXCEPT !.accept = FALSE, !.interrupt = FALSE], p,
                     [co[p] EXCEPT !.waits = {}], "pauseAck")

-----------------------------------------------------------------------------
(* The API (each of its routes first clears a block, but for stop), and    *)
(* the watcher.                                                            *)

Called(c, kind) == co[c].at = "silent" /\ kind \in scene.call[c]
Unblocked == [conv EXCEPT !.blocked = FALSE, !.interrupt = FALSE]

CallStart(c) ==
    /\ Called(c, "start")
    /\ IF conv.state # "idle" \/ conv.active
       THEN conv' = Unblocked /\ Ends(c)
       ELSE /\ conv' = [Unblocked EXCEPT !.active = TRUE, !.accept = FALSE, !.turn = @ + 1]
            /\ Goes(c, [Rest EXCEPT !.at = IF reuse THEN "micStart" ELSE "micStop",
                                    !.next = "greet", !.turn = conv.turn + 1,
                                    !.job = "greeting"])
    /\ UNCHANGED <<mic, queue, worker, says, timeouts, bounds, told, stale>>
Greets(c) ==
    /\ co[c].at = "greet"
    /\ StartSpeaking(co, [conv EXCEPT !.session = TRUE], c, co[c], "greeting")
    /\ UNCHANGED <<mic, queue, worker, says, timeouts, bounds, told>>
CallInterrupt(c) ==
    /\ Called(c, "interrupt")
    /\ IF conv.state = "paused" THEN conv' = Unblocked /\ Ends(c)
                                ELSE InterruptSpeech(c, Unblocked)
    /\ UNCHANGED <<mic, queue, worker, says, timeouts, bounds, told, stale>>
CallStop(c) ==
    /\ Called(c, "stop")
    /\ conv' = [conv EXCEPT !.blocked = TRUE, !.interrupt = TRUE, !.armed = FALSE,
                            !.barge = None, !.asking = FALSE, !.until = FALSE,
                            !.accept = FALSE, !.active = FALSE, !.turn = @ + 1]
    /\ co' = [TimerCancelled(co) EXCEPT
                ![Arm] = Rest,
                ![c] = [Rest EXCEPT !.at = "micStop", !.next = "cut", !.job = "stopping"]]
    /\ UNCHANGED <<mic, queue, worker, says, timeouts, bounds, told, stale>>
CallResume(c) ==
    /\ Called(c, "resume")
    /\ conv' = Unblocked
    /\ Goes(c, IF conv.state = "paused" THEN [Rest EXCEPT !.at = "leave"] ELSE Rest)
    /\ UNCHANGED <<mic, queue, worker, says, timeouts, bounds, told, stale>>

(* Mutant: the watcher re-arms without a timeout to act on.                 *)
TakesAnyTimeout ==
    /\ co[Watch].at = "done" /\ conv.state = "listening"
    /\ timeouts' = timeouts - 1
    /\ UNCHANGED <<conv, co, stale, mic, queue, worker, says, bounds, told>>

(* handle_listen_timeout                                                   *)
TakesTimeout ==
    /\ co[Watch].at = "done" /\ timeouts > 0
    /\ timeouts' = timeouts - 1
    /\ LET t == conv.turn + 1
       IN CASE ~conv.blocked /\ conv.state = "speaking" /\ conv.armed ->
                 /\ conv' = [conv EXCEPT !.accept = FALSE]
                 /\ Goes(Watch, [Rest EXCEPT !.at = "micStop", !.next = "rearm",
                                             !.turn = conv.turn])
                 /\ UNCHANGED stale
            [] ~conv.blocked /\ conv.state = "paused" ->
                 /\ \/ /\ conv.until    \* the time of the pause is over
                       /\ Goes(Watch, [Rest EXCEPT !.at = "leave"])
                    \/ Goes(Watch, [Rest EXCEPT !.at = "micStop", !.next = "armPaused"])
                 /\ UNCHANGED <<conv, stale>>
            [] ~conv.blocked /\ conv.state = "listening" /\ conv.active ->
                 ResumeListening(co, [conv EXCEPT !.turn = t], Watch,
                                 [Rest EXCEPT !.turn = t], "listening")
            [] OTHER -> UNCHANGED <<conv, co, stale>>
    /\ UNCHANGED <<mic, queue, worker, says, bounds, told>>

-----------------------------------------------------------------------------
Continues(p) ==
    \/ Gathered(p) \/ ConnectFails(p)
    \/ TurnBegins(p) \/ PauseConfirmed(p) \/ PauseNotConfirmed(p) \/ PauseAsked(p)
    \/ AssistantAsked(p) \/ AssistantAnswers(p) \/ AssistantFails(p)
    \/ ExecutionCompletes(p) \/ Unwinds(p)
    \/ SpeechPrepared(p) \/ SpeechStarts(p) \/ SpeechEnds(p) \/ SpeechCloses(p)
    \/ SpokenCancelled(p) \/ SpokenBarge(p) \/ SpokenOut(p) \/ SpokenPause(p)
    \/ Rearms(p) \/ Rearmed(p) \/ Relistens(p) \/ ArmsPaused(p)
    \/ Leaves(p) \/ Resumes(p)
    \/ Cuts(p) \/ InterruptSpeechListens(p) \/ HardStopEnds(p) \/ EntersPause(p)
    \/ Greets(p)
FinalCallback(u) ==
    \/ FinalToAssistant(u) \/ FinalWhilePaused(u) \/ FinalStops(u) \/ FinalIsEcho(u)
    \/ FinalBargesIn(u) \/ FinalIgnored(u) \/ FinalAsksToPause(u)
    \/ FinalDiscarded(u) \/ FinalBeginsTurn(u) \/ DirectEnds(u)
ApiCall(c) == CallStart(c) \/ CallInterrupt(c) \/ CallStop(c) \/ CallResume(c)

(* A coroutine that comes to the free lock of the microphone has it before  *)
(* any other runs.                                                         *)
AtMic(p) == co[p].at \in {"micStop", "micStart"}
MicLocked == \E p \in Procs : MicStops(p) \/ MicStarts(p)
Yielded == LockFree => \A p \in Procs : ~AtMic(p)

Next ==
    \/ MicLocked
    \/ /\ Yielded
       /\ \/ \E p \in Procs : Continues(p)
          \/ \E u \in Utterances : FinalCallback(u)
          \/ \E c \in Calls : ApiCall(c)
          \/ \E i \in DOMAIN Voice : Heard(i)
          \/ MicConnects \/ MicFails \/ InterimCuts
          \/ ArmWakes \/ ArmReady \/ TimerFires \/ TakesTimeout

Spec == Init /\ [][Next]_vars

(* The event loop goes on while anything can run: the recogniser connects  *)
(* or gives up, speech ends, the assistant answers, callbacks begin.  That *)
(* somebody speaks, calls or cuts the assistant off is up to the users.    *)
Runs ==
    \/ MicLocked
    \/ /\ Yielded
       /\ \/ \E p \in Procs : Continues(p)
          \/ \E u \in Utterances : FinalCallback(u)
          \/ MicConnects \/ ArmWakes \/ ArmReady \/ TakesTimeout
FairSpec == Spec /\ WF_vars(Runs)

-----------------------------------------------------------------------------
(* What the conversation promises.                                         *)

(* Nothing moves any more: every coroutine has ended or waits for an       *)
(* answer that does not come, and nobody is left to deliver what is queued.*)
Stuck(p) == co[p].at = "unanswered"
Quiet ==
    /\ \A p \in Procs : Quiescent(p) \/ Stuck(p)
    /\ timeouts = 0 \/ co[Watch].at = "dead"
    /\ queue = <<>> \/ worker = "dead" \/ (worker \in Utterances /\ Stuck(worker))

(* No utterance is answered twice, whether it comes as a turn of its own,  *)
(* is kept while the assistant speaks and answered afterwards, or goes     *)
(* straight to the assistant (handle_transcript, _speak_with_barge_in,     *)
(* on_deepgram_final).                                                     *)
AnsweredOnce == \A u \in Utterances : told[u] <= 1

(* With a kept stream nobody who closes the microphone waits, under its    *)
(* lock, for a callback that wants that lock (_stop_locked, the finally of *)
(* _speak_with_barge_in).                                                  *)
KeptStreamIsFree ==
    reuse => \A p, q \in Procs :
                co[p].at \in {"gatherStop", "gatherStart"} /\ q \in co[p].waits
                    => ~(co[q].at \in {"micStop", "micStart"})

(* With a kept stream every turn comes to its end, unless its plan was cut *)
(* while it was being executed: no callback of a final waits for ever for  *)
(* speech, for the assistant or for another callback                       *)
(* (_invoke_final_callback, assistant.interrupt, _speak_with_barge_in).    *)
TurnsEnd ==
    \A u \in Utterances : reuse /\ co[u].inTurn ~> Quiescent(u) \/ Stuck(u)

(* When everything has come to rest in a pause, it can be left: the        *)
(* microphone is there for the user who wants to resume and the countdown  *)
(* still has an end, unless the microphone or the assistant failed or a    *)
(* superseded turn came back to a one-shot microphone (_enter_pause,       *)
(* _arm_paused_listening, _handle_paused_transcript).                      *)
PauseCanBeLeft ==
    Quiet /\ faults = 0 /\ (reuse \/ ~stale) /\ conv.state = "paused" =>
        mic # "off" /\ conv.until

(* With a kept stream a conversation that is not over listens, or is       *)
(* paused, whenever everything has come to rest: no order of speech,       *)
(* barge-in, interruption and pause leaves it deaf, save that a turn that  *)
(* was superseded came back to _resume_listening (stale).                  *)
KeptStreamListens ==
    reuse /\ Quiet /\ conv.session /\ ~stale /\ faults = 0 =>
        conv.state \in {"listening", "paused"} /\ mic # "off" /\ conv.active

(* The promise of interrupt_speech, "cut TTS/model work, keep session,     *)
(* listen immediately": a conversation that listens becomes idle only when *)
(* it is stopped.                                                          *)
ListensUntilStopped ==
    [][conv.state = "listening" /\ conv'.state = "idle"
            => conv.blocked \/ ~conv.session \/ faults' > 0]_vars
=============================================================================
