---------------------------- MODULE DeepgramListener ----------------------------
(***************************************************************************)
(* From the messages of the recogniser to the calls of on_final and        *)
(* on_interim (deepgram.py): one listening at a time, of which the stream  *)
(* may be lost and opened again, the parts of an utterance, the bounded    *)
(* queues and the tasks that work them off; and start and stop, under the  *)
(* lifecycle lock, by anybody, the callbacks included. A stop has to wait  *)
(* twice, for the stream and for the callbacks it cancels.                 *)
(***************************************************************************)
EXTENDS Naturals, Sequences, FiniteSets, SequencesExt

CONSTANTS
    Vocabulary,
    QueueSize,      \* 16 in the code
    MaxListens, MaxConnections, MaxMessages,
    NoUtterance

VARIABLES
    running, once, conversation,
    prefix,         \* of the one-shot: the number of the listening it was given for
    stream,         \* where _run_forever is
    timed,          \* it runs under the timeout of a one-shot
    finals, lastSent,
    closing,        \* the utterance flush() holds while it closes the socket
    channel,        \* per kind of callback: the queue, the worker and its call
    urgent,         \* the calls of priority callbacks
    op,             \* who holds the lifecycle lock, and where
    cancelled,      \* channels whose worker a stop has cancelled
    listens, connection, messages,
    forgotten,      \* history: the last listening a stop has ended
    answered,       \* history: what came of the last one-shot
    lost            \* history: its words were lost with the sender

flags == <<running, once, conversation, prefix>>
speech == <<stream, timed, finals, lastSent, closing>>
callbacks == <<channel, urgent, cancelled>>
histories == <<listens, forgotten, answered, lost>>
counters == <<connection, messages>>
listenerVars == <<flags, speech, callbacks, op, histories, counters>>

Free == [by |-> "nobody", on |-> NoUtterance, what |-> "nothing", at |-> "free"]
Silent == [queue |-> <<>>, alive |-> FALSE, calling |-> NoUtterance]
Kinds == {"final", "interim"}

Init ==
    /\ running = FALSE /\ once = FALSE /\ conversation = FALSE /\ prefix = 0
    /\ stream = "none" /\ timed = FALSE /\ finals = <<>> /\ lastSent = <<>>
    /\ closing = NoUtterance
    /\ channel = [k \in Kinds |-> Silent] /\ urgent = {} /\ cancelled = {}
    /\ op = Free /\ listens = 0 /\ connection = 0 /\ messages = 0
    /\ forgotten = 0 /\ answered = "unasked" /\ lost = FALSE

ListenerTypeOK ==
    /\ running \in BOOLEAN /\ once \in BOOLEAN /\ conversation \in BOOLEAN /\ timed \in BOOLEAN
    /\ prefix \in 0..MaxListens /\ listens \in 0..MaxListens /\ forgotten \in 0..MaxListens
    /\ stream \in {"none", "opening", "open", "closing", "ending", "waiting"}
    /\ finals \in Seq([word : Vocabulary, conn : 1..connection, of : 1..listens])
    /\ \A k \in Kinds : Len(channel[k].queue) <= QueueSize
    /\ (closing = NoUtterance) <=> (stream # "closing")
    /\ op.at \in {"free", "stopping", "gathering"} /\ cancelled \subseteq Kinds
    /\ answered \in {"unasked", "waiting", "words", "told", "stopped"} /\ lost \in BOOLEAN

-----------------------------------------------------------------------------
(* Callbacks. A full queue gives its oldest up.                            *)
PutLatestBounded(queue, u) == Append(IF Len(queue) = QueueSize THEN Tail(queue) ELSE queue, u)

(* A worker that is alive goes on with what is put, else one is made.      *)
Dispatch(k, u) ==
    /\ channel' = [channel EXCEPT ![k].queue = PutLatestBounded(@, u), ![k].alive = TRUE]
    /\ UNCHANGED <<urgent, cancelled>>

(* The conversation tells which words may not wait: those that stop it, and*)
(* in a pause all.                                                         *)
DispatchFinal(u) ==
    \/ urgent' = urgent \cup {u} /\ UNCHANGED <<channel, cancelled>>
    \/ Dispatch("final", u)

Holds(k) == k = "final" /\ op.by = "final"

Drained(c) ==
    IF c.queue = <<>> THEN Silent
    ELSE [c EXCEPT !.queue = Tail(@), !.calling = Head(c.queue)]

(* The worker begins, or its callback returned or raised: the next one.    *)
DrainCallbacks(k) ==
    /\ channel[k].alive /\ ~Holds(k)
    /\ channel' = [channel EXCEPT ![k] = Drained(@)]
    /\ cancelled' = IF channel'[k].alive THEN cancelled ELSE cancelled \ {k}
    /\ UNCHANGED <<flags, speech, urgent, op, histories, counters>>

Dead(c) == [c EXCEPT !.alive = FALSE, !.calling = NoUtterance]

(* A stop, or an interrupt of the turn that runs in the callback, cancels  *)
(* the worker: the queue stays.                                            *)
WorkerCancelled(k) ==
    /\ channel[k].alive /\ ~Holds(k) /\ (k = "final" \/ k \in cancelled)
    /\ channel' = [channel EXCEPT ![k] = Dead(@)] /\ cancelled' = cancelled \ {k}
    /\ UNCHANGED <<flags, speech, urgent, op, histories, counters>>

UrgentEnds(u) ==
    /\ u \in urgent /\ op.on # u /\ urgent' = urgent \ {u}
    /\ UNCHANGED <<flags, speech, channel, cancelled, op, histories, counters>>

-----------------------------------------------------------------------------
(* start, start_conversation, start_once, stop.                            *)
Calling(by, on) ==
    \/ by = "other" /\ on = NoUtterance
    \/ by = "final" /\ on = NoUtterance /\ channel["final"].calling # NoUtterance
    \/ by = "urgent" /\ on \in urgent

StopsFirst(what) ==
    CASE what = "stop" -> TRUE
      [] what = "start" -> IF running THEN once ELSE stream # "none"
      [] OTHER -> running \/ stream # "none"

StartLocked(what) ==
    /\ running' = TRUE /\ once' = (what = "once") /\ conversation' = (what = "conversation")
    /\ listens' = listens + 1 /\ lost' = FALSE
    /\ prefix' \in IF what = "once" THEN {0, listens'} ELSE {0}
    /\ stream' = "opening" /\ timed' = once' /\ finals' = <<>> /\ lastSent' = <<>>
    /\ closing' = NoUtterance
    /\ answered' = IF once' THEN "waiting" ELSE "unasked"

ClearedFlags == running' = FALSE /\ once' = FALSE /\ conversation' = FALSE /\ prefix' = 0

(* Another mode takes a running stream over: only for start().             *)
Begins(by, on, what) ==
    /\ op = Free /\ Calling(by, on) /\ (what # "stop" => listens < MaxListens)
    /\ ~(what = "conversation" /\ running /\ conversation)
    /\ IF StopsFirst(what)
       THEN /\ ClearedFlags
            /\ op' = [by |-> by, on |-> on, what |-> what, at |-> "stopping"]
            /\ answered' = IF answered = "waiting" THEN "stopped" ELSE answered
            /\ UNCHANGED <<speech, listens, forgotten, lost>>
       ELSE /\ UNCHANGED op
            /\ IF running THEN /\ conversation' = FALSE /\ prefix' = 0
                               /\ UNCHANGED <<running, once, speech, histories>>
               ELSE StartLocked(what) /\ UNCHANGED forgotten
    /\ UNCHANGED <<callbacks, counters>>

(* The stream is gone; whoever else runs a callback is cancelled. A        *)
(* cancellation of the caller itself is lost in this await.                *)
StreamStopped ==
    /\ op.at = "stopping" /\ op' = [op EXCEPT !.at = "gathering"]
    /\ stream' = "none" /\ timed' = FALSE /\ finals' = <<>> /\ lastSent' = <<>>
    /\ closing' = NoUtterance
    /\ cancelled' = {k \in Kinds : channel[k].alive /\ ~Holds(k)}
    /\ UNCHANGED <<flags, channel, urgent, histories, counters>>

(* Mutant: what waits in the queues is kept.                               *)
QueuesKept == channel

QueuesCleared == [k \in Kinds |-> [channel[k] EXCEPT !.queue = <<>>]]

(* Everybody who was cancelled has ended.                                  *)
Gathered ==
    /\ op.at = "gathering" /\ op' = Free
    /\ \A k \in Kinds : channel[k].alive => Holds(k)
    /\ urgent \subseteq {op.on}
    /\ channel' = QueuesCleared /\ forgotten' = listens
    /\ IF op.what = "stop" THEN UNCHANGED <<flags, speech, listens, answered, lost>>
       ELSE StartLocked(op.what)
    /\ UNCHANGED <<urgent, cancelled, counters>>

(* The caller is cancelled while it gathers: its stop, or start, ends here.*)
CallerCancelled ==
    /\ op.at = "gathering" /\ op' = Free
    /\ urgent' = urgent \ {op.on}
    /\ channel' = IF op.by = "final" THEN [channel EXCEPT !["final"] = Dead(@)] ELSE channel
    /\ UNCHANGED <<flags, speech, cancelled, histories, counters>>

-----------------------------------------------------------------------------
(* The stream. finals and last_sent are variables of one connection.       *)
Connects ==
    /\ stream = "opening" /\ stream' = "open"
    /\ connection < MaxConnections /\ connection' = connection + 1
    /\ finals' = <<>> /\ lastSent' = <<>>
    /\ UNCHANGED <<flags, timed, closing, callbacks, op, histories, messages>>

StreamEnds == finals' = <<>> /\ lastSent' = <<>> /\ closing' = NoUtterance

Resolve(how) == answered' = IF answered = "waiting" THEN how ELSE answered

(* The server closes in order: _run_forever goes round.                    *)
ServerCloses ==
    /\ stream \in {"open", "ending"} /\ StreamEnds
    /\ stream' = IF running THEN "opening" ELSE "none"
    /\ timed' = (running /\ once)
    /\ UNCHANGED <<flags, callbacks, op, histories, counters>>

ConnectionFails ==
    /\ stream \in {"opening", "open", "ending"} /\ StreamEnds /\ timed' = FALSE
    /\ IF once
       THEN ClearedFlags /\ stream' = "none" /\ Resolve("told")
       ELSE /\ stream' = IF running THEN "waiting" ELSE "none"
            /\ UNCHANGED <<flags, answered>>
    /\ UNCHANGED <<callbacks, op, listens, forgotten, lost, counters>>

DelayOver ==
    /\ stream = "waiting" /\ timed' = (running /\ once)
    /\ stream' = IF running THEN "opening" ELSE "none"
    /\ UNCHANGED <<flags, finals, lastSent, closing, callbacks, op, histories, counters>>

OneShotTimesOut ==
    /\ timed /\ stream # "none" /\ StreamEnds
    /\ running' = FALSE /\ once' = FALSE /\ prefix' = 0 /\ UNCHANGED conversation
    /\ stream' = "none" /\ timed' = FALSE /\ Resolve("told")
    /\ UNCHANGED <<callbacks, op, listens, forgotten, lost, counters>>

(* An utterance: where its parts come from, and when it was said.          *)
Utterance(all, before) ==
    [from |-> {[conn |-> p.conn, of |-> p.of] : p \in ToSet(all)}, prefix |-> before,
     number |-> messages']

(* Nothing, and what was sent last, is not sent. A one-shot closes its     *)
(* socket before it hands the words over.                                  *)
Flush(all) ==
    LET said == [i \in 1..Len(all) |-> all[i].word]
        u == Utterance(all, prefix)
    IN /\ finals' = <<>>
       /\ IF all = <<>> \/ said = lastSent
          THEN UNCHANGED <<flags, stream, lastSent, closing, callbacks>>
          ELSE /\ lastSent' = said
               /\ IF once
                  THEN /\ running' = FALSE /\ once' = FALSE /\ prefix' = 0
                       /\ stream' = "closing" /\ closing' = u
                       /\ UNCHANGED <<conversation, callbacks>>
                  ELSE DispatchFinal(u) /\ UNCHANGED <<flags, stream, closing>>

Hears ==
    /\ stream \in {"open", "ending"} /\ messages < MaxMessages /\ messages' = messages + 1
    /\ UNCHANGED <<timed, op, histories, connection>>

Part(w) == [word |-> w, conn |-> connection, of |-> listens]

FinalResult(w, speechFinal) ==
    /\ Hears
    /\ IF speechFinal THEN Flush(Append(finals, Part(w)))
       ELSE /\ finals' = Append(finals, Part(w))
            /\ UNCHANGED <<flags, stream, lastSent, closing, callbacks>>

UtteranceEnd == Hears /\ Flush(finals)

InterimResult(w) ==
    /\ Hears
    /\ Dispatch("interim", Utterance(Append(finals, Part(w)), 0))
    /\ UNCHANGED <<flags, stream, finals, lastSent, closing>>

(* The socket is closed; what came before the close is still read.         *)
SocketClosed ==
    /\ stream = "closing" /\ stream' = "ending" /\ closing' = NoUtterance
    /\ DispatchFinal(closing) /\ Resolve("words")
    /\ UNCHANGED <<flags, timed, finals, lastSent, op, listens, forgotten, lost, counters>>

(* A sender that was held up in send() finds that nothing runs any more    *)
(* and returns: the tasks of the connection are cancelled, the one that    *)
(* closes the socket with them.                                            *)
SenderReturns ==
    /\ stream = "closing" /\ StreamEnds /\ stream' = "none" /\ timed' = FALSE
    /\ lost' = TRUE
    /\ UNCHANGED <<flags, callbacks, op, listens, forgotten, answered, counters>>

Next ==
    \/ \E k \in Kinds : DrainCallbacks(k) \/ WorkerCancelled(k)
    \/ \E u \in urgent : UrgentEnds(u)
    \/ \E by \in {"other", "final", "urgent"}, on \in urgent \cup {NoUtterance},
          what \in {"start", "conversation", "once", "stop"} : Begins(by, on, what)
    \/ StreamStopped \/ Gathered \/ CallerCancelled
    \/ Connects \/ ServerCloses \/ ConnectionFails \/ DelayOver \/ OneShotTimesOut
    \/ \E w \in Vocabulary, final \in BOOLEAN : FinalResult(w, final)
    \/ UtteranceEnd \/ \E w \in Vocabulary : InterimResult(w)
    \/ SocketClosed \/ SenderReturns

Spec == Init /\ [][Next]_listenerVars

-----------------------------------------------------------------------------
Waiting == UNION {Range(channel[k].queue) : k \in Kinds}
Heard == Waiting \cup {channel[k].calling : k \in Kinds} \cup urgent \cup {closing}

(* The words of an utterance were said in one connection, and the prefix   *)
(* put before them was given for the listening they were said in.          *)
WordsOfOneStream ==
    \A u \in Heard \ {NoUtterance} : \A p, q \in u.from :
        p.conn = q.conn /\ u.prefix \in {0, p.of}

(* What was said before a stop that ended is handed to nobody after it.    *)
NothingFromBeforeStop == \A u \in Waiting : \A p \in u.from : p.of > forgotten

(* What waits comes after what is handled, in the order it was said.       *)
HandedInOrder ==
    \A k \in Kinds : LET c == channel[k]
        IN /\ \A i, j \in 1..Len(c.queue) : i < j => c.queue[i].number < c.queue[j].number
           /\ c.queue # <<>> /\ c.calling # NoUtterance => c.calling.number < c.queue[1].number

(* A one-shot that was not stopped ends with its words handed over or with *)
(* a timeout or an error published, save when its sender was held up.      *)
OneShotIsAnswered ==
    answered = "waiting" /\ ~lost => stream # "none" /\ (once \/ stream = "closing")
=============================================================================
