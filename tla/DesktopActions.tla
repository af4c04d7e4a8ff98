----------------------------- MODULE DesktopActions -----------------------------
(***************************************************************************)
(* The actions on the desktop of somebody who goes on using it (actions.py,*)
(* notepad_document.py, windows_shell.py). A handler runs in a thread of   *)
(* its own: a STOP takes its task, never the thread. A target is bound when*)
(* the command comes, looked at again when the thread begins, and touched a*)
(* moment later. The windows and the macro runner are the environment.     *)
(***************************************************************************)
EXTENDS Naturals, Sequences, FiniteSets, SequencesExt

CONSTANTS
    Windows,        \* window handles
    Items,          \* files and folders, by runtime id
    MaxJobs,        \* bound on commands, of one step each
    MaxMoves,       \* bound on what the user does to the desktop
    NoJob, NoWindow, Nothing

VARIABLES
    desk,           \* what is behind each handle
    front,          \* the window in front, under the cursor
    moves,
    job,
    executing,      \* the job whose handler is awaited
    candidates,     \* _last_shell_candidates
    offered,        \* history: the list in the last answer of a selection
    process,        \* the macro runner, by the job that started it
    currentProcess, \* _current_process
    stop,           \* where stop_all is
    touched         \* history: what a handler did to the desktop last

deskVars == <<desk, front, moves, job, executing, candidates, offered, process,
              currentProcess, stop, touched>>

Jobs == 1..MaxJobs
Programs == {"notepad", "browser", "explorer"}
NoteTexts == {"old", "typed", "dictated"}
Lists == {<<i, k>> : i, k \in Items} \ {<<i, i>> : i \in Items}
Closed == [program |-> "closed"]
NoTask == [at |-> "none"]
NoTouch == [task |-> NoTask]

(* confirmation_required in the catalogue; the rest runs at once.          *)
Confirmed == {"write", "paste", "close", "open", "macro"}
Kinds == Confirmed \cup {"search", "filter", "number"}
InThread == {"checking", "acting", "reading", "reporting"}

DeskTypeOK ==
    /\ \A w \in Windows : desk[w] = Closed \/
         desk[w] \in [program : Programs, pid : 0..MaxMoves, text : NoteTexts, items : SUBSET Items]
    /\ front \in Windows \cup {NoWindow} /\ moves \in 0..MaxMoves
    /\ \A j \in Jobs : job[j] = NoTask \/
         /\ job[j].kind \in Kinds \cup {"any"} /\ job[j].cut \in BOOLEAN
         /\ job[j].at \in InThread \cup {"queued", "in macro", "told", "cancelled"}
    /\ executing \in Jobs \cup {NoJob}
    /\ candidates = Nothing \/ candidates \in [window : Windows, list : Lists]
    /\ offered \in Lists \cup {Nothing}
    /\ process \in Jobs \cup {NoJob} /\ currentProcess \in Jobs \cup {NoJob}
    /\ stop \in {"none", "cutting", "joined", "done"}

Window(program, pid) ==
    [program |-> program, pid |-> pid, text |-> "old",
     items |-> IF program = "explorer" THEN Items ELSE {}]

FirstNote == CHOOSE w \in Windows : TRUE

Init ==
    /\ desk = [w \in Windows |-> Window(IF w = FirstNote THEN "notepad" ELSE "explorer", 0)]
    /\ front \in Windows /\ moves = 0
    /\ job = [j \in Jobs |-> NoTask] /\ executing = NoJob
    /\ candidates = Nothing /\ offered = Nothing
    /\ process = NoJob /\ currentProcess = NoJob /\ stop = "none" /\ touched = NoTouch

-----------------------------------------------------------------------------
(* The user, at any moment.                                                *)
UserDoes(windows, inFront) ==
    /\ moves < MaxMoves /\ moves' = moves + 1
    /\ desk' = windows /\ front' = inFront
    /\ UNCHANGED <<job, executing, candidates, offered, process, currentProcess, stop, touched>>

UserFocuses(w) == desk[w] # Closed /\ w # front /\ UserDoes(desk, w)
UserTypes == front # NoWindow /\ desk[front].program = "notepad"
             /\ UserDoes([desk EXCEPT ![front].text = "typed"], front)
UserRemoves(i) == front # NoWindow /\ i \in desk[front].items /\ desk[front].program = "explorer"
                  /\ UserDoes([desk EXCEPT ![front].items = @ \ {i}], front)

(* A handle may be given to a window of another process.                   *)
UserReopens(w, program) ==
    UserDoes([desk EXCEPT ![w] = Window(program, moves + 1)], w)

-----------------------------------------------------------------------------
Is(w, program) == w # NoWindow /\ desk[w] # Closed /\ desk[w].program = program

(* bind_execution_targets: what the command is about is what is in front   *)
(* now; without it the command fails.                                      *)
Bindable(kind, i) ==
    CASE kind = "write" -> Is(front, "notepad")
      [] kind = "close" -> front # NoWindow
      [] kind = "open" -> Is(front, "explorer") /\ i \in desk[front].items
      [] OTHER -> TRUE

(* What a command says: an item, or the number of one that was listed.     *)
Arguments(kind) ==
    CASE kind = "open" -> Items [] kind = "number" -> 1..2 [] OTHER -> {Nothing}

(* A paste, a macro and a selection are bound to nothing.                  *)
BoundKinds == {"write", "close", "open"}

Task(kind, argument) ==
    [at |-> "queued", kind |-> kind, argument |-> argument,
     window |-> IF kind \in BoundKinds THEN front ELSE NoWindow,
     bound |-> IF kind \in BoundKinds THEN desk[front] ELSE Closed,
     seen |-> Closed, listed |-> Nothing, picked |-> Nothing,
     ok |-> FALSE, cut |-> FALSE]

Submitted(j, kind, argument) ==
    /\ job[j] = NoTask /\ Bindable(kind, argument) /\ \A k \in 1..(j - 1) : job[k] # NoTask
    /\ job' = [job EXCEPT ![j] = Task(kind, argument)]
    /\ UNCHANGED <<desk, front, moves, executing, candidates, offered, process, currentProcess,
                   stop, touched>>

At(j, at, kinds) == job[j] # NoTask /\ job[j].at = at /\ job[j].kind \in kinds

SameWindow(j) == desk[job[j].window] # Closed
                 /\ desk[job[j].window].pid = job[j].bound.pid
                 /\ desk[job[j].window].program = job[j].bound.program

(* _assert_same_document, for the document in front.                       *)
SameDocument(j) ==
    front = job[j].window /\ SameWindow(j) /\ desk[front].text = job[j].bound.text

Ended(j, at) == [at |-> at, kind |-> IF job[j].cut THEN job[j].kind ELSE "any", cut |-> job[j].cut]
Goes(j, at) == job' = [job EXCEPT ![j].at = at]

(* revalidate_bound_targets, on a spoken yes.                              *)
ConfirmationVoided(j) ==
    /\ At(j, "queued", {"write"}) /\ ~SameDocument(j) /\ job' = [job EXCEPT ![j] = Ended(j, "cancelled")]
    /\ UNCHANGED <<desk, front, moves, executing, candidates, offered, process, currentProcess,
                   stop, touched>>

(* The executor takes one step at a time, after a STOP as well.            *)
Executed(j) ==
    /\ At(j, "queued", Kinds) /\ executing = NoJob /\ stop \in {"none", "done"}
    /\ executing' = j
    /\ IF job[j].kind = "macro"
       THEN process = NoJob /\ process' = j /\ currentProcess' = j /\ Goes(j, "in macro")
       ELSE /\ job' = [job EXCEPT ![j].at = "checking",
                                  ![j].listed = IF job[j].kind = "number" THEN offered ELSE Nothing]
            /\ UNCHANGED <<process, currentProcess>>
    /\ UNCHANGED <<desk, front, moves, candidates, offered, stop, touched>>

(* Mutant: the number said is the index.                                   *)
CandidateFromZero(list, n) == list[(n % Len(list)) + 1]

(* index - 1, from 0.                                                      *)
Candidate(list, n) == list[n]

(* What the thread looks at before it acts. A paste is about whatever is in*)
(* front.                                                                  *)
Checked(j) ==
    CASE job[j].kind = "write" -> SameDocument(j)
      [] job[j].kind = "close" -> SameWindow(j)
      [] job[j].kind = "open" -> front = job[j].window /\ SameWindow(j)
                                 /\ job[j].argument \in desk[front].items
      [] job[j].kind = "paste" -> Is(front, "notepad") \/ Is(front, "browser")
      [] job[j].kind = "number" -> /\ candidates # Nothing /\ candidates.window = front
                                   /\ Candidate(candidates.list, job[j].argument) \in desk[front].items
      [] OTHER -> Is(front, "explorer")

Target(j) == IF job[j].kind \in BoundKinds THEN job[j].window ELSE front

ChecksAndFails(j) ==
    /\ At(j, "checking", Kinds) /\ Goes(j, "reporting")
    /\ UNCHANGED <<desk, front, moves, executing, candidates, offered, process, currentProcess,
                   stop, touched>>

Checks(j) ==
    /\ At(j, "checking", Kinds) /\ Checked(j)
    /\ job' = [job EXCEPT ![j] =
         [@ EXCEPT !.at = "acting", !.window = Target(j), !.seen = desk[Target(j)],
                   !.picked = IF job[j].kind = "number"
                              THEN Candidate(candidates.list, job[j].argument) ELSE Nothing]]
    /\ UNCHANGED <<desk, front, moves, executing, candidates, offered, process, currentProcess,
                   stop, touched>>

(* Several names alike are remembered by the thread, then told.            *)
Remembers(j, list) ==
    /\ At(j, "checking", {"search"}) /\ Checked(j) /\ ToSet(list) \subseteq desk[front].items
    /\ candidates' = [window |-> front, list |-> list]
    /\ job' = [job EXCEPT ![j].at = "reporting", ![j].ok = TRUE, ![j].listed = list]
    /\ UNCHANGED <<desk, front, moves, executing, offered, process, currentProcess, stop, touched>>

Touches(j, kinds, then) ==
    /\ At(j, "acting", kinds)
    /\ job' = [job EXCEPT ![j].at = then, ![j].ok = TRUE]
    /\ touched' = [task |-> job[j], now |-> desk[job[j].window]]
    /\ UNCHANGED <<moves, executing, offered, process, currentProcess, stop>>

(* The editor behind the handle takes the text.                            *)
Writes(j) ==
    /\ Touches(j, {"write", "paste"}, "reading") /\ Is(job[j].window, "notepad")
    /\ desk' = [desk EXCEPT ![job[j].window].text = "dictated"]
    /\ UNCHANGED <<front, candidates>>

(* Ctrl+V goes where the focus is; an item is opened by UI Automation.     *)
PastesOrOpens(j) ==
    /\ Touches(j, {"paste", "open"}, "reporting")
    /\ job[j].kind = "paste" => job[j].seen.program = "browser"
    /\ UNCHANGED <<desk, front, candidates>>

(* WM_CLOSE is posted: the program closes the window, or asks.             *)
CloseIsPosted(j, obeys) ==
    /\ Touches(j, {"close"}, "reporting") /\ desk[job[j].window] # Closed
    /\ desk' = IF obeys THEN [desk EXCEPT ![job[j].window] = Closed] ELSE desk
    /\ front' = IF obeys /\ front = job[j].window THEN NoWindow ELSE front
    /\ UNCHANGED candidates

Selects(j) ==
    /\ Touches(j, {"search", "filter", "number"}, "reporting") /\ candidates' = Nothing
    /\ UNCHANGED <<desk, front>>

(* Gone between the look and the touch: the call raises.                   *)
TouchFails(j) ==
    /\ At(j, "acting", Kinds) /\ Goes(j, "reporting")
    /\ UNCHANGED <<desk, front, moves, executing, candidates, offered, process, currentProcess,
                   stop, touched>>

(* apply_notepad_write: the same window holds the text, or it is a failure.*)
ReadsBack(j) ==
    /\ At(j, "reading", Kinds)
    /\ LET now == desk[job[j].window]
       IN job' = [job EXCEPT ![j].at = "reporting",
                             ![j].ok = now # Closed /\ now.pid = job[j].seen.pid
                                       /\ now.text = "dictated"]
    /\ UNCHANGED <<desk, front, moves, executing, candidates, offered, process, currentProcess,
                   stop, touched>>

(* The result is told, unless the task is gone.                            *)
Reports(j) ==
    /\ At(j, "reporting", Kinds)
    /\ job' = [job EXCEPT ![j] = Ended(j, IF job[j].cut THEN "cancelled" ELSE "told")]
    /\ executing' = IF executing = j THEN NoJob ELSE executing
    /\ offered' = IF job[j].cut \/ ~job[j].ok \/ job[j].kind \notin {"search", "filter", "number"}
                  THEN offered
                  ELSE IF job[j].seen = Closed THEN job[j].listed ELSE Nothing
    /\ touched' = NoTouch
    /\ UNCHANGED <<desk, front, moves, candidates, process, currentProcess, stop>>

-----------------------------------------------------------------------------
(* The runner ends by itself, or its time is over and stop() ends it.      *)
MacroEnds(j) ==
    /\ process = j /\ process' = NoJob
    /\ IF At(j, "in macro", {"macro"})
       THEN currentProcess' = NoJob /\ executing' = NoJob /\ job' = [job EXCEPT ![j] = Ended(j, "told")]
       ELSE UNCHANGED <<currentProcess, executing, job>>
    /\ UNCHANGED <<desk, front, moves, candidates, offered, stop, touched>>

(* stop_all: the task is cancelled, then joined; a thread goes on alone,   *)
(* the macro's finally forgets the process.                                *)
StopCancels ==
    /\ stop = "none" /\ stop' = "cutting"
    /\ job' = [j \in Jobs |-> IF job[j] # NoTask /\ job[j].at = "queued"
                              THEN Ended(j, "cancelled") ELSE job[j]]
    /\ UNCHANGED <<desk, front, moves, executing, candidates, offered, process, currentProcess,
                   touched>>

TaskIsCut ==
    /\ stop = "cutting" /\ stop' = "joined" /\ executing' = NoJob
    /\ job' = IF executing = NoJob THEN job
              ELSE [job EXCEPT ![executing].cut = TRUE,
                               ![executing].at = IF @ = "in macro" THEN "cancelled" ELSE @]
    /\ currentProcess' = NoJob
    /\ UNCHANGED <<desk, front, moves, candidates, offered, process, touched>>

(* ActionRegistry.stop: terminate, then kill.                              *)
ActionsStop ==
    /\ stop = "joined" /\ stop' = "done" /\ currentProcess' = NoJob
    /\ process' = IF process = currentProcess THEN NoJob ELSE process
    /\ UNCHANGED <<desk, front, moves, job, executing, candidates, offered, touched>>

-----------------------------------------------------------------------------
JobGoesOn(j) ==
    \/ Executed(j) \/ ConfirmationVoided(j)
    \/ ChecksAndFails(j) \/ Checks(j) \/ \E list \in Lists : Remembers(j, list)
    \/ Writes(j) \/ PastesOrOpens(j) \/ \E obeys \in BOOLEAN : CloseIsPosted(j, obeys)
    \/ Selects(j) \/ TouchFails(j) \/ ReadsBack(j) \/ Reports(j)

Next ==
    \/ \E w \in Windows : UserFocuses(w) \/ \E p \in Programs : UserReopens(w, p)
    \/ UserTypes \/ \E i \in Items : UserRemoves(i)
    \/ \E j \in Jobs :
         \/ \E kind \in Kinds : \E argument \in Arguments(kind) : Submitted(j, kind, argument)
         \/ job[j] # NoTask /\ (JobGoesOn(j) \/ MacroEnds(j))
    \/ StopCancels \/ TaskIsCut \/ ActionsStop

Spec == Init /\ [][Next]_deskVars

-----------------------------------------------------------------------------
(* A note is replaced, a window closed and an item opened only if it is the*)
(* one the command was bound to, the note with the text it had then: unless*)
(* somebody changed it after the thread had looked.                        *)
OnlyTheBoundTarget ==
    touched # NoTouch /\ touched.now = touched.task.seen =>
        LET task == touched.task
        IN /\ task.kind \in BoundKinds =>
                /\ touched.now.pid = task.bound.pid /\ touched.now.program = task.bound.program
           /\ task.kind = "write" => touched.now.text = task.bound.text
           /\ task.kind = "open" => task.argument \in touched.now.items

(* "The first" selects the first of the list that was told last, as long as*)
(* no selection was cut: its thread changes the list without a word.       *)
SelectedWasOffered ==
    /\ touched # NoTouch /\ touched.task.kind = "number"
    /\ \A j \in Jobs : job[j] # NoTask /\ job[j].cut => job[j].kind \notin {"search", "filter", "number"}
    => /\ touched.task.listed # Nothing
       /\ touched.task.picked = touched.task.listed[touched.task.argument]

(* Documentation (docs/ARCHITECTURE_CURRENT.md:104): a STOP goes to the    *)
(* text to speech and to UI.Vision. A macro that was running when the STOP *)
(* came is not running when it is done.                                    *)
StopEndsMacro == stop = "done" => \A j \in Jobs : process = j => ~job[j].cut
=============================================================================
