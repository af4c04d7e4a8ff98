----------------------------- MODULE DesktopProofs -----------------------------
(***************************************************************************)
(* DesktopActions, as MCServices instantiates it: a note is replaced, a    *)
(* window closed and an item opened only where the command was bound, and  *)
(* "the first" is the first of the list that was told last.                *)
(***************************************************************************)
EXTENDS MCServices, TLAPS

Selections == {"search", "filter", "number"}
Opened == [program : Desktop!Programs, pid : 0..MaxMoves, text : Desktop!NoteTexts, items : SUBSET Items]
View == Opened \cup {Desktop!Closed}

(* A task under way, and what is left of one.                              *)
UnderHand ==
    [at : Desktop!InThread \cup {"queued", "in macro", "cancelled"}, kind : Desktop!Kinds,
     argument : Items \cup {1, 2, Nothing}, window : Windows \cup {NoWindow},
     bound : View, seen : View, listed : Desktop!Lists \cup {Nothing},
     picked : Items \cup {Nothing}, ok : BOOLEAN, cut : BOOLEAN]
Past == [at : {"told", "cancelled"}, kind : Desktop!Kinds \cup {"any"}, cut : BOOLEAN]

DeskShape ==
    /\ desk \in [Windows -> View] /\ front \in Windows \cup {NoWindow}
    /\ moves \in 0..MaxMoves
    /\ job \in [Desktop!Jobs -> UnderHand \cup Past \cup {Desktop!NoTask}]
    /\ candidates = Nothing \/ candidates \in [window : Windows, list : Desktop!Lists]
    /\ offered \in Desktop!Lists \cup {Nothing} /\ executing \in Desktop!Jobs \cup {NoJob}
    /\ process \in Desktop!Jobs \cup {NoJob} /\ currentProcess \in Desktop!Jobs \cup {NoJob}
    /\ deskStop \in {"none", "cutting", "joined", "done"}

(* What a bound task saw before it acts is what it was bound to.           *)
SawTheBound(task) ==
    /\ task.kind \in Desktop!BoundKinds =>
         /\ task.seen.pid = task.bound.pid /\ task.seen.program = task.bound.program
    /\ task.kind = "write" => task.seen.text = task.bound.text
    /\ task.kind = "open" => task.argument \in task.seen.items

(* A handler whose task nobody took is awaited, and knows what it is told  *)
(* and what it has seen.                                                   *)
TaskIsInOrder(j) ==
    /\ job[j].at = "acting" => SawTheBound(job[j])
    /\ job[j].at \in Desktop!InThread => job[j].cut \/ executing = j
    /\ job[j].at = "in macro" => executing = j
    /\ job[j].at \in {"queued", "in macro"} => ~job[j].cut
    /\ job[j].at \in {"queued", "checking", "acting"} => ~job[j].ok
    /\ job[j].at \in {"queued", "checking"} => job[j].seen = Desktop!Closed
    /\ job[j].at = "reading" => job[j].kind \notin Selections
    /\ job[j].kind \in Desktop!BoundKinds => job[j].window \in Windows
    /\ job[j].kind = "number" => job[j].argument \in {1, 2}
TasksAreInOrder == \A j \in Desktop!Jobs : job[j] \in UnderHand => TaskIsInOrder(j)


(* Whoever is awaited has begun.                                           *)
AwaitedHasBegun == executing # NoJob => job[executing] # Desktop!NoTask /\ job[executing].at # "queued"

NoSelectionCut ==
    \A j \in Desktop!Jobs :
        job[j] # Desktop!NoTask /\ job[j].cut => job[j].kind \notin Selections

(* The search that is awaited has found several, and has not told them.    *)
Remembered(j) ==
    /\ job[j] \in UnderHand /\ job[j].at = "reporting" /\ job[j].kind \in Selections
    /\ job[j].ok /\ job[j].seen = Desktop!Closed /\ job[j].listed = candidates.list

(* The number that is to be selected counts in the list that is remembered.*)
NumberIsOfList(j) ==
    /\ job[j].at = "checking" /\ candidates # Nothing => job[j].listed = candidates.list
    /\ job[j].at = "acting" =>
         job[j].listed # Nothing /\ job[j].picked = job[j].listed[job[j].argument]

(* What is remembered is what was told last, or is told next.              *)
OfferedIsRemembered ==
    NoSelectionCut =>
      /\ candidates # Nothing =>
           offered = candidates.list \/ (executing # NoJob /\ Remembered(executing))
      /\ \A j \in Desktop!Jobs : job[j] \in UnderHand =>
           /\ job[j].kind = "number" => NumberIsOfList(j)
           /\ job[j].kind \in Selections /\ job[j].at = "reporting" /\ job[j].ok =>
                candidates = Nothing \/ Remembered(j)

DeskInv ==
    /\ DeskShape /\ TasksAreInOrder /\ AwaitedHasBegun /\ OfferedIsRemembered
    /\ Desktop!OnlyTheBoundTarget /\ Desktop!SelectedWasOffered

LEMMA NoTaskIsNone == Desktop!NoTask \notin UnderHand
BY DEF Desktop!NoTask, UnderHand, Desktop!InThread

LEMMA PastIsNotUnderHand == ASSUME NEW old \in Past PROVE old \notin UnderHand /\ old # Desktop!NoTask
<1>1. DOMAIN old = {"at", "kind", "cut"} /\ old.at \in {"told", "cancelled"}
  BY DEF Past
<1>2. \A task \in UnderHand : "ok" \in DOMAIN task
  BY DEF UnderHand
<1>3. Desktop!NoTask.at = "none"
  BY DEF Desktop!NoTask
<1>. QED BY <1>1, <1>2, <1>3

LEMMA DeskInit == ASSUME Desktop!Init PROVE DeskInv
<1>. USE DEF Desktop!Init, Desktop!NoTask, Desktop!NoTouch
<1>1. DeskShape
  <2>1. 0 \in 0..MaxMoves
    BY DeskAssumption
  <2>2. Desktop!Window("notepad", 0) \in View /\ Desktop!Window("explorer", 0) \in View
    BY <2>1 DEF Desktop!Window, View, Opened, Desktop!Programs, Desktop!NoteTexts
  <2>3. desk \in [Windows -> View]
    BY <2>2
  <2>4. job \in [Desktop!Jobs -> UnderHand \cup Past \cup {Desktop!NoTask}]
    OBVIOUS
  <2>5. /\ front \in Windows /\ moves \in 0..MaxMoves /\ candidates = Nothing /\ offered = Nothing
        /\ executing = NoJob /\ process = NoJob /\ currentProcess = NoJob /\ deskStop = "none"
    BY <2>1
  <2>. HIDE DEF Desktop!Init, Desktop!NoTask, Desktop!NoTouch
  <2>. QED BY <2>3, <2>4, <2>5 DEF DeskShape
<1>2. \A j \in Desktop!Jobs : job[j] \notin UnderHand
  BY NoTaskIsNone
<1>. QED
  BY <1>1, <1>2 DEF DeskInv, TasksAreInOrder, AwaitedHasBegun, OfferedIsRemembered, Desktop!OnlyTheBoundTarget,
     Desktop!SelectedWasOffered

(* A step that moves one task.                                             *)
OneMoves(j, new) ==
    /\ job' = [job EXCEPT ![j] = new]
    /\ \A k \in Desktop!Jobs : job'[k] = IF k = j THEN new ELSE job[k]

LEMMA MovesOne ==
    ASSUME DeskShape, NEW j \in Desktop!Jobs, NEW new, job' = [job EXCEPT ![j] = new]
    PROVE  OneMoves(j, new)
BY DEF DeskShape, OneMoves

(* A task that is at some place is under hand.                             *)
LEMMA AtIsUnderHand ==
    ASSUME DeskShape, NEW j \in Desktop!Jobs, NEW place, NEW kinds, Desktop!At(j, place, kinds),
           place \in Desktop!InThread \cup {"queued", "in macro"}
    PROVE  job[j] \in UnderHand /\ job[j].at = place /\ job[j].kind \in kinds
BY DEF DeskShape, Desktop!At, Desktop!InThread, UnderHand, Past, Desktop!NoTask

(* The others stay in order while the same handler is awaited.             *)
LEMMA OthersInOrder ==
    ASSUME DeskInv, NEW j \in Desktop!Jobs, NEW new, OneMoves(j, new),
           \A k \in Desktop!Jobs \ {j} : job[k] \in UnderHand /\ executing = k => executing' = k,
           new \in UnderHand => TaskIsInOrder(j)'
    PROVE  TasksAreInOrder'
<1>. SUFFICES ASSUME NEW k \in Desktop!Jobs, job'[k] \in UnderHand PROVE TaskIsInOrder(k)'
  BY DEF TasksAreInOrder
<1>1. CASE k = j
  BY <1>1 DEF OneMoves
<1>2. CASE k # j
  <2>1. job'[k] = job[k] /\ TaskIsInOrder(k) /\ (executing = k => executing' = k)
    BY <1>2 DEF OneMoves, DeskInv, TasksAreInOrder
  <2>. QED BY <2>1 DEF TaskIsInOrder
<1>. QED BY <1>1, <1>2

LEMMA AwaitedKeeps ==
    ASSUME DeskInv, NEW j \in Desktop!Jobs, NEW new, OneMoves(j, new), executing' \in {executing, j, NoJob},
           executing' = j => new # Desktop!NoTask /\ new.at # "queued"
    PROVE  AwaitedHasBegun'
<1>. SUFFICES ASSUME executing' # NoJob PROVE job'[executing'] # Desktop!NoTask /\ job'[executing'].at # "queued"
  BY DEF AwaitedHasBegun
<1>1. CASE executing' = j
  BY <1>1 DEF OneMoves
<1>2. CASE executing' # j
  <2>1. executing' = executing /\ executing \in Desktop!Jobs
    BY <1>2 DEF DeskInv, DeskShape
  <2>2. job'[executing'] = job[executing]
    BY <1>2, <2>1 DEF OneMoves
  <2>. QED BY <2>1, <2>2 DEF DeskInv, AwaitedHasBegun
<1>. QED BY <1>1, <1>2

(* A step of the user.                                                     *)
LEMMA UserKeeps ==
    ASSUME DeskInv, NEW windows, NEW inFront, Desktop!UserDoes(windows, inFront),
           windows \in [Windows -> View], inFront \in Windows \cup {NoWindow}
    PROVE  DeskInv'
<1>1. DeskShape'
  BY DeskAssumption DEF Desktop!UserDoes, DeskInv, DeskShape
<1>2. UNCHANGED <<job, executing, candidates, offered, touched>>
  BY DEF Desktop!UserDoes
<1>3. TasksAreInOrder' /\ AwaitedHasBegun' /\ OfferedIsRemembered'
  BY <1>2 DEF DeskInv, AwaitedHasBegun, TasksAreInOrder, TaskIsInOrder, OfferedIsRemembered, NoSelectionCut,
     Remembered, NumberIsOfList
<1>4. Desktop!OnlyTheBoundTarget' /\ Desktop!SelectedWasOffered'
  BY <1>2 DEF DeskInv, Desktop!OnlyTheBoundTarget, Desktop!SelectedWasOffered
<1>. QED BY <1>1, <1>3, <1>4 DEF DeskInv

LEMMA UsersKeep ==
    ASSUME DeskInv, \/ \E w \in Windows : Desktop!UserFocuses(w) \/ \E p \in Desktop!Programs : Desktop!UserReopens(w, p)
           \/ Desktop!UserTypes \/ \E i \in Items : Desktop!UserRemoves(i)
    PROVE  DeskInv'
<1>1. ASSUME NEW w \in Windows, Desktop!UserFocuses(w) PROVE DeskInv'
  BY <1>1, UserKeeps DEF Desktop!UserFocuses, DeskInv, DeskShape
<1>2. ASSUME NEW w \in Windows, NEW p \in Desktop!Programs, Desktop!UserReopens(w, p) PROVE DeskInv'
  <2>1. moves + 1 \in 0..MaxMoves
    BY <1>2, DeskAssumption DEF Desktop!UserReopens, Desktop!UserDoes, DeskInv, DeskShape
  <2>2. Desktop!Window(p, moves + 1) \in View
    BY <2>1 DEF Desktop!Window, View, Opened, Desktop!NoteTexts
  <2>3. [desk EXCEPT ![w] = Desktop!Window(p, moves + 1)] \in [Windows -> View]
    BY <2>2 DEF DeskInv, DeskShape
  <2>. QED BY <1>2, <2>3, UserKeeps DEF Desktop!UserReopens
<1>3. CASE Desktop!UserTypes
  <2>1. front \in Windows /\ desk[front].program = "notepad" /\ desk[front] \in View
    BY <1>3 DEF Desktop!UserTypes, DeskInv, DeskShape
  <2>2. [desk[front] EXCEPT !.text = "typed"] \in View
    BY <2>1 DEF View, Opened, Desktop!NoteTexts, Desktop!Closed
  <2>3. [desk EXCEPT ![front].text = "typed"] \in [Windows -> View]
    BY <2>1, <2>2 DEF DeskInv, DeskShape
  <2>. QED BY <1>3, <2>1, <2>3, UserKeeps DEF Desktop!UserTypes
<1>4. ASSUME NEW i \in Items, Desktop!UserRemoves(i) PROVE DeskInv'
  <2>1. front \in Windows /\ desk[front].program = "explorer" /\ desk[front] \in View
    BY <1>4 DEF Desktop!UserRemoves, DeskInv, DeskShape
  <2>2. [desk[front] EXCEPT !.items = @ \ {i}] \in View
    BY <2>1 DEF View, Opened, Desktop!Closed
  <2>3. [desk EXCEPT ![front].items = @ \ {i}] \in [Windows -> View]
    BY <2>1, <2>2 DEF DeskInv, DeskShape
  <2>. QED BY <1>4, <2>1, <2>3, UserKeeps DEF Desktop!UserRemoves
<1>. QED BY <1>1, <1>2, <1>3, <1>4

-----------------------------------------------------------------------------
(* A cut of a selection is not undone, so that what is remembered stays    *)
(* what was told.                                                          *)
LEMMA MoveKeepsList ==
    ASSUME DeskInv, NEW j \in Desktop!Jobs, NEW new, OneMoves(j, new), new # Desktop!NoTask,
           UNCHANGED <<candidates, offered>>, executing' = executing \/ executing = NoJob,
           job[j] # Desktop!NoTask => job[j] \in UnderHand /\ (job[j].cut => new.cut /\ new.kind = job[j].kind),
           job[j] # Desktop!NoTask => job[j].at # "reporting",
           NoSelectionCut /\ new \in UnderHand /\ new.kind = "number" => NumberIsOfList(j)',
           new \in UnderHand /\ new.kind \in Selections /\ new.at = "reporting" /\ new.ok
             => candidates = Nothing
    PROVE  OfferedIsRemembered' /\ (NoSelectionCut' => NoSelectionCut)
<1>1. NoSelectionCut' => NoSelectionCut
  BY DEF NoSelectionCut, OneMoves
<1>2. SUFFICES ASSUME NoSelectionCut' PROVE OfferedIsRemembered'
  BY <1>1 DEF OfferedIsRemembered
<1>3. /\ candidates # Nothing => offered = candidates.list \/ (executing # NoJob /\ Remembered(executing))
      /\ \A k \in Desktop!Jobs : job[k] \in UnderHand =>
           /\ job[k].kind = "number" => NumberIsOfList(k)
           /\ job[k].kind \in Selections /\ job[k].at = "reporting" /\ job[k].ok =>
                candidates = Nothing \/ Remembered(k)
  BY <1>1, <1>2 DEF DeskInv, OfferedIsRemembered
<1>4. executing # NoJob /\ Remembered(executing) => executing' # NoJob /\ Remembered(executing)'
  <2>. SUFFICES ASSUME executing # NoJob, Remembered(executing) PROVE executing' # NoJob /\ Remembered(executing)'
    OBVIOUS
  <2>1. executing \in Desktop!Jobs /\ executing # j
    BY NoTaskIsNone DEF Remembered, DeskInv, DeskShape
  <2>2. job'[executing] = job[executing]
    BY <2>1 DEF OneMoves
  <2>3. executing' = executing
    OBVIOUS
  <2>. QED BY <2>2, <2>3 DEF Remembered
<1>5. ASSUME NEW k \in Desktop!Jobs, job'[k] \in UnderHand, k # j
      PROVE  /\ job'[k].kind = "number" => NumberIsOfList(k)'
             /\ job'[k].kind \in Selections /\ job'[k].at = "reporting" /\ job'[k].ok =>
                  candidates = Nothing \/ Remembered(k)'
  <2>1. job'[k] = job[k]
    BY <1>5 DEF OneMoves
  <2>. QED BY <1>3, <1>5, <2>1 DEF NumberIsOfList, Remembered
<1>6. job'[j] = new
  BY DEF OneMoves
<1>. QED BY <1>1, <1>2, <1>3, <1>4, <1>5, <1>6 DEF OfferedIsRemembered

(* As long as nobody touches the desktop.                                  *)
LEMMA UntouchedKeeps ==
    ASSUME DeskInv, touched' = touched, NoSelectionCut' => NoSelectionCut
    PROVE  Desktop!OnlyTheBoundTarget' /\ Desktop!SelectedWasOffered'
BY DEF DeskInv, Desktop!OnlyTheBoundTarget, Desktop!SelectedWasOffered, NoSelectionCut, Selections

LEMMA SubmittedKeeps ==
    ASSUME DeskInv, NEW j \in Desktop!Jobs, NEW kind \in Desktop!Kinds,
           NEW argument \in Desktop!Arguments(kind), Desktop!Submitted(j, kind, argument)
    PROVE  DeskInv'
<1>. DEFINE new == Desktop!Task(kind, argument)
<1>1. /\ job[j] = Desktop!NoTask /\ job' = [job EXCEPT ![j] = new]
      /\ UNCHANGED <<desk, front, moves, executing, candidates, offered, process, currentProcess,
                     deskStop, touched>>
  BY DEF Desktop!Submitted
<1>2. kind \in Desktop!BoundKinds => front \in Windows
  BY DEF Desktop!Submitted, Desktop!Bindable, Desktop!Is, Desktop!BoundKinds, DeskInv, DeskShape
<1>3. argument \in Items \cup {1, 2, Nothing} /\ (kind = "number" => argument \in {1, 2})
  BY DEF Desktop!Arguments
<1>4. new \in UnderHand /\ new.at = "queued" /\ new.kind = kind /\ ~new.cut /\ ~new.ok
      /\ new.seen = Desktop!Closed /\ new.argument = argument
      /\ (kind \in Desktop!BoundKinds => new.window = front)
  BY <1>2, <1>3 DEF Desktop!Task, UnderHand, View, DeskInv, DeskShape
<1>. HIDE DEF new
<1>5. OneMoves(j, new)
  BY <1>1, MovesOne DEF DeskInv
<1>6. DeskShape'
  BY <1>1, <1>4 DEF DeskInv, DeskShape
<1>7. TasksAreInOrder'
  <2>1. TaskIsInOrder(j)'
    BY <1>2, <1>3, <1>4, <1>5 DEF TaskIsInOrder, OneMoves, Desktop!InThread
  <2>. QED BY <1>1, <1>5, <2>1, OthersInOrder
<1>8. OfferedIsRemembered' /\ (NoSelectionCut' => NoSelectionCut)
  <2>1. NumberIsOfList(j)'
    BY <1>4, <1>5 DEF NumberIsOfList, OneMoves
  <2>2. new # Desktop!NoTask
    BY <1>4, NoTaskIsNone
  <2>. QED BY <1>1, <1>4, <1>5, <2>1, <2>2, MoveKeepsList
<1>9. AwaitedHasBegun'
  <2>1. executing # j
    BY <1>1, DeskAssumption DEF DeskInv, AwaitedHasBegun
  <2>. QED BY <1>1, <1>5, <2>1, AwaitedKeeps
<1>. QED BY <1>1, <1>6, <1>7, <1>8, <1>9, UntouchedKeeps DEF DeskInv

(* Whoever looks at the desktop, or gives up, leaves it and the list.      *)
LEMMA QuietKeeps ==
    ASSUME DeskInv, NEW j \in Desktop!Jobs, NEW new \in UnderHand \cup Past, new.at # "queued",
           job' = [job EXCEPT ![j] = new], job[j] \in UnderHand, job[j].at # "reporting",
           job[j].cut => new.cut /\ new.kind = job[j].kind,
           new \in UnderHand => TaskIsInOrder(j)',
           NoSelectionCut /\ new \in UnderHand /\ new.kind = "number" => NumberIsOfList(j)',
           new \in UnderHand /\ new.kind \in Selections /\ new.at = "reporting" => ~new.ok,
           UNCHANGED <<desk, front, moves, executing, candidates, offered, process, currentProcess,
                       deskStop, touched>>
    PROVE  DeskInv'
<1>1. OneMoves(j, new)
  BY MovesOne DEF DeskInv
<1>2. DeskShape'
  BY DEF DeskInv, DeskShape
<1>3. TasksAreInOrder'
  BY <1>1, OthersInOrder
<1>4. new # Desktop!NoTask
  BY NoTaskIsNone, PastIsNotUnderHand
<1>5. OfferedIsRemembered' /\ (NoSelectionCut' => NoSelectionCut)
  BY <1>1, <1>4, MoveKeepsList
<1>6. AwaitedHasBegun'
  BY <1>1, <1>4, AwaitedKeeps
<1>. QED BY <1>2, <1>3, <1>5, <1>6, UntouchedKeeps DEF DeskInv

LEMMA EndedIsPast ==
    ASSUME NEW j, job[j] \in UnderHand, NEW place \in {"told", "cancelled"}
    PROVE  /\ Desktop!Ended(j, place) \in Past
           /\ Desktop!Ended(j, place).cut = job[j].cut /\ Desktop!Ended(j, place).at = place
           /\ job[j].cut => Desktop!Ended(j, place).kind = job[j].kind
BY DEF Desktop!Ended, Past, UnderHand

LEMMA VoidedKeeps ==
    ASSUME DeskInv, NEW j \in Desktop!Jobs, Desktop!ConfirmationVoided(j) PROVE DeskInv'
<1>1. job[j] \in UnderHand /\ job[j].at = "queued"
  BY AtIsUnderHand DEF Desktop!ConfirmationVoided, DeskInv
<1>2. Desktop!Ended(j, "cancelled") \in Past \ UnderHand
  BY <1>1, EndedIsPast, PastIsNotUnderHand
<1>. QED BY <1>1, <1>2, EndedIsPast, QuietKeeps DEF Desktop!ConfirmationVoided

(* A task that gives up.                                                   *)
LEMMA GivesUpKeeps ==
    ASSUME DeskInv, NEW j \in Desktop!Jobs, Desktop!ChecksAndFails(j) \/ Desktop!TouchFails(j) PROVE DeskInv'
<1>. DEFINE new == [job[j] EXCEPT !.at = "reporting"]
<1>1. job[j] \in UnderHand /\ job[j].at \in {"checking", "acting"}
  BY AtIsUnderHand DEF Desktop!ChecksAndFails, Desktop!TouchFails, DeskInv, Desktop!InThread
<1>2. job' = [job EXCEPT ![j] = new]
      /\ UNCHANGED <<desk, front, moves, executing, candidates, offered, process, currentProcess,
                     deskStop, touched>>
  BY DEF Desktop!ChecksAndFails, Desktop!TouchFails, Desktop!Goes
<1>3. /\ new \in UnderHand /\ new.at = "reporting" /\ new.cut = job[j].cut /\ new.ok = job[j].ok
      /\ new.kind = job[j].kind /\ new.argument = job[j].argument /\ new.window = job[j].window
  BY <1>1 DEF UnderHand, Desktop!InThread
<1>. HIDE DEF new
<1>4. TaskIsInOrder(j)
  BY <1>1 DEF DeskInv, TasksAreInOrder
<1>5. OneMoves(j, new) /\ job'[j] = new
  <2>1. OneMoves(j, new)
    BY <1>2, MovesOne DEF DeskInv
  <2>. QED BY <2>1 DEF OneMoves
<1>6. TaskIsInOrder(j)' /\ NumberIsOfList(j)'
  BY <1>1, <1>2, <1>3, <1>4, <1>5 DEF TaskIsInOrder, NumberIsOfList, Desktop!InThread
<1>7. ~new.ok
  BY <1>1, <1>3, <1>4 DEF TaskIsInOrder
<1>. QED BY <1>1, <1>2, <1>3, <1>6, <1>7, QuietKeeps

LEMMA ReadsBackKeeps ==
    ASSUME DeskInv, NEW j \in Desktop!Jobs, Desktop!ReadsBack(j) PROVE DeskInv'
<1>. DEFINE ok == /\ desk[job[j].window] # Desktop!Closed /\ desk[job[j].window].pid = job[j].seen.pid
                  /\ desk[job[j].window].text = "dictated"
            new == [job[j] EXCEPT !.at = "reporting", !.ok = ok]
<1>1. job[j] \in UnderHand /\ job[j].at = "reading"
  BY AtIsUnderHand DEF Desktop!ReadsBack, DeskInv, Desktop!InThread
<1>2. job' = [job EXCEPT ![j] = new]
      /\ UNCHANGED <<desk, front, moves, executing, candidates, offered, process, currentProcess,
                     deskStop, touched>>
  BY DEF Desktop!ReadsBack
<1>3. ok \in BOOLEAN
  OBVIOUS
<1>. HIDE DEF ok
<1>4. /\ new \in UnderHand /\ new.at = "reporting" /\ new.cut = job[j].cut
      /\ new.kind = job[j].kind /\ new.argument = job[j].argument /\ new.window = job[j].window
  BY <1>1, <1>3 DEF UnderHand, Desktop!InThread
<1>. HIDE DEF new
<1>5. TaskIsInOrder(j)
  BY <1>1 DEF DeskInv, TasksAreInOrder
<1>6. OneMoves(j, new) /\ job'[j] = new
  <2>1. OneMoves(j, new)
    BY <1>2, MovesOne DEF DeskInv
  <2>. QED BY <2>1 DEF OneMoves
<1>7. TaskIsInOrder(j)' /\ NumberIsOfList(j)' /\ new.kind \notin Selections
  BY <1>1, <1>2, <1>4, <1>5, <1>6 DEF TaskIsInOrder, NumberIsOfList, Desktop!InThread
<1>. QED BY <1>1, <1>2, <1>4, <1>7, QuietKeeps

LEMMA ListsAreOfItems ==
    ASSUME NEW list \in Desktop!Lists, NEW n \in {1, 2} PROVE list[n] \in Items
<1>1. PICK a \in Items, b \in Items : list = <<a, b>>
  BY DEF Desktop!Lists
<1>. QED BY <1>1

(* The thread looks: what it is about to touch is what the task was bound  *)
(* to, or what the number means in the list that was told.                 *)
LEMMA ChecksKeeps ==
    ASSUME DeskInv, NEW j \in Desktop!Jobs, Desktop!Checks(j) PROVE DeskInv'
<1>. DEFINE target == Desktop!Target(j)
            picked == IF job[j].kind = "number"
                      THEN Desktop!Candidate(candidates.list, job[j].argument) ELSE Nothing
            new == [job[j] EXCEPT !.at = "acting", !.window = target, !.seen = desk[target],
                                  !.picked = picked]
<1>1. job[j] \in UnderHand /\ job[j].at = "checking" /\ Desktop!Checked(j)
  BY AtIsUnderHand DEF Desktop!Checks, DeskInv, Desktop!InThread
<1>2. job' = [job EXCEPT ![j] = new]
      /\ UNCHANGED <<desk, front, moves, executing, candidates, offered, process, currentProcess,
                     deskStop, touched>>
  BY DEF Desktop!Checks
<1>3. TaskIsInOrder(j)
  BY <1>1 DEF DeskInv, TasksAreInOrder
<1>4. job[j].kind = "number" =>
        /\ candidates # Nothing /\ candidates.window = front /\ candidates.list \in Desktop!Lists
        /\ job[j].argument \in {1, 2} /\ picked = candidates.list[job[j].argument]
        /\ picked \in Items
  BY <1>1, <1>3, ListsAreOfItems
     DEF Desktop!Checked, TaskIsInOrder, DeskInv, DeskShape, Desktop!Candidate
<1>5. target \in Windows
  <2>1. CASE job[j].kind \in Desktop!BoundKinds
    BY <1>3, <2>1 DEF Desktop!Target, TaskIsInOrder
  <2>2. CASE job[j].kind = "number"
    BY <1>4, <2>2 DEF Desktop!Target, Desktop!BoundKinds, DeskInv, DeskShape
  <2>3. CASE job[j].kind \in {"search", "filter", "paste", "macro"}
    BY <1>1, <2>3 DEF Desktop!Target, Desktop!BoundKinds, Desktop!Checked, Desktop!Is, DeskInv, DeskShape
  <2>. QED BY <1>1, <2>1, <2>2, <2>3 DEF UnderHand, Desktop!Kinds, Desktop!Confirmed, Desktop!BoundKinds
<1>6. desk[target] \in View /\ picked \in Items \cup {Nothing}
  BY <1>4, <1>5 DEF DeskInv, DeskShape
<1>7. SawTheBound([job[j] EXCEPT !.seen = desk[target]])
  BY <1>1 DEF SawTheBound, Desktop!Checked, Desktop!Target, Desktop!BoundKinds, Desktop!SameDocument, Desktop!SameWindow, UnderHand
<1>. HIDE DEF target, picked
<1>8. /\ new \in UnderHand /\ new.at = "acting" /\ new.cut = job[j].cut /\ new.ok = job[j].ok
      /\ new.kind = job[j].kind /\ new.argument = job[j].argument /\ new.window = target
      /\ new.seen = desk[target] /\ new.bound = job[j].bound /\ new.picked = picked
      /\ new.listed = job[j].listed
  BY <1>1, <1>5, <1>6 DEF UnderHand, Desktop!InThread
<1>9. SawTheBound(new)
  BY <1>1, <1>7, <1>8 DEF SawTheBound, UnderHand
<1>. HIDE DEF new
<1>10. OneMoves(j, new) /\ job'[j] = new
  <2>1. OneMoves(j, new)
    BY <1>2, MovesOne DEF DeskInv
  <2>. QED BY <2>1 DEF OneMoves
<1>11. TaskIsInOrder(j)'
  BY <1>1, <1>2, <1>3, <1>5, <1>8, <1>9, <1>10 DEF TaskIsInOrder, Desktop!InThread
<1>12. NoSelectionCut /\ new.kind = "number" => NumberIsOfList(j)'
  <2>. SUFFICES ASSUME NoSelectionCut, new.kind = "number" PROVE NumberIsOfList(j)'
    OBVIOUS
  <2>1. job[j].listed = candidates.list
    BY <1>1, <1>4, <1>8 DEF DeskInv, OfferedIsRemembered, NumberIsOfList
  <2>. QED BY <1>4, <1>8, <1>10, <2>1, DeskAssumption DEF NumberIsOfList
<1>. QED BY <1>1, <1>2, <1>8, <1>11, <1>12, QuietKeeps

LEMMA ExecutedKeeps ==
    ASSUME DeskInv, NEW j \in Desktop!Jobs, Desktop!Executed(j) PROVE DeskInv'
<1>. DEFINE place == IF job[j].kind = "macro" THEN "in macro" ELSE "checking"
            told == IF job[j].kind = "number" THEN offered ELSE Nothing
            new == IF job[j].kind = "macro" THEN [job[j] EXCEPT !.at = "in macro"]
                   ELSE [job[j] EXCEPT !.at = "checking", !.listed = told]
<1>1. job[j] \in UnderHand /\ job[j].at = "queued" /\ executing = NoJob
  BY AtIsUnderHand DEF Desktop!Executed, DeskInv
<1>2. job' = [job EXCEPT ![j] = new] /\ executing' = j /\ process' \in Desktop!Jobs \cup {NoJob}
      /\ currentProcess' \in Desktop!Jobs \cup {NoJob}
      /\ UNCHANGED <<desk, front, moves, candidates, offered, deskStop, touched>>
  BY DEF Desktop!Executed, Desktop!Goes, DeskInv, DeskShape
<1>3. TaskIsInOrder(j) /\ told \in Desktop!Lists \cup {Nothing}
  BY <1>1 DEF DeskInv, TasksAreInOrder, DeskShape
<1>. HIDE DEF told
<1>4. /\ new \in UnderHand /\ new.at = place /\ new.cut = job[j].cut /\ new.ok = job[j].ok
      /\ new.kind = job[j].kind /\ new.argument = job[j].argument /\ new.window = job[j].window
      /\ new.seen = job[j].seen /\ (place = "checking" => new.listed = told)
  BY <1>1, <1>3 DEF UnderHand, Desktop!InThread
<1>5. place \in {"in macro", "checking"}
  OBVIOUS
<1>. HIDE DEF new, place
<1>6. OneMoves(j, new) /\ job'[j] = new
  <2>1. OneMoves(j, new)
    BY <1>2, MovesOne DEF DeskInv
  <2>. QED BY <2>1 DEF OneMoves
<1>7. DeskShape'
  BY <1>2, <1>4 DEF DeskInv, DeskShape
<1>8. TasksAreInOrder' /\ AwaitedHasBegun'
  <2>1. TaskIsInOrder(j)'
    BY <1>1, <1>2, <1>3, <1>4, <1>5, <1>6 DEF TaskIsInOrder, Desktop!InThread
  <2>2. new # Desktop!NoTask
    BY <1>4, NoTaskIsNone
  <2>. QED BY <1>1, <1>2, <1>4, <1>5, <1>6, <2>1, <2>2, OthersInOrder, AwaitedKeeps, DeskAssumption
<1>9. OfferedIsRemembered' /\ (NoSelectionCut' => NoSelectionCut)
  <2>1. NoSelectionCut /\ new.kind = "number" => NumberIsOfList(j)'
    <3>. SUFFICES ASSUME NoSelectionCut, new.kind = "number" PROVE NumberIsOfList(j)'
      OBVIOUS
    <3>1. told = offered /\ (candidates # Nothing => offered = candidates.list)
      BY <1>1, <1>4 DEF told, DeskInv, OfferedIsRemembered
    <3>. QED BY <1>2, <1>4, <1>5, <1>6, <3>1 DEF NumberIsOfList
  <2>2. new # Desktop!NoTask
    BY <1>4, NoTaskIsNone
  <2>. QED BY <1>1, <1>2, <1>4, <1>5, <1>6, <2>1, <2>2, MoveKeepsList
<1>. QED BY <1>2, <1>7, <1>8, <1>9, UntouchedKeeps DEF DeskInv

(* A selection nobody cut is the one that is awaited.                      *)
LEMMA SelectionIsAwaited ==
    ASSUME DeskInv, NoSelectionCut, NEW j \in Desktop!Jobs, job[j] \in UnderHand,
           job[j].kind \in Selections, job[j].at \in Desktop!InThread
    PROVE  executing = j /\ ~job[j].cut
BY NoTaskIsNone DEF DeskInv, TasksAreInOrder, TaskIsInOrder, NoSelectionCut

LEMMA RemembersKeeps ==
    ASSUME DeskInv, NEW j \in Desktop!Jobs, NEW list \in Desktop!Lists, Desktop!Remembers(j, list)
    PROVE  DeskInv'
<1>. DEFINE new == [job[j] EXCEPT !.at = "reporting", !.ok = TRUE, !.listed = list]
<1>1. job[j] \in UnderHand /\ job[j].at = "checking" /\ job[j].kind = "search" /\ front \in Windows
  <2>1. job[j] \in UnderHand /\ job[j].at = "checking" /\ job[j].kind = "search"
    <3>1. job[j] \in UnderHand /\ job[j].at = "checking" /\ job[j].kind \in {"search"}
      BY AtIsUnderHand DEF Desktop!Remembers, DeskInv, Desktop!InThread
    <3>. QED BY <3>1
  <2>2. Desktop!Is(front, "explorer")
    BY <2>1 DEF Desktop!Remembers, Desktop!Checked
  <2>. QED BY <2>1, <2>2 DEF Desktop!Is, DeskInv, DeskShape
<1>2. job' = [job EXCEPT ![j] = new] /\ candidates' = [window |-> front, list |-> list]
      /\ UNCHANGED <<desk, front, moves, executing, offered, process, currentProcess, deskStop, touched>>
  BY DEF Desktop!Remembers
<1>3. TaskIsInOrder(j)
  BY <1>1 DEF DeskInv, TasksAreInOrder
<1>4. /\ new \in UnderHand /\ new.at = "reporting" /\ new.cut = job[j].cut /\ new.ok
      /\ new.kind = job[j].kind /\ new.argument = job[j].argument /\ new.window = job[j].window
      /\ new.seen = job[j].seen /\ new.listed = list
  BY <1>1 DEF UnderHand, Desktop!InThread
<1>. HIDE DEF new
<1>5. OneMoves(j, new) /\ job'[j] = new /\ \A k \in Desktop!Jobs \ {j} : job'[k] = job[k]
  <2>1. OneMoves(j, new)
    BY <1>2, MovesOne DEF DeskInv
  <2>. QED BY <2>1 DEF OneMoves
<1>6. DeskShape'
  BY <1>1, <1>2, <1>4 DEF DeskInv, DeskShape
<1>7. TasksAreInOrder' /\ AwaitedHasBegun'
  <2>1. TaskIsInOrder(j)'
    BY <1>1, <1>2, <1>3, <1>4, <1>5 DEF TaskIsInOrder, Desktop!InThread, Desktop!BoundKinds
  <2>2. new # Desktop!NoTask
    BY <1>4, NoTaskIsNone
  <2>. QED BY <1>1, <1>2, <1>4, <1>5, <2>1, <2>2, OthersInOrder, AwaitedKeeps, DeskAssumption
<1>8. NoSelectionCut' => NoSelectionCut
  BY <1>1, <1>4, <1>5, NoTaskIsNone DEF NoSelectionCut
<1>9. OfferedIsRemembered'
  <2>. SUFFICES ASSUME NoSelectionCut' PROVE OfferedIsRemembered'
    BY DEF OfferedIsRemembered
  <2>1. NoSelectionCut /\ executing = j
    BY <1>1, <1>8, SelectionIsAwaited DEF Selections, Desktop!InThread
  <2>2. Remembered(j)'
    BY <1>1, <1>2, <1>3, <1>4, <1>5 DEF Remembered, TaskIsInOrder, Selections
  <2>3. executing' # NoJob /\ Remembered(executing)'
    BY <1>2, <2>1, <2>2, DeskAssumption DEF Remembered
  <2>4. ASSUME NEW k \in Desktop!Jobs, k # j, job'[k] \in UnderHand
        PROVE  /\ job'[k].kind = "number" => NumberIsOfList(k)'
               /\ job'[k].kind \in Selections => job'[k].at # "reporting"
    <3>1. job'[k] = job[k]
      BY <1>5, <2>4
    <3>2. job[k].kind \in Selections => job[k].at \notin Desktop!InThread
      BY <2>1, <2>4, <3>1, SelectionIsAwaited
    <3>. QED BY <3>1, <3>2 DEF NumberIsOfList, Selections, Desktop!InThread
  <2>5. new.kind # "number"
    BY <1>1, <1>4
  <2>. QED BY <1>5, <2>2, <2>3, <2>4, <2>5 DEF OfferedIsRemembered
<1>. QED BY <1>2, <1>6, <1>7, <1>8, <1>9, UntouchedKeeps DEF DeskInv

(* A handler that does something to the desktop, of a task that is in      *)
(* order.                                                                  *)
LEMMA TouchesInOrder ==
    ASSUME DeskInv, NEW j \in Desktop!Jobs, NEW kinds, NEW then \in {"reading", "reporting"},
           Desktop!Touches(j, kinds, then), then = "reading" => kinds \cap Selections = {}
    PROVE  /\ job[j] \in UnderHand /\ job[j].at = "acting" /\ job[j].kind \in kinds
           /\ job'[j] \in UnderHand /\ job'[j].at = then /\ job'[j].kind = job[j].kind
           /\ job'[j].cut = job[j].cut /\ OneMoves(j, job'[j])
           /\ job' \in [Desktop!Jobs -> UnderHand \cup Past \cup {Desktop!NoTask}]
           /\ TasksAreInOrder' /\ AwaitedHasBegun' /\ (NoSelectionCut' => NoSelectionCut)
           /\ Desktop!OnlyTheBoundTarget' /\ Desktop!SelectedWasOffered'
           /\ UNCHANGED <<moves, executing, offered, process, currentProcess, deskStop>>
<1>. DEFINE new == [job[j] EXCEPT !.at = then, !.ok = TRUE]
<1>1. job[j] \in UnderHand /\ job[j].at = "acting" /\ job[j].kind \in kinds
  BY AtIsUnderHand DEF Desktop!Touches, DeskInv, Desktop!InThread
<1>2. job' = [job EXCEPT ![j] = new] /\ touched' = [task |-> job[j], now |-> desk[job[j].window]]
      /\ UNCHANGED <<moves, executing, offered, process, currentProcess, deskStop>>
  BY DEF Desktop!Touches
<1>3. TaskIsInOrder(j) /\ SawTheBound(job[j])
  BY <1>1 DEF DeskInv, TasksAreInOrder, TaskIsInOrder
<1>4. /\ new \in UnderHand /\ new.at = then /\ new.cut = job[j].cut
      /\ new.kind = job[j].kind /\ new.argument = job[j].argument /\ new.window = job[j].window
  BY <1>1 DEF UnderHand, Desktop!InThread
<1>. HIDE DEF new
<1>5. OneMoves(j, new) /\ job'[j] = new /\ \A k \in Desktop!Jobs \ {j} : job'[k] = job[k]
  <2>1. OneMoves(j, new)
    BY <1>2, MovesOne DEF DeskInv
  <2>. QED BY <2>1 DEF OneMoves
<1>6. TasksAreInOrder' /\ AwaitedHasBegun'
  <2>1. TaskIsInOrder(j)'
    BY <1>1, <1>2, <1>3, <1>4, <1>5 DEF TaskIsInOrder, Desktop!InThread
  <2>2. new # Desktop!NoTask
    BY <1>4, NoTaskIsNone
  <2>. QED BY <1>1, <1>2, <1>4, <1>5, <2>1, <2>2, OthersInOrder, AwaitedKeeps
<1>7. NoSelectionCut' => NoSelectionCut
  BY <1>1, <1>4, <1>5, NoTaskIsNone DEF NoSelectionCut
<1>8. Desktop!OnlyTheBoundTarget'
  BY <1>2, <1>3 DEF Desktop!OnlyTheBoundTarget, SawTheBound
<1>9. Desktop!SelectedWasOffered'
  <2>1. touched'.task = job[j]
    BY <1>2
  <2>2. NoSelectionCut /\ job[j].kind = "number" => NumberIsOfList(j)
    BY <1>1 DEF DeskInv, OfferedIsRemembered
  <2>. QED BY <1>1, <1>7, <2>1, <2>2
       DEF Desktop!SelectedWasOffered, NoSelectionCut, Selections, NumberIsOfList
<1>10. job' \in [Desktop!Jobs -> UnderHand \cup Past \cup {Desktop!NoTask}]
  BY <1>2, <1>4 DEF DeskInv, DeskShape
<1>. QED BY <1>1, <1>2, <1>4, <1>5, <1>6, <1>7, <1>8, <1>9, <1>10

(* A write, a paste, a close and the opening of an item.                   *)
LEMMA TouchKeeps ==
    ASSUME DeskInv, NEW j \in Desktop!Jobs, NEW kinds, NEW then \in {"reading", "reporting"},
           Desktop!Touches(j, kinds, then), kinds \cap Selections = {}, UNCHANGED candidates,
           desk' \in [Windows -> View], front' \in Windows \cup {NoWindow}
    PROVE  DeskInv'
<1>1. DeskShape'
  BY TouchesInOrder DEF DeskInv, DeskShape
<1>2. OfferedIsRemembered'
  BY TouchesInOrder, MoveKeepsList, NoTaskIsNone DEF Selections
<1>. QED BY <1>1, <1>2, TouchesInOrder DEF DeskInv

LEMMA WritesKeeps ==
    ASSUME DeskInv, NEW j \in Desktop!Jobs, Desktop!Writes(j) PROVE DeskInv'
<1>. DEFINE w == job[j].window
<1>1. w \in Windows /\ desk[w] \in Opened
  <2>1. job[j] \in UnderHand
    BY TouchesInOrder DEF Desktop!Writes, Selections
  <2>. QED BY <2>1 DEF Desktop!Writes, Desktop!Is, UnderHand, DeskInv, DeskShape, View
<1>2. [desk[w] EXCEPT !.text = "dictated"] \in View
  BY <1>1 DEF View, Opened, Desktop!NoteTexts
<1>3. desk' \in [Windows -> View]
  BY <1>1, <1>2 DEF Desktop!Writes, DeskInv, DeskShape
<1>. QED BY <1>3, TouchKeeps DEF Desktop!Writes, Selections, DeskInv, DeskShape

LEMMA PastesOrOpensKeeps ==
    ASSUME DeskInv, NEW j \in Desktop!Jobs, Desktop!PastesOrOpens(j) PROVE DeskInv'
BY TouchKeeps DEF Desktop!PastesOrOpens, Selections, DeskInv, DeskShape

LEMMA CloseKeeps ==
    ASSUME DeskInv, NEW j \in Desktop!Jobs, NEW obeys \in BOOLEAN, Desktop!CloseIsPosted(j, obeys)
    PROVE  DeskInv'
<1>1. desk' \in [Windows -> View]
  BY DEF Desktop!CloseIsPosted, DeskInv, DeskShape, View
<1>2. front' \in Windows \cup {NoWindow}
  BY DEF Desktop!CloseIsPosted, DeskInv, DeskShape
<1>. QED BY <1>1, <1>2, TouchKeeps DEF Desktop!CloseIsPosted, Selections

LEMMA SelectsKeeps ==
    ASSUME DeskInv, NEW j \in Desktop!Jobs, Desktop!Selects(j) PROVE DeskInv'
<1>1. Desktop!Touches(j, Selections, "reporting") /\ candidates' = Nothing /\ UNCHANGED <<desk, front>>
  BY DEF Desktop!Selects, Selections
<1>2. DeskShape'
  BY <1>1, TouchesInOrder DEF DeskInv, DeskShape
<1>3. OfferedIsRemembered'
  <2>1. ASSUME NEW k \in Desktop!Jobs, job'[k] \in UnderHand, NoSelectionCut', job'[k].kind = "number"
        PROVE  NumberIsOfList(k)'
    <3>1. CASE k = j
      BY <1>1, <3>1, TouchesInOrder DEF NumberIsOfList
    <3>2. CASE k # j
      <4>1. job'[k] = job[k] /\ NoSelectionCut
        BY <1>1, <2>1, <3>2, TouchesInOrder DEF OneMoves
      <4>2. NumberIsOfList(k)
        BY <2>1, <4>1 DEF DeskInv, OfferedIsRemembered
      <4>. QED BY <1>1, <4>1, <4>2 DEF NumberIsOfList
    <3>. QED BY <3>1, <3>2
  <2>. QED BY <1>1, <2>1 DEF OfferedIsRemembered
<1>. QED BY <1>1, <1>2, <1>3, TouchesInOrder DEF DeskInv

(* The result of a search is told: what is remembered is what was told.    *)
LEMMA ReportsKeeps ==
    ASSUME DeskInv, NEW j \in Desktop!Jobs, Desktop!Reports(j) PROVE DeskInv'
<1>. DEFINE place == IF job[j].cut THEN "cancelled" ELSE "told"
            new == Desktop!Ended(j, place)
<1>1. job[j] \in UnderHand /\ job[j].at = "reporting"
  BY AtIsUnderHand DEF Desktop!Reports, DeskInv, Desktop!InThread
<1>2. /\ job' = [job EXCEPT ![j] = new] /\ touched' = Desktop!NoTouch
      /\ executing' = IF executing = j THEN NoJob ELSE executing
      /\ offered' = IF job[j].cut \/ ~job[j].ok \/ job[j].kind \notin Selections
                    THEN offered
                    ELSE IF job[j].seen = Desktop!Closed THEN job[j].listed ELSE Nothing
      /\ UNCHANGED <<desk, front, moves, candidates, process, currentProcess, deskStop>>
  BY DEF Desktop!Reports, Selections
<1>3. new \in Past /\ new.cut = job[j].cut /\ (job[j].cut => new.kind = job[j].kind)
      /\ new.at # "queued"
  BY <1>1, EndedIsPast
<1>4. new \notin UnderHand /\ new # Desktop!NoTask
  BY <1>3, PastIsNotUnderHand
<1>. HIDE DEF new
<1>5. OneMoves(j, new) /\ job'[j] = new /\ \A k \in Desktop!Jobs \ {j} : job'[k] = job[k]
  <2>1. OneMoves(j, new)
    BY <1>2, MovesOne DEF DeskInv
  <2>. QED BY <2>1 DEF OneMoves
<1>6. DeskShape'
  <2>1. job' \in [Desktop!Jobs -> UnderHand \cup Past \cup {Desktop!NoTask}]
    BY <1>2, <1>3 DEF DeskInv, DeskShape
  <2>2. offered' \in Desktop!Lists \cup {Nothing}
    BY <1>1, <1>2 DEF UnderHand, DeskInv, DeskShape
  <2>. QED BY <1>2, <2>1, <2>2 DEF DeskInv, DeskShape
<1>7. TasksAreInOrder' /\ AwaitedHasBegun'
  BY <1>2, <1>3, <1>4, <1>5, OthersInOrder, AwaitedKeeps, DeskAssumption DEF DeskInv, DeskShape
<1>8. NoSelectionCut' => NoSelectionCut
  BY <1>1, <1>3, <1>4, <1>5 DEF NoSelectionCut
<1>9. OfferedIsRemembered'
  <2>. SUFFICES ASSUME NoSelectionCut' PROVE OfferedIsRemembered'
    BY DEF OfferedIsRemembered
  <2>1. NoSelectionCut
    BY <1>8
  <2>2. ASSUME NEW k \in Desktop!Jobs, job'[k] \in UnderHand
        PROVE  /\ job'[k].kind = "number" => NumberIsOfList(k)'
               /\ job'[k].kind \in Selections /\ job'[k].at = "reporting" /\ job'[k].ok =>
                    candidates = Nothing \/ Remembered(k)'
    <3>1. job'[k] = job[k]
      BY <1>4, <1>5, <2>2
    <3>. QED BY <1>2, <2>1, <2>2, <3>1 DEF DeskInv, OfferedIsRemembered, NumberIsOfList, Remembered
  <2>3. ASSUME candidates # Nothing
        PROVE  offered' = candidates.list \/ (executing' # NoJob /\ Remembered(executing)')
    <3>1. offered = candidates.list \/ (executing # NoJob /\ Remembered(executing))
      BY <2>1, <2>3 DEF DeskInv, OfferedIsRemembered
    <3>2. job[j].kind \in Selections => executing = j /\ ~job[j].cut
      BY <1>1, <2>1, SelectionIsAwaited DEF Desktop!InThread
    <3>3. job[j].kind \in Selections /\ job[j].ok => Remembered(j)
      BY <1>1, <2>1, <2>3 DEF DeskInv, OfferedIsRemembered
    <3>4. CASE job[j].kind \in Selections /\ job[j].ok
      BY <1>2, <3>2, <3>3, <3>4 DEF Remembered
    <3>5. CASE ~(job[j].kind \in Selections /\ job[j].ok)
      <4>1. offered' = offered
        BY <1>2, <3>5
      <4>2. CASE executing = j
        BY <3>1, <3>5, <4>1, <4>2 DEF Remembered
      <4>3. CASE executing # j
        <5>1. executing' = executing
          BY <1>2, <4>3
        <5>2. executing # NoJob /\ Remembered(executing) => job'[executing] = job[executing]
          BY <1>5, <4>3 DEF DeskInv, DeskShape
        <5>. QED BY <1>2, <3>1, <4>1, <5>1, <5>2 DEF Remembered
      <4>. QED BY <4>2, <4>3
    <3>. QED BY <3>4, <3>5
  <2>4. candidates' = candidates
    BY <1>2
  <2>. QED BY <2>2, <2>3, <2>4 DEF OfferedIsRemembered
<1>10. Desktop!OnlyTheBoundTarget' /\ Desktop!SelectedWasOffered'
  BY <1>2 DEF Desktop!OnlyTheBoundTarget, Desktop!SelectedWasOffered, Desktop!NoTouch
<1>. QED BY <1>6, <1>7, <1>9, <1>10 DEF DeskInv

LEMMA MacroEndsKeeps ==
    ASSUME DeskInv, NEW j \in Desktop!Jobs, Desktop!MacroEnds(j) PROVE DeskInv'
<1>1. CASE ~Desktop!At(j, "in macro", {"macro"})
  <2>1. UNCHANGED <<desk, front, moves, job, executing, candidates, offered, currentProcess, deskStop, touched>>
        /\ process' = NoJob
    BY <1>1 DEF Desktop!MacroEnds
  <2>2. DeskShape'
    BY <2>1 DEF DeskInv, DeskShape
  <2>3. TasksAreInOrder' /\ AwaitedHasBegun' /\ OfferedIsRemembered' /\ (NoSelectionCut' => NoSelectionCut)
    BY <2>1 DEF DeskInv, TasksAreInOrder, TaskIsInOrder, AwaitedHasBegun, OfferedIsRemembered,
       NoSelectionCut, Remembered, NumberIsOfList
  <2>. QED BY <2>1, <2>2, <2>3, UntouchedKeeps DEF DeskInv
<1>2. CASE Desktop!At(j, "in macro", {"macro"})
  <2>. DEFINE new == Desktop!Ended(j, "told")
  <2>1. job[j] \in UnderHand /\ job[j].at = "in macro" /\ job[j].kind = "macro"
    <3>1. "in macro" \in Desktop!InThread \cup {"queued", "in macro"}
      OBVIOUS
    <3>2. job[j] \in UnderHand /\ job[j].at = "in macro" /\ job[j].kind \in {"macro"}
      BY <1>2, <3>1, AtIsUnderHand DEF DeskInv
    <3>. QED BY <3>2
  <2>2. /\ job' = [job EXCEPT ![j] = new] /\ process' = NoJob /\ currentProcess' = NoJob
        /\ executing' = NoJob /\ UNCHANGED <<desk, front, moves, candidates, offered, deskStop, touched>>
    BY <1>2 DEF Desktop!MacroEnds
  <2>3. new \in Past /\ new.cut = job[j].cut /\ (job[j].cut => new.kind = job[j].kind)
        /\ new.at # "queued" /\ new \notin UnderHand /\ new # Desktop!NoTask
    BY <2>1, EndedIsPast, PastIsNotUnderHand
  <2>. HIDE DEF new
  <2>4. OneMoves(j, new) /\ job'[j] = new /\ \A k \in Desktop!Jobs \ {j} : job'[k] = job[k]
    <3>1. OneMoves(j, new)
      BY <2>2, MovesOne DEF DeskInv
    <3>. QED BY <3>1 DEF OneMoves
  <2>5. executing = j
    BY <2>1 DEF DeskInv, TasksAreInOrder, TaskIsInOrder
  <2>6. DeskShape'
    BY <2>2, <2>3 DEF DeskInv, DeskShape
  <2>7. TasksAreInOrder' /\ AwaitedHasBegun'
    BY <2>2, <2>3, <2>4, <2>5, OthersInOrder, AwaitedKeeps, DeskAssumption
  <2>8. NoSelectionCut' => NoSelectionCut
    BY <2>1, <2>3, <2>4 DEF NoSelectionCut
  <2>9. OfferedIsRemembered'
    <3>. SUFFICES ASSUME NoSelectionCut' PROVE OfferedIsRemembered'
      BY DEF OfferedIsRemembered
    <3>1. candidates # Nothing => offered = candidates.list
      BY <2>1, <2>5, <2>8 DEF DeskInv, OfferedIsRemembered, Remembered
    <3>2. ASSUME NEW k \in Desktop!Jobs, job'[k] \in UnderHand PROVE job'[k] = job[k]
      BY <2>3, <2>4, <3>2
    <3>. QED BY <2>2, <2>8, <3>1, <3>2 DEF DeskInv, OfferedIsRemembered, NumberIsOfList, Remembered
  <2>. QED BY <2>2, <2>6, <2>7, <2>8, <2>9, UntouchedKeeps DEF DeskInv
<1>. QED BY <1>1, <1>2

LEMMA StopCancelsKeeps == ASSUME DeskInv, Desktop!StopCancels PROVE DeskInv'
<1>. DEFINE Held(k) == job[k] # Desktop!NoTask /\ job[k].at = "queued"
<1>1. /\ job' = [k \in Desktop!Jobs |-> IF Held(k) THEN Desktop!Ended(k, "cancelled") ELSE job[k]]
      /\ deskStop' = "cutting"
      /\ UNCHANGED <<desk, front, moves, executing, candidates, offered, process, currentProcess, touched>>
  BY DEF Desktop!StopCancels
<1>2. ASSUME NEW k \in Desktop!Jobs, Held(k)
      PROVE  job[k] \in UnderHand /\ job'[k] \in Past /\ job'[k] \notin UnderHand /\ ~job'[k].cut /\ ~job[k].cut
             /\ job'[k] # Desktop!NoTask /\ job'[k].at # "queued"
  <2>1. job[k] \in UnderHand
    BY <1>2 DEF DeskInv, DeskShape, Past
  <2>2. ~job[k].cut
    BY <1>2, <2>1 DEF DeskInv, TasksAreInOrder, TaskIsInOrder
  <2>3. job'[k] = Desktop!Ended(k, "cancelled")
    BY <1>1, <1>2
  <2>. QED BY <2>1, <2>2, <2>3, EndedIsPast, PastIsNotUnderHand
<1>3. ASSUME NEW k \in Desktop!Jobs, ~Held(k) PROVE job'[k] = job[k]
  BY <1>1, <1>3
<1>4. DeskShape'
  <2>1. \A k \in Desktop!Jobs : job'[k] \in UnderHand \cup Past \cup {Desktop!NoTask}
    BY <1>2, <1>3 DEF DeskInv, DeskShape
  <2>2. job' \in [Desktop!Jobs -> UnderHand \cup Past \cup {Desktop!NoTask}]
    BY <1>1, <2>1
  <2>. QED BY <1>1, <2>2 DEF DeskInv, DeskShape
<1>. HIDE DEF Held
<1>5. ASSUME NEW k \in Desktop!Jobs, job'[k] \in UnderHand PROVE job'[k] = job[k]
  BY <1>2, <1>3, <1>5
<1>6. TasksAreInOrder'
  BY <1>1, <1>5 DEF DeskInv, TasksAreInOrder, TaskIsInOrder
<1>7. AwaitedHasBegun'
  BY <1>1, <1>2, <1>3 DEF DeskInv, DeskShape, AwaitedHasBegun
<1>8. NoSelectionCut' => NoSelectionCut
  <2>. SUFFICES ASSUME NoSelectionCut', NEW k \in Desktop!Jobs, job[k] # Desktop!NoTask, job[k].cut
                PROVE  job[k].kind \notin Selections
    BY DEF NoSelectionCut
  <2>1. job'[k] = job[k]
    BY <1>2, <1>3
  <2>. QED BY <2>1 DEF NoSelectionCut
<1>9. OfferedIsRemembered'
  <2>. SUFFICES ASSUME NoSelectionCut' PROVE OfferedIsRemembered'
    BY DEF OfferedIsRemembered
  <2>1. executing # NoJob /\ Remembered(executing) => Remembered(executing)'
    <3>. SUFFICES ASSUME executing # NoJob, Remembered(executing) PROVE Remembered(executing)'
      OBVIOUS
    <3>1. executing \in Desktop!Jobs /\ job'[executing] = job[executing]
      BY <1>3 DEF Remembered, Held, DeskInv, DeskShape
    <3>. QED BY <1>1, <3>1 DEF Remembered
  <2>. QED BY <1>1, <1>5, <1>8, <2>1 DEF DeskInv, OfferedIsRemembered, NumberIsOfList, Remembered
<1>. QED BY <1>1, <1>4, <1>6, <1>7, <1>8, <1>9, UntouchedKeeps DEF DeskInv

LEMMA TaskIsCutKeeps == ASSUME DeskInv, Desktop!TaskIsCut PROVE DeskInv'
<1>1. CASE executing = NoJob
  <2>1. UNCHANGED <<desk, front, moves, job, executing, candidates, offered, process, touched>>
        /\ deskStop' = "joined" /\ currentProcess' = NoJob
    BY <1>1 DEF Desktop!TaskIsCut
  <2>2. DeskShape'
    BY <2>1 DEF DeskInv, DeskShape
  <2>3. TasksAreInOrder' /\ AwaitedHasBegun' /\ OfferedIsRemembered' /\ (NoSelectionCut' => NoSelectionCut)
    BY <2>1 DEF DeskInv, TasksAreInOrder, TaskIsInOrder, AwaitedHasBegun, OfferedIsRemembered,
       NoSelectionCut, Remembered, NumberIsOfList
  <2>. QED BY <2>1, <2>2, <2>3, UntouchedKeeps DEF DeskInv
<1>2. CASE executing # NoJob
  <2>. PICK j \in Desktop!Jobs : j = executing
    BY <1>2 DEF DeskInv, DeskShape
  <2>. DEFINE new == [job[j] EXCEPT !.cut = TRUE, !.at = IF @ = "in macro" THEN "cancelled" ELSE @]
  <2>1. j \in Desktop!Jobs /\ job[j] # Desktop!NoTask /\ job[j].at # "queued" /\ job[j] \in UnderHand \cup Past
    BY <1>2 DEF DeskInv, DeskShape, AwaitedHasBegun
  <2>2. /\ job' = [job EXCEPT ![j] = new] /\ executing' = NoJob
        /\ deskStop' = "joined" /\ currentProcess' = NoJob
        /\ UNCHANGED <<desk, front, moves, candidates, offered, process, touched>>
    BY <1>2 DEF Desktop!TaskIsCut
  <2>3. job[j] \in UnderHand =>
          /\ new \in UnderHand /\ new.kind = job[j].kind /\ new.argument = job[j].argument
          /\ new.window = job[j].window /\ new.ok = job[j].ok /\ new.seen = job[j].seen
          /\ new.bound = job[j].bound
          /\ new.at = (IF job[j].at = "in macro" THEN "cancelled" ELSE job[j].at)
    <3>. SUFFICES ASSUME job[j] \in UnderHand
         PROVE  /\ new \in UnderHand /\ new.kind = job[j].kind /\ new.argument = job[j].argument
                /\ new.window = job[j].window /\ new.ok = job[j].ok /\ new.seen = job[j].seen
                /\ new.bound = job[j].bound
                /\ new.at = (IF job[j].at = "in macro" THEN "cancelled" ELSE job[j].at)
      OBVIOUS
    <3>. DEFINE place == IF job[j].at = "in macro" THEN "cancelled" ELSE job[j].at
    <3>1. place \in Desktop!InThread \cup {"queued", "in macro", "cancelled"}
      BY DEF UnderHand
    <3>. HIDE DEF place
    <3>2. new = [job[j] EXCEPT !.cut = TRUE, !.at = place]
      BY DEF place
    <3>3. new \in UnderHand /\ new.at = place
      BY <3>1, <3>2 DEF UnderHand
    <3>4. /\ new.kind = job[j].kind /\ new.argument = job[j].argument
          /\ new.window = job[j].window /\ new.ok = job[j].ok /\ new.seen = job[j].seen
          /\ new.bound = job[j].bound
      BY <3>2 DEF UnderHand
    <3>. QED BY <3>3, <3>4 DEF place
  <2>4. job[j] \in Past => new \in Past /\ new.kind = job[j].kind
    BY DEF Past
  <2>5. new.cut /\ new.at # "queued"
    BY <2>1, <2>3, <2>4 DEF UnderHand, Past
  <2>6. new # Desktop!NoTask
    BY <2>1, <2>3, <2>4, NoTaskIsNone, PastIsNotUnderHand
  <2>. HIDE DEF new
  <2>7. OneMoves(j, new) /\ job'[j] = new /\ \A k \in Desktop!Jobs \ {j} : job'[k] = job[k]
    <3>1. OneMoves(j, new)
      BY <2>1, <2>2, MovesOne DEF DeskInv
    <3>. QED BY <2>1, <3>1 DEF OneMoves
  <2>8. DeskShape'
    <3>1. new \in UnderHand \cup Past
      BY <2>1, <2>3, <2>4
    <3>. QED BY <2>1, <2>2, <3>1 DEF DeskInv, DeskShape
  <2>9. new \in UnderHand => job[j] \in UnderHand
    BY <2>1, <2>4, PastIsNotUnderHand
  <2>10. TasksAreInOrder' /\ AwaitedHasBegun'
    <3>1. new \in UnderHand => TaskIsInOrder(j)'
      <4>. SUFFICES ASSUME new \in UnderHand PROVE TaskIsInOrder(j)'
        OBVIOUS
      <4>1. TaskIsInOrder(j)
        BY <2>1, <2>9 DEF DeskInv, TasksAreInOrder
      <4>2. /\ new.kind = job[j].kind /\ new.argument = job[j].argument /\ new.window = job[j].window
            /\ new.ok = job[j].ok /\ new.seen = job[j].seen /\ new.bound = job[j].bound
            /\ new.cut /\ new.at # "queued" /\ new.at # "in macro"
            /\ (new.at = job[j].at \/ new.at = "cancelled")
        BY <2>3, <2>5, <2>9
      <4>3. SawTheBound(job[j]) => SawTheBound(new)
        BY <4>2 DEF SawTheBound
      <4>4. job'[j] = new
        BY <2>7
      <4>. QED BY <4>1, <4>2, <4>3, <4>4 DEF TaskIsInOrder, Desktop!InThread
    <3>2. \A k \in Desktop!Jobs \ {j} : job[k] \in UnderHand /\ executing = k => executing' = k
      OBVIOUS
    <3>3. executing' = NoJob /\ j # NoJob
      BY <1>2, <2>2
    <3>. QED BY <2>1, <2>7, <3>1, <3>2, <3>3, OthersInOrder, AwaitedKeeps
  <2>11. NoSelectionCut' => NoSelectionCut /\ job[j].kind \notin Selections
    <3>1. NoSelectionCut' => new.kind \notin Selections
      BY <2>1, <2>5, <2>6, <2>7 DEF NoSelectionCut
    <3>2. new.kind = job[j].kind
      BY <2>1, <2>3, <2>4
    <3>. QED BY <2>7, <3>1, <3>2 DEF NoSelectionCut
  <2>12. OfferedIsRemembered'
    <3>. SUFFICES ASSUME NoSelectionCut' PROVE OfferedIsRemembered'
      BY DEF OfferedIsRemembered
    <3>1. candidates # Nothing => offered = candidates.list
      BY <2>11 DEF DeskInv, OfferedIsRemembered, Remembered
    <3>2. ASSUME NEW k \in Desktop!Jobs, job'[k] \in UnderHand, job'[k].kind \in Selections
          PROVE  job'[k] = job[k]
      <4>1. k # j
        BY <2>1, <2>3, <2>4, <2>7, <2>11, <3>2
      <4>. QED BY <2>7, <4>1
    <3>3. "number" \in Selections
      BY DEF Selections
    <3>. QED BY <2>2, <2>11, <3>1, <3>2, <3>3 DEF DeskInv, OfferedIsRemembered, NumberIsOfList, Remembered
  <2>. QED BY <2>2, <2>8, <2>10, <2>11, <2>12, UntouchedKeeps DEF DeskInv
<1>. QED BY <1>1, <1>2

LEMMA ActionsStopKeeps == ASSUME DeskInv, Desktop!ActionsStop PROVE DeskInv'
<1>1. UNCHANGED <<desk, front, moves, job, executing, candidates, offered, touched>>
      /\ deskStop' = "done" /\ currentProcess' = NoJob /\ process' \in Desktop!Jobs \cup {NoJob}
  BY DEF Desktop!ActionsStop, DeskInv, DeskShape
<1>2. DeskShape'
  BY <1>1 DEF DeskInv, DeskShape
<1>3. TasksAreInOrder' /\ AwaitedHasBegun' /\ OfferedIsRemembered' /\ (NoSelectionCut' => NoSelectionCut)
  BY <1>1 DEF DeskInv, TasksAreInOrder, TaskIsInOrder, AwaitedHasBegun, OfferedIsRemembered,
     NoSelectionCut, Remembered, NumberIsOfList
<1>. QED BY <1>1, <1>2, <1>3, UntouchedKeeps DEF DeskInv

LEMMA DeskNext == ASSUME DeskInv, [Desktop!Next]_DesktopState PROVE DeskInv'
<1>1. CASE UNCHANGED DesktopState
  <2>1. UNCHANGED <<desk, front, moves, job, executing, candidates, offered, process, currentProcess, deskStop, touched>>
    BY <1>1 DEF DesktopState
  <2>2. DeskShape'
    BY <2>1 DEF DeskInv, DeskShape
  <2>3. TasksAreInOrder' /\ AwaitedHasBegun' /\ OfferedIsRemembered' /\ (NoSelectionCut' => NoSelectionCut)
    BY <2>1 DEF DeskInv, TasksAreInOrder, TaskIsInOrder, AwaitedHasBegun, OfferedIsRemembered,
       NoSelectionCut, Remembered, NumberIsOfList
  <2>. QED BY <2>1, <2>2, <2>3, UntouchedKeeps DEF DeskInv
<1>2. ASSUME NEW j \in Desktop!Jobs, Desktop!JobGoesOn(j) PROVE DeskInv'
  <2>1. \/ Desktop!Executed(j) \/ Desktop!ConfirmationVoided(j) \/ Desktop!ChecksAndFails(j) \/ Desktop!Checks(j)
        \/ \E list \in Desktop!Lists : Desktop!Remembers(j, list)
        \/ Desktop!Writes(j) \/ Desktop!PastesOrOpens(j) \/ \E obeys \in BOOLEAN : Desktop!CloseIsPosted(j, obeys)
        \/ Desktop!Selects(j) \/ Desktop!TouchFails(j) \/ Desktop!ReadsBack(j) \/ Desktop!Reports(j)
    BY <1>2 DEF Desktop!JobGoesOn
  <2>. QED BY <2>1, ExecutedKeeps, VoidedKeeps, GivesUpKeeps, ChecksKeeps, RemembersKeeps, WritesKeeps,
              PastesOrOpensKeeps, CloseKeeps, SelectsKeeps, ReadsBackKeeps, ReportsKeeps
<1>3. ASSUME Desktop!Next PROVE DeskInv'
  <2>1. CASE \E j \in Desktop!Jobs :
               \/ \E kind \in Desktop!Kinds : \E argument \in Desktop!Arguments(kind) : Desktop!Submitted(j, kind, argument)
               \/ job[j] # Desktop!NoTask /\ (Desktop!JobGoesOn(j) \/ Desktop!MacroEnds(j))
    BY <1>2, <2>1, SubmittedKeeps, MacroEndsKeeps
  <2>2. CASE Desktop!StopCancels \/ Desktop!TaskIsCut \/ Desktop!ActionsStop
    BY <2>2, StopCancelsKeeps, TaskIsCutKeeps, ActionsStopKeeps
  <2>3. CASE \/ \E w \in Windows : Desktop!UserFocuses(w) \/ \E p \in Desktop!Programs : Desktop!UserReopens(w, p)
             \/ Desktop!UserTypes \/ \E i \in Items : Desktop!UserRemoves(i)
    BY <2>3, UsersKeep
  <2>. QED BY <1>3, <2>1, <2>2, <2>3 DEF Desktop!Next
<1>. QED BY <1>1, <1>3

(* A step of the composition is a step or a stutter of the desktop.        *)
LEMMA DeskMoves == [ServicesNext]_serviceVars => [Desktop!Next]_DesktopState
BY DEF ServicesNext, serviceVars, TurnStep, RoutingStep, CapabilityStep, ModelStep, DesktopStep,
       CommitmentStep, ListenerStep, ServiceState

(* Documentation (actions.py): a note is replaced, a window closed and an  *)
(* item opened only where the command was bound, and the first means the   *)
(* first of the list that was told last, whatever the user does meanwhile. *)
THEOREM OnlyTheMeant == ServicesSpec => []OnlyWhatWasMeant
<1>1. ServicesInit => DeskInv
  BY DeskInit DEF ServicesInit
<1>2. DeskInv /\ [ServicesNext]_serviceVars => DeskInv'
  BY DeskMoves, DeskNext
<1>3. DeskInv => OnlyWhatWasMeant
  BY DEF DeskInv, OnlyWhatWasMeant, Moved
<1>. QED BY <1>1, <1>2, <1>3, PTL DEF ServicesSpec
================================================================================
