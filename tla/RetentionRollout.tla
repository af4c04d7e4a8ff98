--------------------------- MODULE RetentionRollout ---------------------------
(***************************************************************************)
(* When the retention worker may begin to delete (app.py,                  *)
(* _configure_retention_rollout and _run_private_data_retention_worker).   *)
(* The mode is a setting read at the start; app_state keeps the mode of    *)
(* the last start and the moment from which the grace period counts. The   *)
(* two are written one after the other, and the process may end between.   *)
(***************************************************************************)
EXTENDS Naturals

CONSTANTS
    Grace,          \* settings.private_data_rollout_grace_days
    MaxDays         \* bound on time, and on starts

VARIABLES
    mode,           \* the setting this process was started with
    savedMode,      \* retention.prune_mode
    savedAnchor,    \* retention.prune_destructive_enabled_at
    anchor,         \* services.retention.rollout_started_at
    startup,        \* where the start is: "down", "read", "anchored", "up"
    day,
    starts,
    agreed,         \* history: since when every start was a destructive one
    deletions       \* how many iterations really deleted

rolloutVars == <<mode, savedMode, savedAnchor, anchor, startup, day, starts, agreed, deletions>>

Modes == {"disabled", "dry_run", "destructive"}
Days == 0..MaxDays
Never == MaxDays + 1

RolloutStart ==
    /\ mode \in Modes /\ savedMode = "none" /\ savedAnchor = Never
    /\ anchor = Never /\ startup = "down" /\ day = 0 /\ starts = 0
    /\ agreed = Never /\ deletions = 0

RolloutTypeOK ==
    /\ mode \in Modes /\ savedMode \in Modes \cup {"none"}
    /\ {savedAnchor, anchor, agreed} \subseteq Days \cup {Never}
    /\ startup \in {"down", "read", "anchored", "up"}
    /\ day \in Days /\ starts \in 0..MaxDays /\ deletions \in Days

DayPasses ==
    /\ day < MaxDays /\ day' = day + 1
    /\ UNCHANGED <<mode, savedMode, savedAnchor, anchor, startup, starts, agreed, deletions>>

(* The anchor of an unbroken series of destructive starts is kept, every   *)
(* other start takes the moment.                                           *)
AnchorFor(m) ==
    IF m = "destructive" /\ savedMode = "destructive" /\ savedAnchor # Never
    THEN savedAnchor ELSE day

RolloutRead(m) ==
    /\ startup = "down" /\ starts < MaxDays
    /\ mode' = m /\ anchor' = AnchorFor(m)
    /\ startup' = "read" /\ starts' = starts + 1
    /\ agreed' = IF m = "destructive" /\ agreed = Never THEN day ELSE agreed
    /\ UNCHANGED <<savedMode, savedAnchor, day, deletions>>

AnchorSaved ==
    /\ startup = "read" /\ startup' = "anchored"
    /\ savedAnchor' = IF mode = "destructive" THEN anchor ELSE savedAnchor
    /\ UNCHANGED <<mode, savedMode, anchor, day, starts, agreed, deletions>>

(* Mutant: a start that does not delete leaves no trace.                   *)
OnlyActiveModeSaved ==
    /\ startup = "anchored" /\ startup' = "up"
    /\ savedMode' = IF mode = "disabled" THEN savedMode ELSE mode
    /\ agreed' = IF mode = "destructive" THEN agreed ELSE Never
    /\ UNCHANGED <<mode, savedAnchor, anchor, day, starts, deletions>>

ModeSaved ==
    /\ startup = "anchored" /\ startup' = "up"
    /\ savedMode' = mode
    /\ agreed' = IF mode = "destructive" THEN agreed ELSE Never
    /\ UNCHANGED <<mode, savedAnchor, anchor, day, starts, deletions>>

(* An iteration of the worker; it counts rows where it may not delete.     *)
RetentionIterates ==
    /\ startup = "up" /\ mode = "destructive"
    /\ day >= anchor + Grace /\ deletions < MaxDays
    /\ deletions' = deletions + 1
    /\ UNCHANGED <<mode, savedMode, savedAnchor, anchor, startup, day, starts, agreed>>

ProcessEnds ==
    /\ startup # "down" /\ startup' = "down"
    /\ UNCHANGED <<mode, savedMode, savedAnchor, anchor, day, starts, agreed, deletions>>

RolloutNext ==
    \/ DayPasses \/ AnchorSaved \/ ModeSaved \/ RetentionIterates \/ ProcessEnds
    \/ \E m \in Modes : RolloutRead(m)

RolloutSpec == RolloutStart /\ [][RolloutNext]_rolloutVars

-----------------------------------------------------------------------------
(* Destructive pruning "always receives a fresh grace": what is deleted is *)
(* deleted after the grace period of the present series of destructive     *)
(* starts, however often the process was started, stopped or switched.     *)
FreshGrace ==
    [][deletions' # deletions => agreed # Never /\ day >= agreed + Grace]_rolloutVars
=============================================================================
