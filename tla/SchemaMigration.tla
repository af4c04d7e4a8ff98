---------------------------- MODULE SchemaMigration ----------------------------
(***************************************************************************)
(* The start of the store (memory.py, initialize): one connection brings a *)
(* database of any earlier release to the current schema, statement by     *)
(* statement. DDL outside a transaction is on disk at once; the first      *)
(* INSERT opens a transaction that later statements join until a commit    *)
(* (executescript, the end of the with). The process may die, or a         *)
(* statement fail, between any two; what was not committed is gone and the *)
(* next start begins again from the disk.                                  *)
(***************************************************************************)
EXTENDS Naturals, Sequences, SequencesExt

CONSTANTS
    OldTables,      \* sets of tables an earlier release may have left
    OldColumns,     \* sets of later columns it may have had already
    Rows            \* rows the old shadow table may hold

VARIABLES
    disk,           \* what a crash leaves
    seen,           \* what the connection sees
    open,           \* it is inside a transaction
    at,             \* the next statement of Script, or Down, or Up
    copied,         \* rows of the old table read before it was renamed
    given           \* history: the rows there were

vars == <<disk, seen, open, at, copied, given>>

-----------------------------------------------------------------------------
(* Tables by the part of the script that makes them, and the columns later *)
(* releases added. The shadow table's old form is told by its key.         *)
CommandTables == {"commands", "command_events", "command_transcripts", "conversation"}
ShadowTables == {"shadow", "traces"}
RecordTables == {"memories", "app_state", "screenpipe_meeting_jobs", "screenpipe_transcripts"}
MeetingTables == {"meeting_sessions", "meeting_transcript_segments", "meeting_audio_files"}
ContextTables == {"vector_memories", "local_path_history", "context_events", "context_episodes",
                  "context_entities", "context_entity_aliases", "context_entity_candidates"}
Tables == CommandTables \cup ShadowTables \cup RecordTables \cup MeetingTables \cup ContextTables

FtsTables == {"context_events_fts", "context_episodes_fts"}

Expiring == <<"commands", "command_events", "command_transcripts", "conversation",
              "screenpipe_transcripts", "meeting_sessions", "meeting_transcript_segments",
              "meeting_audio_files">>
Late == {<<"meeting_transcript_segments", "emotion_json">>, <<"conversation", "session_id">>,
         <<"commands", "client_created_at">>}
        \cup {<<t, "expires_at">> : t \in ToSet(Expiring)}
        \cup {<<"traces", c>> : c \in {"time_precision", "time_relation", "epistemic_role",
                                       "relevance_gate"}}
ColumnsOf(t) == {c \in Late : c[1] = t}

-----------------------------------------------------------------------------
(* The statements in the order of the code.                                *)
Stmt(do, what) == [do |-> do, what |-> what]
Columns(pairs) == [i \in 1..Len(pairs) |-> Stmt("column", pairs[i])]
Indexes(pairs) == [i \in 1..Len(pairs) |-> Stmt("index", pairs[i])]

TableScript == <<Stmt("tables", CommandTables), Stmt("tables", ShadowTables),
                 Stmt("tables", RecordTables), Stmt("tables", MeetingTables),
                 Stmt("tables", ContextTables), Stmt("fts", FtsTables)>>

ColumnScript ==
    Columns(<<<<"meeting_transcript_segments", "emotion_json">>, <<"conversation", "session_id">>>>
            \o [i \in 1..Len(Expiring) |-> <<Expiring[i], "expires_at">>]
            \o <<<<"commands", "client_created_at">>>>)

(* Mutant: the old table is dropped as soon as its rows are in memory.     *)
DropsFirst == <<Stmt("rename", {}), Stmt("drop", {}), Stmt("remake", {}), Stmt("copy", {})>>

(* From the read of the old rows to the drop of the table they were in.    *)
MoveScript == <<Stmt("rename", {}), Stmt("remake", {}), Stmt("copy", {}), Stmt("drop", {})>>

TraceScript == Columns(<<<<"traces", "time_precision">>, <<"traces", "time_relation">>,
                         <<"traces", "epistemic_role">>, <<"traces", "relevance_gate">>>>)

(* Indexes over late columns; the others are over columns that were always *)
(* there and are not told apart.                                           *)
IndexScript ==
    Indexes(<<<<"conversation", "session_id">>>>) \o <<Stmt("commit", {})>>
    \o Indexes(<<<<"commands", "expires_at">>, <<"conversation", "expires_at">>,
                 <<"screenpipe_transcripts", "expires_at">>,
                 <<"meeting_transcript_segments", "expires_at">>,
                 <<"meeting_audio_files", "expires_at">>, <<"meeting_sessions", "expires_at">>>>)

Schema == TableScript \o ColumnScript \o MoveScript \o TraceScript \o IndexScript
Script == Schema \o <<Stmt("policy", {}), Stmt("commit", {})>>

-----------------------------------------------------------------------------
NoDisk == [tables |-> {}, columns |-> {}, old |-> FALSE, main |-> {}, legacy |-> {},
           policy |-> FALSE]
Down == 0
Up == Len(Script) + 1

(* An earlier database: tables, some of the later columns of each, and the *)
(* shadow table in its old form, or not yet.                               *)
Init ==
    /\ \E tables \in OldTables, columns \in OldColumns, old \in BOOLEAN, rows \in SUBSET Rows :
         /\ rows # {} => old
         /\ old => "shadow" \in tables
         /\ disk = [NoDisk EXCEPT !.tables = tables, !.old = old, !.main = rows,
                                  !.columns = {c \in columns : c[1] \in tables}]
         /\ given = rows
    /\ seen = disk /\ open = FALSE /\ at = Down /\ copied = {}

Opens ==
    /\ at \in {Down, Up} /\ at' = 1 /\ seen' = disk /\ open' = FALSE /\ copied' = {}
    /\ UNCHANGED <<disk, given>>

AtStmt(do) == at \in DOMAIN Script /\ Script[at].do = do
Advances == at' = at + 1 /\ UNCHANGED given

(* A statement that changes the schema joins a transaction, opens none.    *)
Alters(new) ==
    /\ seen' = new /\ disk' = (IF open THEN disk ELSE new) /\ UNCHANGED open
    /\ Advances

(* A statement that writes rows opens one.                                 *)
Writes(new) == seen' = new /\ open' = TRUE /\ UNCHANGED disk /\ Advances

CreateTables ==
    /\ AtStmt("tables")
    /\ LET new == Script[at].what \ seen.tables
       IN Alters([seen EXCEPT !.tables = @ \cup new,
                              !.columns = @ \cup UNION {ColumnsOf(t) : t \in new}])
    /\ UNCHANGED copied

(* A build of SQLite without FTS5 refuses these, and the start goes on.    *)
CreateFts ==
    /\ AtStmt("fts")
    /\ \/ Alters([seen EXCEPT !.tables = @ \cup FtsTables])
       \/ Alters(seen)
    /\ UNCHANGED copied

AddColumn ==
    /\ AtStmt("column")
    /\ Alters([seen EXCEPT !.columns = @ \cup {Script[at].what}]) /\ UNCHANGED copied

(* An index over a column that is not there is an error (StartsAreCurrent: *)
(* it never happens); the other errors of a statement are Dies.            *)
CreateIndex ==
    /\ AtStmt("index") /\ Script[at].what \in seen.columns
    /\ Alters(seen) /\ UNCHANGED copied

RenameOld ==
    /\ AtStmt("rename") /\ seen.old /\ copied' = seen.main
    /\ Alters([seen EXCEPT !.old = FALSE, !.tables = @ \ {"shadow"}, !.main = {},
                           !.legacy = seen.main])

(* The table has the current key: the whole block is left out.             *)
NothingToMove ==
    /\ AtStmt("rename") /\ ~seen.old /\ at' = at + Len(MoveScript)
    /\ UNCHANGED <<disk, seen, open, copied, given>>

RemakeTable ==
    /\ AtStmt("remake") /\ Alters([seen EXCEPT !.tables = @ \cup {"shadow"}]) /\ UNCHANGED copied

CopyRows ==
    /\ AtStmt("copy")
    /\ \/ copied = {} /\ Alters(seen)
       \/ copied # {} /\ Writes([seen EXCEPT !.main = copied])
    /\ UNCHANGED copied

DropLegacy ==
    /\ AtStmt("drop") /\ Alters([seen EXCEPT !.legacy = {}]) /\ UNCHANGED copied

Commit ==
    /\ AtStmt("commit") /\ disk' = seen /\ open' = FALSE /\ Advances
    /\ UNCHANGED <<seen, copied>>

(* ON CONFLICT DO NOTHING: the policy of the first start stays.            *)
SetPolicy == AtStmt("policy") /\ Writes([seen EXCEPT !.policy = TRUE]) /\ UNCHANGED copied

(* The end of the process, or sqlite3.OperationalError ("database is       *)
(* locked", a full disk) out of any statement: the with rolls back.        *)
Dies ==
    /\ at # Down /\ at' = Down /\ seen' = disk /\ open' = FALSE
    /\ copied' = {} /\ UNCHANGED <<disk, given>>

Next ==
    \/ Opens \/ CreateTables \/ CreateFts \/ AddColumn \/ CreateIndex \/ RenameOld \/ NothingToMove
    \/ RemakeTable \/ CopyRows \/ DropLegacy \/ Commit \/ SetPolicy \/ Dies

Spec == Init /\ [][Next]_vars

-----------------------------------------------------------------------------
(* The variables have the shape of the code's state.                       *)
SchemaTypeOK ==
    /\ \A d \in {disk, seen} :
         /\ d.tables \subseteq Tables \cup FtsTables /\ d.columns \subseteq Late
         /\ d.main \subseteq Rows /\ d.legacy \subseteq Rows
         /\ d.old \in BOOLEAN /\ d.policy \in BOOLEAN
    /\ open \in BOOLEAN /\ copied \subseteq Rows /\ given \subseteq Rows
    /\ at \in Down..Up

(* Whatever statement a start dies at (memory.py:633-704), each row of the *)
(* old shadow table is on disk, in the table or in the one put aside: the  *)
(* drop is never on disk before the copies are.                            *)
NoRowIsLost == given \subseteq disk.main \cup disk.legacy

(* From whatever an earlier release or a start that died left, no index    *)
(* meets a table without its column (memory.py:731-752 come after 598-626) *)
(* and a start that reaches its end has the whole current schema.          *)
StartsAreCurrent ==
    /\ AtStmt("index") => Script[at].what \in seen.columns
    /\ at = Up => /\ Tables \subseteq disk.tables /\ disk.columns = Late
                    /\ ~disk.old /\ disk.policy /\ ~open

=============================================================================
