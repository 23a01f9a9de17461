----------------------------- MODULE StoreCommands -----------------------------
(***************************************************************************)
(* The commands of the store and what each does to the database, statement *)
(* by statement: the methods of Store are grouped as the source groups     *)
(* them, by the tables they are about.  Every statement commits by itself, *)
(* there is no transaction around a command.  Columns and values are left  *)
(* out: a statement is what it does to a table, and an UPDATE that matches *)
(* no row counts as one.                                                   *)
(***************************************************************************)
EXTENDS Integers, Sequences

Read(t) == [op |-> "read", on |-> t]
Insert(t) == [op |-> "insert", on |-> t]
Update(t) == [op |-> "update", on |-> t]
Delete(t) == [op |-> "delete", on |-> t]
\* Bug: what was looked up is not used.
LookNothing(t) == [op |-> "read", on |-> t]

\* A SELECT of a row by its key that decides what follows, and what follows it.
Look(t) == [op |-> "look", on |-> t]
UpdateFound(t) == [op |-> "update_found", on |-> t]
InsertAbsent(t) == [op |-> "insert_absent", on |-> t]

\* What is looked for must be there, or the command ends: a pending approval.
Demanding(st) == st.op = "look" /\ st.on = "approvals"

\* Tables in which no two rows have the same key: UNIQUE.
UniqueKeys == {"projects", "blobs", "terminals"}

\* The tables a statement changes: triggers keep the indexes of two tables, after an
\* insert and after a delete.
Indexes(t) == CASE t = "observations" -> {"observations_fts"}
                [] t = "memories" -> {"memories_fts"}
                [] OTHER -> {}
Triggered(st) == {st.on} \cup IF st.op \in {"insert", "delete"} THEN Indexes(st.on) ELSE {}

\* The tables of MIGRATIONS, by the version that creates them.
EarlyTables ==
    << {"events"},
       {"projects", "work_sessions", "observations"},
       {"memories", "pushbacks", "disclosures", "api_calls", "metrics_daily",
        "observations_fts", "memories_fts", "vec_observations", "vec_memories"} >>
LateTables ==
    << {"approvals", "actions", "agent_runs", "blobs"},
       {"pins"}, {"retention_status"}, {"voice_utterances"},
       {"terminals", "dotfile_edits"} >>
Migrations == EarlyTables \o LateTables
Latest == Len(Migrations)
TablesOf(version) == UNION {Migrations[v] : v \in 1 .. version}
Tables == TablesOf(Latest)

-------------------------------------------------------------------------------
(* The methods of Store.                                                    *)

EventCalls == {"append", "recent", "count", "upsert_project", "list_projects",
               "add_observation", "recent_observations"}
SessionCalls == {"session_open", "session_touch", "session_close", "recent_sessions",
                 "open_sessions"}
MemoryCalls == {"add_memory", "update_memory_confidence", "archive_memory", "list_memories",
                "fts_observations", "fts_memories", "unembedded_observations"}
EmbeddingCalls == {"set_observation_embedding", "set_memory_embedding",
                   "all_observation_embeddings", "all_memory_embeddings",
                   "observations_by_ids"}
CriticCalls == {"insert_pushback", "recent_pushbacks", "get_pushback", "pushback_feedback",
                "pushbacks_since", "insert_api_call", "insert_disclosure",
                "recent_disclosures"}
JobCalls == {"closed_sessions_without_summary", "set_session_summary",
             "observations_between", "delete_observations_older_than",
             "delete_api_calls_older_than"}
ApprovalCalls == {"insert_approval", "pending_approvals", "get_approval", "decide_approval",
                  "set_approval_execution", "expire_approvals"}
RunCalls == {"insert_agent_run", "update_agent_run_status", "recent_agent_runs",
             "get_agent_run", "insert_blob", "get_blob", "get_project_by_id"}
PinCalls == {"insert_pin", "insert_pin_with_id", "list_pins", "get_pin", "expire_pins",
             "delete_pin", "get_retention_status", "set_retention_status",
             "insert_voice_utterance", "recent_voice_utterances"}
TerminalCalls == {"upsert_terminal", "list_terminals", "get_terminal",
                  "insert_dotfile_edit", "recent_dotfile_edits", "get_dotfile_edit",
                  "mark_dotfile_edit_reverted"}

EarlyCommands == EventCalls \cup SessionCalls \cup MemoryCalls \cup EmbeddingCalls
                     \cup CriticCalls
LateCommands == JobCalls \cup ApprovalCalls \cup RunCalls \cup PinCalls \cup TerminalCalls
Commands == EarlyCommands \cup LateCommands

-------------------------------------------------------------------------------
(* What the store thread executes for each.                                 *)

EventStatements(name) ==
    CASE name = "append" -> <<Insert("events")>>
      [] name \in {"recent", "count"} -> <<Read("events")>>
      [] name = "upsert_project" ->
            <<Look("projects"), UpdateFound("projects"), InsertAbsent("projects")>>
      [] name = "list_projects" -> <<Read("projects")>>
      [] name = "add_observation" -> <<Insert("observations")>>
      [] name = "recent_observations" -> <<Read("observations")>>

SessionStatements(name) ==
    CASE name = "session_open" -> <<Insert("work_sessions")>>
      [] name \in {"session_touch", "session_close"} -> <<Update("work_sessions")>>
      [] name \in {"recent_sessions", "open_sessions"} -> <<Read("work_sessions")>>

MemoryStatements(name) ==
    CASE name = "add_memory" -> <<Insert("memories")>>
      [] name \in {"update_memory_confidence", "archive_memory"} -> <<Update("memories")>>
      [] name = "list_memories" -> <<Read("memories")>>
      [] name = "fts_observations" -> <<Read("observations_fts")>>
      [] name = "fts_memories" -> <<Read("memories_fts")>>
      [] name = "unembedded_observations" -> <<Read("observations")>>

EmbeddingStatements(name) ==
    CASE name = "set_observation_embedding" -> <<Insert("vec_observations")>>
      [] name = "set_memory_embedding" -> <<Insert("vec_memories")>>
      [] name = "all_observation_embeddings" -> <<Read("vec_observations")>>
      [] name = "all_memory_embeddings" -> <<Read("vec_memories")>>
      [] name = "observations_by_ids" -> <<Read("observations")>>

CriticStatements(name) ==
    CASE name = "insert_pushback" -> <<Insert("pushbacks")>>
      [] name \in {"recent_pushbacks", "get_pushback", "pushbacks_since"} ->
            <<Read("pushbacks")>>
      [] name = "pushback_feedback" -> <<Update("pushbacks")>>
      [] name = "insert_api_call" -> <<Insert("api_calls")>>
      [] name = "insert_disclosure" -> <<Insert("disclosures")>>
      [] name = "recent_disclosures" -> <<Read("disclosures")>>

\* The embeddings of a batch go one statement each, then its rows in one.
JobStatements(name) ==
    CASE name = "closed_sessions_without_summary" -> <<Read("work_sessions")>>
      [] name = "set_session_summary" -> <<Update("work_sessions")>>
      [] name = "observations_between" -> <<Read("observations")>>
      [] name = "delete_observations_older_than" ->
            <<Read("observations"), Delete("vec_observations"), Delete("observations")>>
      [] name = "delete_api_calls_older_than" -> <<Read("api_calls"), Delete("api_calls")>>

ApprovalStatements(name) ==
    CASE name = "insert_approval" -> <<Insert("approvals")>>
      [] name \in {"pending_approvals", "get_approval"} -> <<Read("approvals")>>
      [] name = "decide_approval" ->
            <<Look("approvals"), UpdateFound("approvals"), Read("approvals")>>
      [] name \in {"set_approval_execution", "expire_approvals"} -> <<Update("approvals")>>

RunStatements(name) ==
    CASE name = "insert_agent_run" -> <<Insert("agent_runs")>>
      [] name = "update_agent_run_status" -> <<Update("agent_runs")>>
      [] name \in {"recent_agent_runs", "get_agent_run"} -> <<Read("agent_runs")>>
      [] name = "insert_blob" -> <<Look("blobs"), InsertAbsent("blobs")>>
      [] name = "get_blob" -> <<Read("blobs")>>
      [] name = "get_project_by_id" -> <<Read("projects")>>

PinStatements(name) ==
    CASE name \in {"insert_pin", "insert_pin_with_id"} -> <<Insert("pins")>>
      [] name \in {"list_pins", "get_pin"} -> <<Read("pins")>>
      [] name = "expire_pins" -> <<Read("pins"), Delete("pins")>>
      [] name = "delete_pin" -> <<Delete("pins")>>
      [] name = "get_retention_status" -> <<Read("retention_status")>>
      [] name = "set_retention_status" -> <<Insert("retention_status")>>
      [] name = "insert_voice_utterance" -> <<Insert("voice_utterances")>>
      [] name = "recent_voice_utterances" -> <<Read("voice_utterances")>>

TerminalStatements(name) ==
    CASE name = "upsert_terminal" ->
            <<Look("terminals"), UpdateFound("terminals"), InsertAbsent("terminals")>>
      [] name \in {"list_terminals", "get_terminal"} -> <<Read("terminals")>>
      [] name = "insert_dotfile_edit" -> <<Insert("dotfile_edits")>>
      [] name \in {"recent_dotfile_edits", "get_dotfile_edit"} -> <<Read("dotfile_edits")>>
      [] name = "mark_dotfile_edit_reverted" ->
            <<Update("dotfile_edits"), Read("dotfile_edits")>>

Statements(name) ==
    CASE name \in EventCalls -> EventStatements(name)
      [] name \in SessionCalls -> SessionStatements(name)
      [] name \in MemoryCalls -> MemoryStatements(name)
      [] name \in EmbeddingCalls -> EmbeddingStatements(name)
      [] name \in CriticCalls -> CriticStatements(name)
      [] name \in JobCalls -> JobStatements(name)
      [] name \in ApprovalCalls -> ApprovalStatements(name)
      [] name \in RunCalls -> RunStatements(name)
      [] name \in PinCalls -> PinStatements(name)
      [] name \in TerminalCalls -> TerminalStatements(name)
=============================================================================
