------------------------------ MODULE StoreActor ------------------------------
(***************************************************************************)
(* The store: one thread that owns the SQLite connection, a queue of       *)
(* commands without a bound, and a one-shot channel for each answer.  The  *)
(* callers are tasks of the daemon; one may be dropped while it waits.     *)
(* Opening the store first brings the schema up to date, one transaction   *)
(* per version.                                                            *)
(***************************************************************************)
EXTENDS Integers, Sequences, FiniteSets, StoreCommands

CONSTANTS Clients, Names, Keys, MaxCalls,
          MaxCrashes    \* bound

ASSUME StoreAssumption ==
    /\ Names \subseteq Commands
    /\ MaxCalls \in Nat /\ MaxCrashes \in Nat

VARIABLES db, calls, waits, answer,
          queue,        \* the channel: calls not yet taken
          busy,         \* the command the thread executes: its call, what is left, what it found
          disk,         \* committed: the migrations executed, and user_version
          tx,           \* the same inside the open transaction
          thread,       \* the store thread
          crashes

store == <<db, calls, waits, answer, queue, busy>>
file == <<disk, tx>>
vars == <<store, file, thread, crashes>>

\* A log without the entries of the command that the thread executes: they are the last.
Before(log) == [n \in {n \in DOMAIN log : log[n].call # busy.call} |-> log[n]]

Abstract == INSTANCE AtomicStore WITH db <- [t \in Tables |-> Before(db[t])]

Ids == 1 .. MaxCalls
None == -1
Lost == -2
Err == -3
NoTx == [schema |-> {}, version |-> -1]
Idle == [call |-> 0, left |-> <<>>, found |-> FALSE]
Entry == [call : Ids, op : {"insert", "update", "delete"}, key : Keys]
Statement == [op : {"read", "insert", "update", "delete", "look", "update_found",
                    "insert_absent"}, on : Tables]

TypeOK ==
    /\ db \in [Tables -> Seq(Entry)]
    /\ calls \in Seq([client : Clients, name : Names, key : Keys]) /\ Len(calls) <= MaxCalls
    /\ waits \in [Clients -> 0 .. MaxCalls]
    /\ answer \in [Ids -> Nat \cup {None, Lost, Err}]
    /\ queue \in Seq(Ids)
    /\ busy \in [call : 0 .. MaxCalls, left : Seq(Statement), found : BOOLEAN]
    /\ disk \in [schema : SUBSET Tables, version : 0 .. Latest]
    /\ tx \in [schema : SUBSET Tables, version : -1 .. Latest]
    /\ thread \in {"down", "opening", "up"}
    /\ crashes \in 0 .. MaxCrashes

\* Any database an earlier version of the daemon left behind.
Init ==
    /\ db = [t \in Tables |-> <<>>]
    /\ calls = <<>> /\ queue = <<>> /\ busy = Idle
    /\ waits = [c \in Clients |-> 0]
    /\ answer = [i \in Ids |-> None]
    /\ disk \in {[schema |-> TablesOf(v), version |-> v] : v \in 0 .. Latest}
    /\ tx = NoTx
    /\ thread = "down" /\ crashes = 0

-------------------------------------------------------------------------------
(* Opening.                                                                 *)

OpenDb ==
    /\ thread = "down" /\ thread' = "opening"
    /\ UNCHANGED <<store, file, crashes>>

\* Bug: no transaction around the statements of a migration.
ExecuteMigrationBare ==
    /\ thread = "opening" /\ tx = NoTx /\ disk.version < Latest
    /\ tx' = [disk EXCEPT !.schema = @ \cup Migrations[disk.version + 1]]
    /\ disk' = tx'
    /\ UNCHANGED <<store, thread, crashes>>

\* One version: begin and execute, stamp, commit.
ExecuteMigration ==
    /\ thread = "opening" /\ tx = NoTx /\ disk.version < Latest
    /\ tx' = [disk EXCEPT !.schema = @ \cup Migrations[disk.version + 1]]
    /\ UNCHANGED <<store, disk, thread, crashes>>

StampVersion ==
    /\ thread = "opening" /\ tx # NoTx /\ tx.version = disk.version
    /\ tx' = [tx EXCEPT !.version = @ + 1]
    /\ UNCHANGED <<store, disk, thread, crashes>>

CommitMigration ==
    /\ thread = "opening" /\ tx.version = disk.version + 1
    /\ disk' = tx /\ tx' = NoTx
    /\ UNCHANGED <<store, thread, crashes>>

SpawnThread ==
    /\ thread = "opening" /\ tx = NoTx /\ disk.version = Latest
    /\ thread' = "up"
    /\ UNCHANGED <<store, file, crashes>>

-------------------------------------------------------------------------------
(* The callers.                                                             *)

Call(c, name, key) ==
    /\ thread = "up" /\ waits[c] = 0 /\ Len(calls) < MaxCalls
    /\ calls' = Append(calls, [client |-> c, name |-> name, key |-> key])
    /\ queue' = Append(queue, Len(calls) + 1)
    /\ waits' = [waits EXCEPT ![c] = Len(calls) + 1]
    /\ UNCHANGED <<db, answer, busy, file, thread, crashes>>

Receive(c) ==
    /\ waits[c] # 0 /\ answer[waits[c]] # None
    /\ waits' = [waits EXCEPT ![c] = 0]
    /\ UNCHANGED <<db, calls, answer, queue, busy, file, thread, crashes>>

DropCaller(c) ==
    /\ waits[c] # 0 /\ answer[waits[c]] = None
    /\ waits' = [waits EXCEPT ![c] = 0]
    /\ UNCHANGED <<db, calls, answer, queue, busy, file, thread, crashes>>

-------------------------------------------------------------------------------
(* The thread.                                                              *)

\* The SELECT finds a row; decide_approval looks for one that is still pending.
HasRow(t, key) ==
    \E n \in DOMAIN db[t] :
        /\ db[t][n].op = "insert" /\ db[t][n].key = key
        /\ t = "approvals" => \A m \in DOMAIN db[t] :
                                 m > n /\ db[t][m].key = key => db[t][m].op # "update"

\* A second row for a key: the UNIQUE constraint refuses it.
Clash(st) ==
    /\ st.op = "insert_absent" /\ st.on \in UniqueKeys
    /\ ~busy.found /\ HasRow(st.on, calls[busy.call].key)

Missing(st) == Demanding(st) /\ ~HasRow(st.on, calls[busy.call].key)

\* Bug: the newest command first.
TakeNewest ==
    /\ thread = "up" /\ busy = Idle /\ queue # <<>>
    /\ LET i == queue[Len(queue)]
       IN busy' = [call |-> i, left |-> Statements(calls[i].name), found |-> FALSE]
    /\ queue' = SubSeq(queue, 1, Len(queue) - 1)
    /\ UNCHANGED <<db, calls, waits, answer, file, thread, crashes>>

TakeCommand ==
    /\ thread = "up" /\ busy = Idle /\ queue # <<>>
    /\ busy' = [call |-> Head(queue), left |-> Statements(calls[Head(queue)].name),
                found |-> FALSE]
    /\ queue' = Tail(queue)
    /\ UNCHANGED <<db, calls, waits, answer, file, thread, crashes>>

ExecuteStatement ==
    /\ thread = "up" /\ busy.left # <<>>
    /\ ~Clash(Head(busy.left)) /\ ~Missing(Head(busy.left))
    /\ LET st == Head(busy.left)
           key == calls[busy.call].key
           op == CASE st.op \in {"insert", "update", "delete"} -> st.op
                   [] st.op = "update_found" /\ busy.found -> "update"
                   [] st.op = "insert_absent" /\ ~busy.found -> "insert"
                   [] OTHER -> "none"
       IN /\ db' = [t \in Tables |->
                       IF op # "none" /\ t \in Triggered(st)
                       THEN Append(db[t], [call |-> busy.call, op |-> op, key |-> key])
                       ELSE db[t]]
          /\ busy' = [busy EXCEPT !.left = Tail(@),
                                  !.found = IF st.op = "look" THEN HasRow(st.on, key) ELSE @]
    /\ UNCHANGED <<calls, waits, answer, queue, file, thread, crashes>>

\* SQLite refuses a statement, or the row it wants is not there: the command ends with an
\* error, and what it has written stays.
StatementFails ==
    /\ thread = "up" /\ busy.left # <<>>
    /\ answer' = [answer EXCEPT ![busy.call] = Err]
    /\ busy' = Idle
    /\ UNCHANGED <<db, calls, waits, queue, file, thread, crashes>>

\* Bug: the answer is handed over, which waits for somebody to take it.
ReplyHandsOver ==
    /\ thread = "up" /\ busy # Idle /\ busy.left = <<>>
    /\ \E c \in Clients : waits[c] = busy.call
    /\ answer' = [answer EXCEPT ![busy.call] =
                     Len(db[Statements(calls[busy.call].name)[1].on])]
    /\ busy' = Idle
    /\ UNCHANGED <<db, calls, waits, queue, file, thread, crashes>>

\* The answer goes out; nobody may be there to take it.
Reply ==
    /\ thread = "up" /\ busy # Idle /\ busy.left = <<>>
    /\ answer' = [answer EXCEPT ![busy.call] =
                     Len(db[Statements(calls[busy.call].name)[1].on])]
    /\ busy' = Idle
    /\ UNCHANGED <<db, calls, waits, queue, file, thread, crashes>>

Actor == TakeCommand \/ ExecuteStatement \/ StatementFails \/ Reply

\* The daemon ends: the open transaction is rolled back, the queue is gone.
Crash ==
    /\ crashes < MaxCrashes /\ thread # "down"
    /\ crashes' = crashes + 1
    /\ thread' = "down" /\ tx' = NoTx
    /\ queue' = <<>> /\ busy' = Idle
    /\ waits' = [c \in Clients |-> 0]
    /\ answer' = [i \in Ids |-> IF i \in 1 .. Len(calls) /\ answer[i] = None THEN Lost
                                ELSE answer[i]]
    /\ UNCHANGED <<db, calls, disk>>

Opening == OpenDb \/ ExecuteMigration \/ StampVersion \/ CommitMigration \/ SpawnThread

Next ==
    \/ Opening \/ Actor \/ Crash
    \/ \E c \in Clients : \/ \E name \in Names, key \in Keys : Call(c, name, key)
                          \/ Receive(c) \/ DropCaller(c)

\* The thread runs as long as the daemon does; nothing says that it is started again.
Spec == Init /\ [][Next]_vars /\ WF_vars(Actor)

-------------------------------------------------------------------------------
(* Properties.                                                              *)

\* The store does what AtomicStore says: one thread, so a command is not
\* interleaved with another; one queue, so a client's calls keep their order even
\* after it was dropped and made another.  A call that fails may be half done.
Implements == Abstract!Spec

\* Every call is answered, though the callers before it were dropped and nobody took
\* their answers (the thread ignores that), or lost with the daemon.
CallsAreAnswered == \A i \in Ids : i \in DOMAIN calls ~> answer[i] # None

\* The commands that look before they insert (upsert_project, insert_blob,
\* upsert_terminal) are never refused for a key that is there already, though the two
\* statements are no transaction: nothing else runs between them.
InsertsNeverClash == busy.left # <<>> => ~Clash(Head(busy.left))

\* The file opens: the tables it has are those of its version, wherever an upgrade
\* was cut off, so no migration is ever executed a second time (the ALTER TABLE of
\* version 3 would fail for good).
OpensAgain == disk.schema = TablesOf(disk.version)

\* Every statement the thread executes finds its tables.
TablesAreThere ==
    thread = "up" => \A name \in Commands : \A n \in DOMAIN Statements(name) :
                        Triggered(Statements(name)[n]) \subseteq disk.schema

=============================================================================
