--------------------------- MODULE StoreActor_proofs ---------------------------
(***************************************************************************)
(* Proofs about StoreActor, for any clients, keys, number of calls and     *)
(* crashes, and for every command of the store.                            *)
(*                                                                         *)
(* A row that was looked up and not found can be inserted: what the thread *)
(* found is still so when it inserts, for it executes nothing else         *)
(* in between.  That needs what the commands are made of: a lemma per *)
(* group of commands says that no other statement inserts into a table     *)
(* with a key.                                                             *)
(***************************************************************************)
EXTENDS StoreActor, TLAPS

Keyed == UniqueKeys

TableNames ==
    {"events", "projects", "work_sessions", "observations", "observations_fts", "memories",
     "memories_fts", "vec_observations", "vec_memories", "pushbacks", "disclosures",
     "api_calls", "approvals", "agent_runs", "blobs", "pins", "retention_status",
     "voice_utterances", "terminals", "dotfile_edits"}
Ops == {"read", "insert", "update", "delete", "look", "update_found", "insert_absent"}
CallType == [client : Clients, name : Names, key : Keys]
Step == [op : Ops, on : TableNames]

InsertsNothing(st) == st.on \in Keyed => st.op \notin {"insert", "insert_absent"}
Harmless(left) == \A n \in DOMAIN left : InsertsNothing(left[n])

\* Looks, and then inserts what was not found.
Careful(left, t) ==
    left \in {<<Look(t), InsertAbsent(t)>>, <<Look(t), UpdateFound(t), InsertAbsent(t)>>}

\* Has looked.
Looked(left, t) == left \in {<<InsertAbsent(t)>>, <<UpdateFound(t), InsertAbsent(t)>>}

Plain(st) == st.op \in {"read", "insert", "update", "delete"}

\* Three statements at most, and what one of them finds is what the first looked for.
Shaped(left) ==
    /\ Len(left) \in 1 .. 3
    /\ \/ \A n \in DOMAIN left : Plain(left[n])
       \/ left[1].op = "look" /\ \A n \in 2 .. Len(left) : left[n].op # "look"

\* A command that inserts nothing into a table with a key, or looks before.
WellMade(left) == Harmless(left) \/ \E t \in Keyed : Careful(left, t)

CallKey == calls[busy.call].key

FileInv ==
    /\ disk.version \in 0 .. Latest
    /\ disk = [schema |-> TablesOf(disk.version), version |-> disk.version]
    /\ \/ tx = NoTx
       \/ /\ disk.version < Latest /\ tx.version \in {disk.version, disk.version + 1}
          /\ tx = [schema |-> TablesOf(disk.version + 1), version |-> tx.version]
    /\ thread = "up" => disk.version = Latest

CallsInv ==
    /\ calls \in Seq(CallType) /\ Len(calls) <= MaxCalls
    /\ queue \in Seq(1 .. Len(calls))
    /\ busy \in [call : 0 .. Len(calls), left : Seq(Step), found : BOOLEAN]
    /\ busy # Idle => busy.call # 0

\* What the thread found is still so.
LookedIsTrue ==
    \/ WellMade(busy.left)
    \/ \E t \in Keyed : Looked(busy.left, t) /\ (busy.found \/ ~HasRow(t, CallKey))

RowsInv == db \in [Tables -> Seq(Entry)] /\ LookedIsTrue

RestType ==
    /\ waits \in [Clients -> 0 .. MaxCalls] /\ answer \in [Ids -> Nat \cup {None, Lost, Err}]
    /\ thread \in {"down", "opening", "up"} /\ crashes \in 0 .. MaxCrashes

Inv == FileInv /\ CallsInv /\ RowsInv

-------------------------------------------------------------------------------
(* What the commands are made of.                                           *)

LEMMA VersionsType ==
    /\ Latest = 8
    /\ Migrations[2] = {"projects", "work_sessions", "observations"}
    /\ Migrations[4] = {"approvals", "actions", "agent_runs", "blobs"}
    /\ Migrations[8] = {"terminals", "dotfile_edits"}
BY DEF Latest, Migrations, EarlyTables, LateTables

LEMMA KeyedAreTables == Keyed \subseteq Tables
BY VersionsType DEF Keyed, UniqueKeys, Tables, TablesOf

LEMMA StatementsAre ==
    ASSUME NEW t \in TableNames
    PROVE  /\ Read(t) \in Step /\ InsertsNothing(Read(t)) /\ Plain(Read(t))
           /\ Update(t) \in Step /\ InsertsNothing(Update(t)) /\ Plain(Update(t))
           /\ Delete(t) \in Step /\ InsertsNothing(Delete(t)) /\ Plain(Delete(t))
           /\ Look(t) \in Step /\ InsertsNothing(Look(t)) /\ Look(t).op = "look"
           /\ UpdateFound(t) \in Step /\ InsertsNothing(UpdateFound(t))
           /\ UpdateFound(t).op # "look"
           /\ Insert(t) \in Step /\ (t \notin Keyed => InsertsNothing(Insert(t)))
           /\ Plain(Insert(t))
           /\ InsertAbsent(t) \in Step /\ InsertAbsent(t).op # "look"
BY DEF Read, Update, Delete, Look, UpdateFound, Insert, InsertAbsent, InsertsNothing, Step, Ops,
       Plain

Made(left) == left \in Seq(Step) /\ left # <<>> /\ WellMade(left) /\ Shaped(left)

LEMMA OneStatement ==
    ASSUME NEW st \in Step, InsertsNothing(st), Plain(st) PROVE Made(<<st>>)
BY DEF Made, WellMade, Harmless, Shaped

LEMMA TwoStatements ==
    ASSUME NEW st \in Step, InsertsNothing(st), Plain(st),
           NEW nd \in Step, InsertsNothing(nd), Plain(nd)
    PROVE  Made(<<st, nd>>)
BY DEF Made, WellMade, Harmless, Shaped

LEMMA ThreeStatements ==
    ASSUME NEW st \in Step, InsertsNothing(st),
           NEW nd \in Step, InsertsNothing(nd),
           NEW rd \in Step, InsertsNothing(rd),
           \/ Plain(st) /\ Plain(nd) /\ Plain(rd)
           \/ st.op = "look" /\ nd.op # "look" /\ rd.op # "look"
    PROVE  Made(<<st, nd, rd>>)
BY DEF Made, WellMade, Harmless, Shaped

LEMMA LookAndInsert ==
    ASSUME NEW t \in Keyed
    PROVE  /\ Made(<<Look(t), InsertAbsent(t)>>)
           /\ Made(<<Look(t), UpdateFound(t), InsertAbsent(t)>>)
<1>1. t \in TableNames
  BY DEF Keyed, UniqueKeys, TableNames
<1> QED
  BY <1>1, StatementsAre DEF Made, WellMade, Careful, Shaped

LEMMA EventsMade == ASSUME NEW name \in EventCalls PROVE Made(EventStatements(name))
<1>1. Made(<<Insert("events")>>) /\ Made(<<Read("events")>>) /\ Made(<<Read("projects")>>)
  BY StatementsAre, OneStatement DEF Keyed, UniqueKeys, TableNames
<1>2. Made(<<Insert("observations")>>) /\ Made(<<Read("observations")>>)
  BY StatementsAre, OneStatement DEF Keyed, UniqueKeys, TableNames
<1>3. Made(<<Look("projects"), UpdateFound("projects"), InsertAbsent("projects")>>)
  BY LookAndInsert DEF Keyed, UniqueKeys
<1> QED
  BY <1>1, <1>2, <1>3 DEF EventStatements, EventCalls

LEMMA SessionsMade == ASSUME NEW name \in SessionCalls PROVE Made(SessionStatements(name))
<1>1. /\ Made(<<Insert("work_sessions")>>) /\ Made(<<Update("work_sessions")>>)
      /\ Made(<<Read("work_sessions")>>)
  BY StatementsAre, OneStatement DEF Keyed, UniqueKeys, TableNames
<1> QED
  BY <1>1 DEF SessionStatements, SessionCalls

LEMMA MemoriesMade == ASSUME NEW name \in MemoryCalls PROVE Made(MemoryStatements(name))
<1>1. Made(<<Insert("memories")>>) /\ Made(<<Update("memories")>>) /\ Made(<<Read("memories")>>)
  BY StatementsAre, OneStatement DEF Keyed, UniqueKeys, TableNames
<1>2. /\ Made(<<Read("observations_fts")>>) /\ Made(<<Read("memories_fts")>>)
      /\ Made(<<Read("observations")>>)
  BY StatementsAre, OneStatement DEF Keyed, UniqueKeys, TableNames
<1> QED
  BY <1>1, <1>2 DEF MemoryStatements, MemoryCalls

LEMMA EmbeddingsMade == ASSUME NEW name \in EmbeddingCalls PROVE Made(EmbeddingStatements(name))
<1>1. Made(<<Insert("vec_observations")>>) /\ Made(<<Insert("vec_memories")>>)
  BY StatementsAre, OneStatement DEF Keyed, UniqueKeys, TableNames
<1>2. /\ Made(<<Read("vec_observations")>>) /\ Made(<<Read("vec_memories")>>)
      /\ Made(<<Read("observations")>>)
  BY StatementsAre, OneStatement DEF Keyed, UniqueKeys, TableNames
<1> QED
  BY <1>1, <1>2 DEF EmbeddingStatements, EmbeddingCalls

LEMMA CriticsMade == ASSUME NEW name \in CriticCalls PROVE Made(CriticStatements(name))
<1>1. Made(<<Insert("pushbacks")>>) /\ Made(<<Read("pushbacks")>>) /\ Made(<<Update("pushbacks")>>)
  BY StatementsAre, OneStatement DEF Keyed, UniqueKeys, TableNames
<1>2. /\ Made(<<Insert("api_calls")>>) /\ Made(<<Insert("disclosures")>>)
      /\ Made(<<Read("disclosures")>>)
  BY StatementsAre, OneStatement DEF Keyed, UniqueKeys, TableNames
<1> QED
  BY <1>1, <1>2 DEF CriticStatements, CriticCalls

LEMMA JobsMade == ASSUME NEW name \in JobCalls PROVE Made(JobStatements(name))
<1>1. /\ Made(<<Read("work_sessions")>>) /\ Made(<<Update("work_sessions")>>)
      /\ Made(<<Read("observations")>>)
  BY StatementsAre, OneStatement DEF Keyed, UniqueKeys, TableNames
<1>2. Made(<<Read("observations"), Delete("vec_observations"), Delete("observations")>>)
  BY StatementsAre, ThreeStatements DEF TableNames
<1>3. Made(<<Read("api_calls"), Delete("api_calls")>>)
  BY StatementsAre, TwoStatements DEF TableNames
<1> QED
  BY <1>1, <1>2, <1>3 DEF JobStatements, JobCalls

LEMMA ApprovalsMade == ASSUME NEW name \in ApprovalCalls PROVE Made(ApprovalStatements(name))
<1>1. Made(<<Insert("approvals")>>) /\ Made(<<Read("approvals")>>) /\ Made(<<Update("approvals")>>)
  BY StatementsAre, OneStatement DEF Keyed, UniqueKeys, TableNames
<1>2. Made(<<Look("approvals"), UpdateFound("approvals"), Read("approvals")>>)
  BY StatementsAre, ThreeStatements DEF TableNames, Plain
<1> QED
  BY <1>1, <1>2 DEF ApprovalStatements, ApprovalCalls

LEMMA RunsMade == ASSUME NEW name \in RunCalls PROVE Made(RunStatements(name))
<1>1. /\ Made(<<Insert("agent_runs")>>) /\ Made(<<Update("agent_runs")>>)
      /\ Made(<<Read("agent_runs")>>)
  BY StatementsAre, OneStatement DEF Keyed, UniqueKeys, TableNames
<1>2. Made(<<Read("blobs")>>) /\ Made(<<Read("projects")>>)
  BY StatementsAre, OneStatement DEF Keyed, UniqueKeys, TableNames
<1>3. Made(<<Look("blobs"), InsertAbsent("blobs")>>)
  BY LookAndInsert DEF Keyed, UniqueKeys
<1> QED
  BY <1>1, <1>2, <1>3 DEF RunStatements, RunCalls

LEMMA PinsMade == ASSUME NEW name \in PinCalls PROVE Made(PinStatements(name))
<1>1. Made(<<Insert("pins")>>) /\ Made(<<Read("pins")>>) /\ Made(<<Delete("pins")>>)
  BY StatementsAre, OneStatement DEF Keyed, UniqueKeys, TableNames
<1>2. /\ Made(<<Insert("retention_status")>>) /\ Made(<<Read("retention_status")>>)
      /\ Made(<<Insert("voice_utterances")>>) /\ Made(<<Read("voice_utterances")>>)
  BY StatementsAre, OneStatement DEF Keyed, UniqueKeys, TableNames
<1>3. Made(<<Read("pins"), Delete("pins")>>)
  BY StatementsAre, TwoStatements DEF TableNames
<1> QED
  BY <1>1, <1>2, <1>3 DEF PinStatements, PinCalls

LEMMA TerminalsMade == ASSUME NEW name \in TerminalCalls PROVE Made(TerminalStatements(name))
<1>1. /\ Made(<<Read("terminals")>>) /\ Made(<<Insert("dotfile_edits")>>)
      /\ Made(<<Read("dotfile_edits")>>)
  BY StatementsAre, OneStatement DEF Keyed, UniqueKeys, TableNames
<1>2. Made(<<Update("dotfile_edits"), Read("dotfile_edits")>>)
  BY StatementsAre, TwoStatements DEF TableNames
<1>3. Made(<<Look("terminals"), UpdateFound("terminals"), InsertAbsent("terminals")>>)
  BY LookAndInsert DEF Keyed, UniqueKeys
<1> QED
  BY <1>1, <1>2, <1>3 DEF TerminalStatements, TerminalCalls

LEMMA CommandsAreMade == ASSUME NEW name \in Commands PROVE Made(Statements(name))
<1> USE DEF Statements, EventCalls, SessionCalls, MemoryCalls, EmbeddingCalls, CriticCalls,
            JobCalls, ApprovalCalls, RunCalls, PinCalls, TerminalCalls
<1>1. CASE name \in EventCalls
  BY <1>1, EventsMade
<1>2. CASE name \in SessionCalls
  BY <1>2, SessionsMade
<1>3. CASE name \in MemoryCalls
  BY <1>3, MemoriesMade
<1>4. CASE name \in EmbeddingCalls
  BY <1>4, EmbeddingsMade
<1>5. CASE name \in CriticCalls
  BY <1>5, CriticsMade
<1>6. CASE name \in JobCalls
  BY <1>6, JobsMade
<1>7. CASE name \in ApprovalCalls
  BY <1>7, ApprovalsMade
<1>8. CASE name \in RunCalls
  BY <1>8, RunsMade
<1>9. CASE name \in PinCalls
  BY <1>9, PinsMade
<1>10. CASE name \in TerminalCalls
  BY <1>10, TerminalsMade
<1> QED
  BY <1>1, <1>2, <1>3, <1>4, <1>5, <1>6, <1>7, <1>8, <1>9, <1>10
     DEF Commands, EarlyCommands, LateCommands

-------------------------------------------------------------------------------
(* The file.                                                                *)

LEMMA NextVersion ==
    ASSUME NEW v \in Nat PROVE TablesOf(v + 1) = TablesOf(v) \cup Migrations[v + 1]
<1>1. 1 .. (v + 1) = (1 .. v) \cup {v + 1}
  OBVIOUS
<1> QED
  BY <1>1 DEF TablesOf

LEMMA FileNext ==
    ASSUME FileInv, Opening \/ Crash \/ UNCHANGED <<disk, tx, thread>> PROVE FileInv'
<1> USE VersionsType DEF FileInv
<1>1. CASE OpenDb
  BY <1>1 DEF OpenDb, file
<1>2. CASE ExecuteMigration
  <2>1. /\ tx' = [disk EXCEPT !.schema = @ \cup Migrations[disk.version + 1]]
        /\ disk.version < Latest /\ disk' = disk /\ thread' = thread
    BY <1>2 DEF ExecuteMigration
  <2>2. tx' = [schema |-> TablesOf(disk.version + 1), version |-> disk.version]
    <3>1. disk.schema = TablesOf(disk.version) /\ disk.version \in Nat
      OBVIOUS
    <3> QED
      BY <2>1, <3>1, NextVersion
  <2> QED
    BY <2>1, <2>2
<1>3. CASE StampVersion
  <2>1. /\ tx # NoTx /\ tx.version = disk.version /\ tx' = [tx EXCEPT !.version = @ + 1]
        /\ disk' = disk /\ thread' = thread
    BY <1>3 DEF StampVersion
  <2>2. tx' = [schema |-> TablesOf(disk.version + 1), version |-> disk.version + 1]
    BY <2>1
  <2> QED
    BY <2>1, <2>2
<1>4. CASE CommitMigration
  <2>1. /\ tx.version = disk.version + 1 /\ disk' = tx /\ tx' = NoTx
        /\ thread = "opening" /\ thread' = thread
    BY <1>4 DEF CommitMigration
  <2>2. tx # NoTx
    BY <2>1 DEF NoTx
  <2> QED
    BY <2>1, <2>2
<1>5. CASE SpawnThread
  BY <1>5 DEF SpawnThread, file
<1>6. CASE Crash
  BY <1>6 DEF Crash
<1>7. CASE UNCHANGED <<disk, tx, thread>>
  BY <1>7
<1> QED
  BY <1>1, <1>2, <1>3, <1>4, <1>5, <1>6, <1>7 DEF Opening

-------------------------------------------------------------------------------
(* The thread.                                                              *)

LEMMA IdleType ==
    /\ Idle.call = 0 /\ Idle.left = <<>> /\ Idle.found = FALSE /\ WellMade(Idle.left)
    /\ \A n \in Nat : Idle \in [call : 0 .. n, left : Seq(Step), found : BOOLEAN]
BY DEF Idle, WellMade, Harmless

LEMMA ElementOf == ASSUME NEW S, NEW q \in Seq(S), NEW i \in 1 .. Len(q) PROVE q[i] \in S
OBVIOUS

LEMMA SeqOfMore == ASSUME NEW S, NEW T, S \subseteq T, NEW q \in Seq(S) PROVE q \in Seq(T)
OBVIOUS

\* A step that executes nothing keeps the rows and what was found.
LEMMA RowsFrame ==
    ASSUME CallsInv, RowsInv, UNCHANGED <<db, busy>>,
           busy.call # 0 => calls'[busy.call] = calls[busy.call],
           busy.call = 0 => WellMade(busy.left)
    PROVE  RowsInv'
BY DEF RowsInv, LookedIsTrue, CallKey, HasRow

LEMMA BusyIdle == CallsInv /\ busy.call = 0 => WellMade(busy.left)
BY IdleType DEF CallsInv

LEMMA CallInv ==
    ASSUME Inv, NEW c \in Clients, NEW name \in Names, NEW key \in Keys, Call(c, name, key)
    PROVE  Inv'
<1> USE DEF Inv
<1> DEFINE new == [client |-> c, name |-> name, key |-> key]
<1>1. /\ calls' = Append(calls, new) /\ queue' = Append(queue, Len(calls) + 1)
      /\ UNCHANGED <<db, busy, disk, tx, thread>>
  BY DEF Call, file
<1>2. new \in CallType
  BY DEF CallType
<1> HIDE DEF new
<1>3. /\ calls' \in Seq(CallType) /\ Len(calls') <= MaxCalls
      /\ Len(calls') = Len(calls) + 1 /\ Len(calls) \in Nat
      /\ \A i \in 1 .. Len(calls) : calls'[i] = calls[i]
  BY <1>1, <1>2, StoreAssumption DEF CallsInv, Call, StoreAssumption
<1>4. queue' \in Seq(1 .. Len(calls'))
  <2>1. queue \in Seq(1 .. Len(calls'))
    BY <1>3 DEF CallsInv
  <2> QED
    BY <1>1, <1>3, <2>1
<1>5. CallsInv'
  BY <1>1, <1>3, <1>4 DEF CallsInv
<1>6. RowsInv'
  <2>1. busy.call # 0 => calls'[busy.call] = calls[busy.call]
    BY <1>3 DEF CallsInv
  <2> QED
    BY <1>1, <2>1, RowsFrame, BusyIdle
<1> QED
  BY <1>1, <1>5, <1>6, FileNext

LEMMA CallersInv ==
    ASSUME Inv, NEW c \in Clients, Receive(c) \/ DropCaller(c) PROVE Inv'
<1>1. UNCHANGED <<db, calls, queue, busy, disk, tx, thread>>
  BY DEF Receive, DropCaller, file
<1>2. CallsInv'
  BY <1>1 DEF Inv, CallsInv
<1> QED
  BY <1>1, <1>2, FileNext, RowsFrame, BusyIdle DEF Inv

LEMMA TakeInv == ASSUME Inv, TakeCommand PROVE Inv'
<1> USE DEF Inv
<1> DEFINE i == Head(queue)
<1>1. /\ busy' = [call |-> i, left |-> Statements(calls[i].name), found |-> FALSE]
      /\ queue' = Tail(queue) /\ queue # <<>>
      /\ UNCHANGED <<db, calls, disk, tx, thread>>
  BY DEF TakeCommand, file
<1>2. i \in 1 .. Len(calls) /\ queue' \in Seq(1 .. Len(calls))
  BY <1>1 DEF CallsInv
<1> HIDE DEF i
<1>3. calls[i].name \in Commands
  <2>1. calls[i] \in CallType
    BY <1>2, ElementOf DEF CallsInv
  <2> QED
    BY <2>1, StoreAssumption DEF StoreAssumption, CallType
<1>4. Made(Statements(calls[i].name))
  BY <1>3, CommandsAreMade
<1>5. /\ busy'.left = Statements(calls[i].name) /\ busy'.call = i
      /\ busy' \in [call : 0 .. Len(calls), left : Seq(Step), found : BOOLEAN]
  BY <1>1, <1>2, <1>4 DEF Made
<1>6. CallsInv'
  BY <1>1, <1>2, <1>5 DEF CallsInv
<1>7. RowsInv'
  <2>1. LookedIsTrue'
    BY <1>4, <1>5 DEF LookedIsTrue, WellMade, Made, Harmless, InsertsNothing, Careful
  <2> QED
    BY <1>1, <2>1 DEF RowsInv
<1> QED
  BY <1>1, <1>6, <1>7, FileNext

LEMMA KeyedTriggers ==
    ASSUME NEW t \in Keyed, NEW st, t \in Triggered(st) PROVE st.on = t
BY DEF Keyed, UniqueKeys, Triggered, Indexes

LEMMA ExecuteInv == ASSUME Inv, ExecuteStatement PROVE Inv'
<1> USE DEF Inv
<1> DEFINE st == Head(busy.left)
           op == CASE st.op \in {"insert", "update", "delete"} -> st.op
                   [] st.op = "update_found" /\ busy.found -> "update"
                   [] st.op = "insert_absent" /\ ~busy.found -> "insert"
                   [] OTHER -> "none"
           new == [call |-> busy.call, op |-> op, key |-> CallKey]
<1>1. /\ db' = [t \in Tables |-> IF op # "none" /\ t \in Triggered(st)
                                 THEN Append(db[t], new) ELSE db[t]]
      /\ busy' = [busy EXCEPT !.left = Tail(@),
                     !.found = IF st.op = "look" THEN HasRow(st.on, CallKey) ELSE @]
      /\ busy.left # <<>> /\ UNCHANGED <<calls, queue, disk, tx, thread>>
  BY DEF ExecuteStatement, CallKey, file
<1>2. /\ st \in Step /\ Tail(busy.left) \in Seq(Step)
      /\ busy.call \in 1 .. Len(calls)
  <2>1. busy.left \in Seq(Step) /\ busy # Idle /\ busy.call \in 0 .. Len(calls)
    BY <1>1, IdleType DEF CallsInv
  <2> QED
    BY <1>1, <2>1 DEF CallsInv
<1>3. /\ op \in {"insert", "update", "delete", "none"}
      /\ op = "insert" => st.op = "insert" \/ (st.op = "insert_absent" /\ ~busy.found)
  <2> HIDE DEF st
  <2> QED
    OBVIOUS
<1>4. CallKey \in Keys
  <2>1. calls[busy.call] \in CallType
    BY <1>2, ElementOf DEF CallsInv
  <2> QED
    BY <2>1 DEF CallKey, CallType
<1>5. /\ new.op = op /\ new.key = CallKey
      /\ op # "none" => new \in Entry
  <2>1. busy.call \in 1 .. MaxCalls
    BY <1>2, StoreAssumption DEF CallsInv, StoreAssumption
  <2> HIDE DEF op
  <2> QED
    BY <1>3, <1>4, <2>1 DEF Entry, Ids
<1> HIDE DEF st, op, new
<1>6. db' \in [Tables -> Seq(Entry)]
  <2>1. \A t \in Tables : op # "none" => Append(db[t], new) \in Seq(Entry)
    BY <1>5 DEF RowsInv
  <2> QED
    BY <1>1, <2>1 DEF RowsInv
<1>7. /\ busy'.left = Tail(busy.left) /\ busy'.call = busy.call
      /\ busy'.found = IF st.op = "look" THEN HasRow(st.on, CallKey) ELSE busy.found
      /\ busy' \in [call : 0 .. Len(calls), left : Seq(Step), found : BOOLEAN]
  BY <1>1, <1>2 DEF CallsInv, HasRow
<1>8. CallsInv' /\ CallKey' = CallKey
  BY <1>1, <1>2, <1>7 DEF CallsInv, CallKey
<1>9. \A t \in Keyed : op = "none" => db'[t] = db[t]
  BY <1>1, KeyedAreTables
<1>10. LookedIsTrue'
  <2>1. CASE Harmless(busy.left)
    <3>1. Harmless(Tail(busy.left))
      BY <1>1, <2>1 DEF Harmless, CallsInv
    <3> QED
      BY <1>7, <3>1 DEF LookedIsTrue, WellMade, Harmless, InsertsNothing
  <2>2. ASSUME NEW u \in Keyed, Careful(busy.left, u) PROVE LookedIsTrue'
    <3>1. st = Look(u) /\ Looked(Tail(busy.left), u)
      <4>1. CASE busy.left = <<Look(u), InsertAbsent(u)>>
        BY <4>1 DEF st, Looked
      <4>2. CASE busy.left = <<Look(u), UpdateFound(u), InsertAbsent(u)>>
        BY <4>2 DEF st, Looked
      <4> QED
        BY <2>2, <4>1, <4>2 DEF Careful
    <3>2. st.op = "look" /\ st.on = u
      BY <3>1 DEF Look
    <3>3. op = "none"
      BY <3>2 DEF op
    <3>4. db'[u] = db[u]
      BY <1>9, <3>3
    <3>5. busy'.found = HasRow(u, CallKey) /\ HasRow(u, CallKey)' = HasRow(u, CallKey)
      BY <1>7, <1>8, <3>2, <3>4 DEF HasRow
    <3> QED
      BY <1>7, <1>8, <3>1, <3>5 DEF LookedIsTrue, Looked
  <2>3. ASSUME NEW u \in Keyed, Looked(busy.left, u), busy.found \/ ~HasRow(u, CallKey)
        PROVE  LookedIsTrue'
    <3>1. CASE busy.left = <<InsertAbsent(u)>>
      <4>1. Harmless(Tail(busy.left))
        BY <3>1 DEF Harmless
      <4> QED
        BY <1>7, <4>1 DEF LookedIsTrue, WellMade, Harmless, InsertsNothing
    <3>2. CASE busy.left = <<UpdateFound(u), InsertAbsent(u)>>
      <4>1. st = UpdateFound(u) /\ Tail(busy.left) = <<InsertAbsent(u)>>
        BY <3>2 DEF st
      <4>2. st.op = "update_found" /\ st.on = u
        BY <4>1 DEF UpdateFound
      <4>3. busy'.found = busy.found /\ busy'.left = <<InsertAbsent(u)>>
        BY <1>7, <4>1, <4>2
      <4>4. ~busy.found => op = "none"
        BY <4>2 DEF op
      <4>5. ~busy.found => db'[u] = db[u]
        BY <1>9, <4>4
      <4>6. busy'.found \/ ~HasRow(u, CallKey)'
        BY <1>8, <2>3, <4>3, <4>5 DEF HasRow
      <4> QED
        BY <4>3, <4>6 DEF LookedIsTrue, Looked
    <3> QED
      BY <2>3, <3>1, <3>2 DEF Looked
  <2> QED
    BY <2>1, <2>2, <2>3 DEF RowsInv, LookedIsTrue, WellMade
<1> QED
  BY <1>1, <1>6, <1>8, <1>10, FileNext DEF RowsInv

LEMMA IdleInv ==
    ASSUME Inv, busy' = Idle, queue' \in Seq(1 .. Len(calls)), UNCHANGED <<db, calls>>, FileInv'
    PROVE  Inv'
<1>1. CallsInv'
  BY IdleType DEF Inv, CallsInv
<1>2. LookedIsTrue'
  BY IdleType DEF LookedIsTrue, WellMade, Harmless, InsertsNothing, Careful
<1> QED
  BY <1>1, <1>2 DEF Inv, RowsInv

LEMMA InitInv == Init => Inv
<1> SUFFICES ASSUME Init PROVE Inv
  OBVIOUS
<1> USE DEF Init
<1>1. FileInv
  BY VersionsType DEF FileInv
<1>2. CallsInv
  BY IdleType, StoreAssumption DEF CallsInv, StoreAssumption
<1>3. RowsInv
  BY IdleType DEF RowsInv, LookedIsTrue
<1> QED
  BY <1>1, <1>2, <1>3 DEF Inv

LEMMA NextInv == Inv /\ [Next]_vars => Inv'
<1> SUFFICES ASSUME Inv, [Next]_vars PROVE Inv'
  OBVIOUS
<1>1. CASE Opening
  <2>1. UNCHANGED <<db, calls, queue, busy>>
    BY <1>1 DEF Opening, OpenDb, ExecuteMigration, StampVersion, CommitMigration, SpawnThread, store
  <2>2. CallsInv'
    BY <2>1 DEF Inv, CallsInv
  <2> QED
    BY <1>1, <2>1, <2>2, FileNext, RowsFrame, BusyIdle DEF Inv
<1>2. CASE Reply \/ StatementFails
  BY <1>2, IdleInv, FileNext DEF Reply, StatementFails, file, Inv, CallsInv
<1>3. CASE Crash
  BY <1>3, IdleInv, FileNext DEF Crash, Inv, CallsInv
<1>4. CASE UNCHANGED vars
  <2>1. UNCHANGED <<db, calls, queue, busy, disk, tx, thread>>
    BY <1>4 DEF vars, store, file
  <2>2. CallsInv'
    BY <2>1 DEF Inv, CallsInv
  <2> QED
    BY <2>1, <2>2, FileNext, RowsFrame, BusyIdle DEF Inv
<1> QED
  BY <1>1, <1>2, <1>3, <1>4, TakeInv, ExecuteInv, CallInv, CallersInv DEF Next, Actor

-------------------------------------------------------------------------------
LEMMA TablesNamed == TableNames \subseteq Tables
<1>1. \A v \in 1 .. 8 : Migrations[v] \subseteq Tables
  BY VersionsType DEF Tables, TablesOf
<1> QED
  BY <1>1 DEF TableNames, Migrations, EarlyTables, LateTables

LEMMA RestNext == ASSUME Inv, RestType, Next PROVE RestType'
<1> USE StoreAssumption DEF RestType, StoreAssumption, store, file
<1>1. CASE Opening
  BY <1>1 DEF Opening, OpenDb, ExecuteMigration, StampVersion, CommitMigration, SpawnThread
<1>2. CASE TakeCommand \/ ExecuteStatement
  BY <1>2 DEF TakeCommand, ExecuteStatement
<1>3. CASE Reply
  <2> DEFINE told == Len(db[Statements(calls[busy.call].name)[1].on])
  <2>1. answer' = [answer EXCEPT ![busy.call] = told] /\ UNCHANGED <<waits, thread, crashes>>
    BY <1>3 DEF Reply
  <2>2. told \in Nat
    <3>1. calls[busy.call].name \in Commands
      <4>1. busy.call \in 1 .. Len(calls)
        BY <1>3 DEF Reply, Inv, CallsInv
      <4>2. calls[busy.call] \in CallType
        BY <4>1, ElementOf DEF Inv, CallsInv
      <4> QED
        BY <4>2 DEF CallType
    <3>2. Statements(calls[busy.call].name)[1] \in Step
      BY <3>1, CommandsAreMade DEF Made
    <3>3. db[Statements(calls[busy.call].name)[1].on] \in Seq(Entry)
      BY <3>2, TablesNamed DEF Inv, RowsInv, Step
    <3> QED
      BY <3>3
  <2> HIDE DEF told
  <2> QED
    BY <2>1, <2>2
<1>4. CASE StatementFails
  BY <1>4 DEF StatementFails
<1>5. CASE Crash
  BY <1>5 DEF Crash
<1>6. ASSUME NEW c \in Clients, NEW name \in Names, NEW key \in Keys, Call(c, name, key)
      PROVE  RestType'
  <2>1. Len(calls) + 1 \in 0 .. MaxCalls
    BY <1>6 DEF Call, Inv, CallsInv
  <2> QED
    BY <1>6, <2>1 DEF Call
<1>7. ASSUME NEW c \in Clients, Receive(c) \/ DropCaller(c) PROVE RestType'
  BY <1>7 DEF Receive, DropCaller
<1> QED
  BY <1>1, <1>2, <1>3, <1>4, <1>5, <1>6, <1>7 DEF Next, Actor

\* The file, the queue and the rows in every reachable state: the inductive
\* invariant of the theorems below (store.rs, db.rs).
THEOREM Invariant == Spec => []Inv
BY InitInv, NextInv, PTL DEF Spec

\* Every variable keeps its type, whatever commands are sent.
THEOREM TypeCorrect == Spec => []TypeOK
<1>1. Init => RestType
  BY StoreAssumption DEF Init, RestType, StoreAssumption
<1>2. Inv /\ RestType /\ [Next]_vars => RestType'
  BY RestNext DEF vars, store, RestType
<1>3. Inv /\ RestType => TypeOK
  <2> SUFFICES ASSUME Inv, RestType PROVE TypeOK
    OBVIOUS
  <2> USE DEF Inv
  <2>1. /\ calls \in Seq([client : Clients, name : Names, key : Keys])
        /\ Len(calls) \in 0 .. MaxCalls
    BY DEF CallsInv, CallType
  <2>2. queue \in Seq(Ids)
    <3>1. 1 .. Len(calls) \subseteq Ids
      BY <2>1, StoreAssumption DEF Ids, StoreAssumption
    <3> QED
      BY <3>1, SeqOfMore DEF CallsInv
  <2>3. Step \subseteq Statement
    BY TablesNamed DEF Step, Statement, Ops
  <2>4. busy \in [call : 0 .. MaxCalls, left : Seq(Statement), found : BOOLEAN]
    <3>1. busy.left \in Seq(Statement)
      BY <2>3, SeqOfMore DEF CallsInv
    <3>2. /\ busy = [call |-> busy.call, left |-> busy.left, found |-> busy.found]
          /\ busy.call \in 0 .. MaxCalls /\ busy.found \in BOOLEAN
      BY <2>1, StoreAssumption DEF CallsInv, StoreAssumption
    <3> QED
      BY <3>1, <3>2
  <2>5. \A v \in 0 .. Latest : TablesOf(v) \subseteq Tables
    BY VersionsType DEF TablesOf, Tables
  <2>6. /\ disk \in [schema : SUBSET Tables, version : 0 .. Latest]
        /\ tx \in [schema : SUBSET Tables, version : -1 .. Latest]
    BY <2>5, VersionsType DEF FileInv, NoTx
  <2> QED
    BY <2>1, <2>2, <2>4, <2>6 DEF RowsInv, RestType, TypeOK
<1> QED
  BY <1>1, <1>2, <1>3, Invariant, PTL DEF Spec

\* Wherever an upgrade of the schema is cut off, from whatever version, the tables
\* are those of the version the file says, so that no migration runs twice.
THEOREM FileOpensAgain == Spec => []OpensAgain
<1>1. Inv => OpensAgain
  BY DEF Inv, FileInv, OpensAgain
<1> QED
  BY <1>1, Invariant, PTL

\* The commands that look for a row and insert what they did not find are never
\* refused for its key (UNIQUE of projects, blobs and terminals): what was found is
\* still so, whatever commands the clients send, and whatever fails or is cut off.
THEOREM KeysNeverClash == Spec => []InsertsNeverClash
<1>1. Inv => InsertsNeverClash
  <2> SUFFICES ASSUME Inv, busy.left # <<>>, Clash(Head(busy.left)) PROVE FALSE
    BY DEF InsertsNeverClash
  <2> DEFINE st == Head(busy.left)
  <2>1. /\ st.op = "insert_absent" /\ st.on \in Keyed
        /\ ~busy.found /\ HasRow(st.on, CallKey)
    BY DEF Clash, CallKey, Keyed
  <2>2. ~Harmless(busy.left)
    BY <2>1 DEF Harmless, InsertsNothing, Inv, CallsInv
  <2>3. \A t \in Keyed : ~Careful(busy.left, t)
    BY <2>1 DEF Careful, Look
  <2>4. ASSUME NEW t \in Keyed, Looked(busy.left, t) PROVE st.on = t
    BY <2>4 DEF Looked, InsertAbsent, UpdateFound
  <2> QED
    BY <2>1, <2>2, <2>3, <2>4 DEF Inv, RowsInv, LookedIsTrue, WellMade
<1> QED
  BY <1>1, Invariant, PTL

\* Every statement the thread executes finds its tables, and the indexes the
\* triggers write to: it starts only when the schema is up to date.
THEOREM TablesAreFound == Spec => []TablesAreThere
<1>1. Inv => TablesAreThere
  <2> SUFFICES ASSUME Inv, thread = "up", NEW name \in Commands, NEW n \in DOMAIN Statements(name)
               PROVE  Triggered(Statements(name)[n]) \subseteq disk.schema
    BY DEF TablesAreThere
  <2>1. disk.schema = Tables
    BY DEF Inv, FileInv, Tables
  <2>2. Statements(name) \in Seq(Step)
    BY CommandsAreMade DEF Made
  <2>3. Statements(name)[n] \in Step
    BY <2>2
  <2>4. Statements(name)[n].on \in TableNames
    BY <2>3 DEF Step
  <2>5. Triggered(Statements(name)[n]) \subseteq TableNames
    BY <2>4 DEF Triggered, Indexes, TableNames
  <2> QED
    BY <2>1, <2>5, TablesNamed
<1> QED
  BY <1>1, Invariant, PTL
-------------------------------------------------------------------------------
(* The store is the atomic store.  A command takes effect where its answer  *)
(* goes out: until then its callers see the tables without what it wrote.   *)

\* The tables as the callers see them.
Seen == [t \in Tables |-> Before(db[t])]

\* What a statement writes, the tables after it, whether the row that the first
\* statement of a call looks for is there, and the tables after n statements.
Writes(st, found) ==
    CASE st.op \in {"insert", "update", "delete"} -> st.op
      [] st.op = "update_found" /\ found -> "update"
      [] st.op = "insert_absent" /\ ~found -> "insert"
      [] OTHER -> "none"

AfterOne(d, st, call, i, found) ==
    [t \in Tables |->
        IF Writes(st, found) # "none" /\ t \in Triggered(st)
        THEN Append(d[t], [call |-> i, op |-> Writes(st, found), key |-> call.key])
        ELSE d[t]]

\* One value for each table.
ForTables(d) == d = [t \in Tables |-> d[t]]

Finds(d, call) ==
    LET t == Statements(call.name)[1].on
    IN \E n \in DOMAIN d[t] :
          /\ d[t][n].op = "insert" /\ d[t][n].key = call.key
          /\ t = "approvals" => \A m \in DOMAIN d[t] :
                                   m > n /\ d[t][m].key = call.key => d[t][m].op # "update"

Ran(d, call, i, n) ==
    LET X(e, k) == AfterOne(e, Statements(call.name)[k], call, i, Finds(d, call))
    IN CASE n = 0 -> d
         [] n = 1 -> X(d, 1)
         [] n = 2 -> X(X(d, 1), 2)
         [] n = 3 -> X(X(X(d, 1), 2), 3)

\* The queue holds the calls that are not answered, oldest first, and after the one
\* that the thread executes.
PendingInv ==
    /\ \A m, n \in DOMAIN queue : m < n => queue[m] < queue[n]
    /\ \A n \in DOMAIN queue : answer[queue[n]] = None /\ busy.call < queue[n]
    /\ busy.call # 0 => answer[busy.call] = None
    /\ \A i \in 1 .. Len(calls) :
          answer[i] = None => i = busy.call \/ \E n \in DOMAIN queue : queue[n] = i
    /\ \A i \in Ids : i > Len(calls) => answer[i] = None
    /\ \A c \in Clients : waits[c] <= Len(calls)
    /\ thread # "up" => busy = Idle

\* What is in the tables was written by calls that are answered, or by this one.
EntriesInv ==
    \A t \in Tables : \A n \in DOMAIN db[t] :
        /\ db[t][n].call \in 1 .. Len(calls)
        /\ answer[db[t][n].call] # None \/ db[t][n].call = busy.call

\* How far the thread has come with its command, and that the tables are what the
\* statements up to there made of those that the callers see.
Halfway(n) ==
    LET sts == Statements(calls[busy.call].name)
    IN /\ Len(busy.left) = Len(sts) - n
       /\ \A k \in 1 .. Len(sts) - n : busy.left[k] = sts[n + k]
       /\ db = Ran(Seen, calls[busy.call], busy.call, n)
       /\ n # 0 /\ sts[1].op = "look" => busy.found = Finds(Seen, calls[busy.call])
       /\ n # 0 /\ Demanding(sts[1]) => Finds(Seen, calls[busy.call])

HalfwayInv ==
    busy.call # 0 => \E n \in 0 .. Len(Statements(calls[busy.call].name)) : Halfway(n)

RefInv == PendingInv /\ EntriesInv /\ HalfwayInv

LEMMA CallIs ==
    ASSUME CallsInv, NEW i \in 1 .. Len(calls)
    PROVE  /\ calls[i] \in CallType /\ calls[i].name \in Commands /\ calls[i].key \in Keys
           /\ i \in Ids /\ Made(Statements(calls[i].name))
<1>1. calls[i] \in CallType
  BY ElementOf DEF CallsInv
<1>2. calls[i].name \in Commands /\ calls[i].key \in Keys
  BY <1>1, StoreAssumption DEF CallType, StoreAssumption
<1>3. i \in Ids
  BY StoreAssumption DEF CallsInv, StoreAssumption, Ids
<1> QED
  BY <1>1, <1>2, <1>3, CommandsAreMade

\* The commands are the same in both modules.
LEMMA SameStatements == \A name : Abstract!Statements(name) = Statements(name)
BY DEF Statements, EventStatements, SessionStatements, MemoryStatements, EmbeddingStatements,
       CriticStatements, JobStatements, ApprovalStatements, RunStatements, PinStatements,
       TerminalStatements, Read, Insert, Update, Delete, Look, UpdateFound, InsertAbsent,
       EventCalls, SessionCalls, MemoryCalls, EmbeddingCalls, CriticCalls, JobCalls,
       ApprovalCalls, RunCalls, PinCalls, TerminalCalls,
       Abstract!Statements, Abstract!EventStatements, Abstract!SessionStatements,
       Abstract!MemoryStatements, Abstract!EmbeddingStatements, Abstract!CriticStatements,
       Abstract!JobStatements, Abstract!ApprovalStatements, Abstract!RunStatements,
       Abstract!PinStatements, Abstract!TerminalStatements, Abstract!Read, Abstract!Insert,
       Abstract!Update, Abstract!Delete, Abstract!Look, Abstract!UpdateFound,
       Abstract!InsertAbsent, Abstract!EventCalls, Abstract!SessionCalls, Abstract!MemoryCalls,
       Abstract!EmbeddingCalls, Abstract!CriticCalls, Abstract!JobCalls,
       Abstract!ApprovalCalls, Abstract!RunCalls, Abstract!PinCalls, Abstract!TerminalCalls

LEMMA SameTables ==
    /\ Abstract!Tables = Tables /\ Abstract!Ids = Ids
    /\ \A st : Abstract!Triggered(st) = Triggered(st)
    /\ \A st : Abstract!Demanding(st) = Demanding(st)
    /\ Abstract!None = None /\ Abstract!Lost = Lost /\ Abstract!Err = Err
<1>1. \A st : Abstract!Triggered(st) = Triggered(st)
  BY DEF Triggered, Indexes, Abstract!Triggered, Abstract!Indexes
<1>2. \A st : Abstract!Demanding(st) = Demanding(st)
  BY DEF Demanding, Abstract!Demanding
<1>3. /\ Abstract!Tables = Tables /\ Abstract!Ids = Ids
      /\ Abstract!None = None /\ Abstract!Lost = Lost /\ Abstract!Err = Err
  BY DEF Tables, TablesOf, Latest, Migrations, EarlyTables, LateTables, None, Lost, Err, Ids,
         Abstract!Tables, Abstract!TablesOf, Abstract!Latest, Abstract!Migrations,
         Abstract!EarlyTables, Abstract!LateTables, Abstract!None, Abstract!Lost,
         Abstract!Err, Abstract!Ids
<1> QED
  BY <1>1, <1>2, <1>3

\* One statement more: what After says, without its recursion.
LEMMA AfterNext ==
    ASSUME NEW d, NEW i
    PROVE  LET sts == Abstract!Statements(calls[i].name)
               found == Abstract!HasRow(d, sts[1].on, calls[i].key)
           IN /\ Abstract!After(d, i, 0) = d
              /\ \A n \in 0 .. 2 : Abstract!After(d, i, n + 1) =
                    Abstract!Execute(Abstract!After(d, i, n), sts[n + 1], i, found)
<1> DEFINE sts == Abstract!Statements(calls[i].name)
           found == Abstract!HasRow(d, sts[1].on, calls[i].key)
           X(e, k) == Abstract!Execute(e, sts[k], i, found)
           Done(m) == CHOOSE f : f = [k \in 0 .. m |-> IF k = 0 THEN d ELSE X(f[k - 1], k)]
<1>1. ASSUME NEW m PROVE Abstract!After(d, i, m) = Done(m)[m]
  BY DEF Abstract!After
<1>2. ASSUME NEW m \in 0 .. 3
      PROVE  Done(m) = [k \in 0 .. m |-> IF k = 0 THEN d ELSE X(Done(m)[k - 1], k)]
  <2> HIDE DEF X
  <2> DEFINE g == [k \in 0 .. m |-> IF k = 0 THEN d ELSE IF k = 1 THEN X(d, 1)
                                    ELSE IF k = 2 THEN X(X(d, 1), 2) ELSE X(X(X(d, 1), 2), 3)]
  <2>1. g = [k \in 0 .. m |-> IF k = 0 THEN d ELSE X(g[k - 1], k)]
    OBVIOUS
  <2> HIDE DEF g
  <2> QED
    BY <2>1
<1> HIDE DEF X, Done
<1>3. ASSUME NEW m \in 0 .. 3
      PROVE  /\ Done(m)[0] = d
             /\ m >= 1 => Done(m)[1] = X(d, 1)
             /\ m >= 2 => Done(m)[2] = X(X(d, 1), 2)
             /\ m >= 3 => Done(m)[3] = X(X(X(d, 1), 2), 3)
  <2>1. Done(m)[0] = d /\ \A k \in 1 .. m : Done(m)[k] = X(Done(m)[k - 1], k)
    BY <1>2
  <2>2. m >= 1 => Done(m)[1] = X(d, 1)
    BY <2>1
  <2>3. m >= 2 => Done(m)[2] = X(X(d, 1), 2)
    BY <2>1, <2>2
  <2>4. m >= 3 => Done(m)[3] = X(X(X(d, 1), 2), 3)
    BY <2>1, <2>3
  <2> QED
    BY <2>1, <2>2, <2>3, <2>4
<1>4. \A n \in 0 .. 2 : Done(n + 1)[n + 1] = X(Done(n)[n], n + 1)
  <2>1. /\ Done(0)[0] = d /\ Done(1)[1] = X(d, 1) /\ Done(2)[2] = X(X(d, 1), 2)
        /\ Done(3)[3] = X(X(X(d, 1), 2), 3)
    BY <1>3
  <2> QED
    BY <2>1
<1>5. \A n \in 0 .. 2 : Abstract!After(d, i, n + 1) = X(Abstract!After(d, i, n), n + 1)
  BY <1>1, <1>4
<1>6. Abstract!After(d, i, 0) = d
  BY <1>1, <1>3
<1> QED
  BY <1>5, <1>6 DEF X

\* What one statement does to the tables, in the words of the thread.
LEMMA ExecuteIs ==
    ASSUME NEW d, NEW st, NEW i, NEW found, ForTables(d)
    PROVE  Abstract!Execute(d, st, i, found) = AfterOne(d, st, calls[i], i, found)
<1> DEFINE entry == [call |-> i, op |-> Writes(st, found), key |-> calls[i].key]
<1>1. Abstract!Execute(d, st, i, found) =
         IF Writes(st, found) = "none" THEN d
         ELSE [t \in Abstract!Tables |-> IF t \in Abstract!Triggered(st)
                                         THEN Append(d[t], entry) ELSE d[t]]
  BY DEF Abstract!Execute, Writes
<1>2. AfterOne(d, st, calls[i], i, found) =
         [t \in Tables |-> IF Writes(st, found) # "none" /\ t \in Triggered(st)
                           THEN Append(d[t], entry) ELSE d[t]]
  BY DEF AfterOne
<1> HIDE DEF entry
<1>3. [t \in Abstract!Tables |-> IF t \in Abstract!Triggered(st)
                                 THEN Append(d[t], entry) ELSE d[t]]
        = [t \in Tables |-> IF t \in Triggered(st) THEN Append(d[t], entry) ELSE d[t]]
  BY SameTables
<1>4. CASE Writes(st, found) = "none"
  BY <1>1, <1>2, <1>4 DEF ForTables
<1>5. CASE Writes(st, found) # "none"
  BY <1>1, <1>2, <1>3, <1>5
<1> QED
  BY <1>4, <1>5

LEMMA StepIs ==
    ASSUME NEW d, NEW st, NEW call, NEW i, NEW found
    PROVE  ForTables(AfterOne(d, st, call, i, found))
BY DEF AfterOne, ForTables

LEMMA RanNext ==
    ASSUME NEW d, NEW call, NEW i, NEW n \in 0 .. 2
    PROVE  /\ Ran(d, call, i, 0) = d
           /\ Ran(d, call, i, n + 1) =
                 AfterOne(Ran(d, call, i, n), Statements(call.name)[n + 1], call, i, Finds(d, call))
<1>1. CASE n = 0
  BY <1>1 DEF Ran
<1>2. CASE n = 1
  BY <1>2 DEF Ran
<1>3. CASE n = 2
  BY <1>3 DEF Ran
<1> QED
  BY <1>1, <1>2, <1>3

LEMMA FindsIs ==
    ASSUME NEW d, NEW i
    PROVE  Abstract!HasRow(d, Statements(calls[i].name)[1].on, calls[i].key) = Finds(d, calls[i])
BY DEF Abstract!HasRow, Finds

LEMMA FindsNow ==
    ASSUME NEW d, d = db, NEW call
    PROVE  Finds(d, call) = HasRow(Statements(call.name)[1].on, call.key)
BY DEF Finds, HasRow

LEMMA AfterIs ==
    ASSUME NEW d, NEW i, ForTables(d), NEW n \in 0 .. 3
    PROVE  Abstract!After(d, i, n) = Ran(d, calls[i], i, n)
<1> DEFINE sts == Statements(calls[i].name)
           found == Finds(d, calls[i])
           A(m) == Abstract!After(d, i, m)
           R(m) == Ran(d, calls[i], i, m)
           X(e, k) == AfterOne(e, sts[k], calls[i], i, found)
<1>1. A(0) = d /\ \A m \in 0 .. 2 : A(m + 1) = Abstract!Execute(A(m), sts[m + 1], i, found)
  BY AfterNext, SameStatements, FindsIs
<1>2. R(0) = d /\ \A m \in 0 .. 2 : R(m + 1) = X(R(m), m + 1)
  BY RanNext
<1>3. \A e, k : ForTables(X(e, k))
  BY StepIs
<1>4. \A e, k : ForTables(e) => Abstract!Execute(e, sts[k], i, found) = X(e, k)
  BY ExecuteIs
<1> HIDE DEF A, R, X, sts, found
<1>5. A(1) = R(1) /\ ForTables(R(1))
  BY <1>1, <1>2, <1>3, <1>4
<1>6. A(2) = R(2) /\ ForTables(R(2))
  <2>1. A(2) = Abstract!Execute(A(1), sts[2], i, found) /\ R(2) = X(R(1), 2)
    BY <1>1, <1>2
  <2> QED
    BY <1>3, <1>4, <1>5, <2>1
<1>7. A(3) = R(3)
  <2>1. A(3) = Abstract!Execute(A(2), sts[3], i, found) /\ R(3) = X(R(2), 3)
    BY <1>1, <1>2
  <2> QED
    BY <1>4, <1>6, <2>1
<1>8. A(n) = R(n)
  BY <1>1, <1>2, <1>5, <1>6, <1>7
<1> QED
  BY <1>8 DEF A, R

\* A log without what call b wrote.
Without(log, b) == [n \in {n \in DOMAIN log : log[n].call # b} |-> log[n]]

LEMMA SeenIs == Seen = [t \in Tables |-> Without(db[t], busy.call)]
BY DEF Seen, Before, Without

\* Where a command has written nothing, its callers see everything.
LEMMA NoneOf ==
    ASSUME NEW log \in Seq(Entry), NEW b, \A n \in DOMAIN log : log[n].call # b
    PROVE  Without(log, b) = log
<1>1. {n \in DOMAIN log : log[n].call # b} = DOMAIN log
  OBVIOUS
<1>2. log = [n \in DOMAIN log |-> log[n]]
  OBVIOUS
<1> QED
  BY <1>1, <1>2 DEF Without

\* What the command writes, its callers do not see.
LEMMA WithoutNew ==
    ASSUME NEW log \in Seq(Entry), NEW e \in Entry
    PROVE  Without(Append(log, e), e.call) = Without(log, e.call)
<1> DEFINE more == Append(log, e)
<1>1. /\ Len(log) \in Nat /\ DOMAIN log = 1 .. Len(log)
      /\ DOMAIN more = 1 .. (Len(log) + 1) /\ more[Len(log) + 1] = e
      /\ \A n \in 1 .. Len(log) : more[n] = log[n]
  OBVIOUS
<1> HIDE DEF more
<1>2. {n \in DOMAIN more : more[n].call # e.call} = {n \in DOMAIN log : log[n].call # e.call}
  BY <1>1
<1>3. \A n \in {n \in DOMAIN log : log[n].call # e.call} : more[n] = log[n]
  BY <1>1
<1> QED
  BY <1>2, <1>3 DEF more, Without

\* While no command is executed, the callers see the tables as they are.
LEMMA SeenWhenIdle ==
    ASSUME NEW d \in [Tables -> Seq(Entry)], NEW b,
           \A t \in Tables : \A n \in DOMAIN d[t] : d[t][n].call # b
    PROVE  [t \in Tables |-> Without(d[t], b)] = d
<1>1. \A t \in Tables : Without(d[t], b) = d[t]
  <2> TAKE t \in Tables
  <2>1. d[t] \in Seq(Entry)
    OBVIOUS
  <2> QED
    BY <2>1, NoneOf
<1> QED
  BY <1>1

\* The command that the thread executes is the oldest of all that are not answered.
LEMMA BusyEligible ==
    ASSUME CallsInv, PendingInv, busy.call # 0
    PROVE  busy.call \in Abstract!Eligible /\ busy.call \in 1 .. Len(calls)
<1>1. busy.call \in 1 .. Len(calls)
  BY DEF CallsInv
<1>2. Abstract!Pending = {i \in 1 .. Len(calls) : answer[i] = None}
  BY SameTables DEF Abstract!Pending, Abstract!Made
<1>3. busy.call \in Abstract!Pending
  BY <1>1, <1>2 DEF PendingInv
<1>4. ASSUME NEW j \in Abstract!Pending PROVE busy.call <= j
  <2>1. j = busy.call \/ \E n \in DOMAIN queue : queue[n] = j
    BY <1>2, <1>4 DEF PendingInv
  <2>2. \A n \in DOMAIN queue : busy.call < queue[n]
    BY DEF PendingInv
  <2>3. j \in Int
    BY <1>2, <1>4
  <2> QED
    BY <1>1, <2>1, <2>2, <2>3
<1> QED
  BY <1>1, <1>3, <1>4 DEF Abstract!Eligible

LEMMA RefInit == Init => RefInv
<1> SUFFICES ASSUME Init PROVE RefInv
  OBVIOUS
<1> USE IdleType DEF Init
<1>1. PendingInv
  BY StoreAssumption DEF PendingInv, StoreAssumption
<1>2. EntriesInv
  <2>1. \A t \in Tables : DOMAIN db[t] = {}
    OBVIOUS
  <2> QED
    BY <2>1 DEF EntriesInv
<1>3. HalfwayInv
  BY DEF HalfwayInv
<1> QED
  BY <1>1, <1>2, <1>3 DEF RefInv

\* A step that executes nothing and takes nothing.
LEMMA HalfwayFrame ==
    ASSUME CallsInv, HalfwayInv, UNCHANGED <<db, busy>>,
           busy.call # 0 => calls'[busy.call] = calls[busy.call]
    PROVE  HalfwayInv'
<1> SUFFICES ASSUME busy.call # 0 PROVE HalfwayInv'
  BY DEF HalfwayInv
<1>1. PICK n \in 0 .. Len(Statements(calls[busy.call].name)) : Halfway(n)
  BY DEF HalfwayInv
<1>2. Seen' = Seen
  BY DEF Seen, Before
<1>3. Halfway(n)'
  BY <1>1, <1>2 DEF Halfway
<1> QED
  BY <1>3 DEF HalfwayInv

\* A step that leaves the tables, the calls, the queue and the answers alone.
LEMMA RefFrame ==
    ASSUME Inv, RefInv, UNCHANGED <<db, busy, calls, queue, answer>>,
           \A c \in Clients : waits'[c] <= Len(calls),
           thread' # "up" => busy = Idle
    PROVE  RefInv'
<1>1. PendingInv' /\ EntriesInv'
  BY DEF RefInv, PendingInv, EntriesInv
<1>2. HalfwayInv'
  BY HalfwayFrame DEF Inv, RefInv
<1> QED
  BY <1>1, <1>2 DEF RefInv

LEMMA CallRef ==
    ASSUME Inv, Inv', RestType, RefInv, NEW c \in Clients, NEW name \in Names, NEW key \in Keys,
           Call(c, name, key)
    PROVE  RefInv'
<1> DEFINE new == [client |-> c, name |-> name, key |-> key]
           N == Len(calls) + 1
<1>1. /\ calls' = Append(calls, new) /\ queue' = Append(queue, N)
      /\ waits' = [waits EXCEPT ![c] = N] /\ thread = "up" /\ Len(calls) < MaxCalls
      /\ UNCHANGED <<db, busy, answer, thread>>
  BY DEF Call
<1>2. new \in CallType /\ calls \in Seq(CallType) /\ Len(calls) \in Nat
  BY DEF CallType, Inv, CallsInv
<1>3. /\ Len(calls') = N /\ \A i \in 1 .. Len(calls) : calls'[i] = calls[i]
  BY <1>1, <1>2
<1>4. /\ queue \in Seq(1 .. Len(calls)) /\ busy.call \in 0 .. Len(calls) /\ N \in Ids
  BY <1>1, <1>2, StoreAssumption DEF Inv, CallsInv, Ids, StoreAssumption
<1>5. /\ Len(queue) \in Nat /\ DOMAIN queue = 1 .. Len(queue)
      /\ \A n \in DOMAIN queue : queue'[n] = queue[n] /\ queue[n] \in 1 .. Len(calls)
      /\ DOMAIN queue' = DOMAIN queue \cup {Len(queue) + 1} /\ queue'[Len(queue) + 1] = N
  <2>1. queue \in Seq(Nat) /\ N \in Nat
    BY <1>2, <1>4
  <2>2. \A n \in DOMAIN queue : queue[n] \in 1 .. Len(calls)
    BY <1>4
  <2> HIDE DEF N
  <2> QED
    BY <1>1, <2>1, <2>2
<1> HIDE DEF new
<1>6. PendingInv'
  <2>1. \A m, n \in DOMAIN queue' : m < n => queue'[m] < queue'[n]
    BY <1>2, <1>5 DEF RefInv, PendingInv
  <2>2. \A n \in DOMAIN queue' : answer'[queue'[n]] = None /\ busy'.call < queue'[n]
    BY <1>1, <1>2, <1>4, <1>5 DEF RefInv, PendingInv
  <2>3. \A i \in 1 .. Len(calls') :
           answer'[i] = None => i = busy'.call \/ \E n \in DOMAIN queue' : queue'[n] = i
    <3> SUFFICES ASSUME NEW i \in 1 .. N, answer[i] = None, i # busy.call
                 PROVE  \E n \in DOMAIN queue' : queue'[n] = i
      BY <1>1, <1>3
    <3>1. CASE i = N
      BY <1>5, <3>1
    <3>2. CASE i # N
      <4>1. i \in 1 .. Len(calls)
        BY <1>2, <3>2
      <4>2. PICK n \in DOMAIN queue : queue[n] = i
        BY <4>1 DEF RefInv, PendingInv
      <4> QED
        BY <1>5, <4>2
    <3> QED
      BY <3>1, <3>2
  <2>4. \A i \in Ids : i > Len(calls') => answer'[i] = None
    BY <1>1, <1>2, <1>3, StoreAssumption DEF RefInv, PendingInv, Ids, StoreAssumption
  <2>5. \A d \in Clients : waits'[d] <= Len(calls')
    BY <1>1, <1>2, <1>3, StoreAssumption DEF RefInv, PendingInv, RestType, StoreAssumption
  <2> QED
    BY <1>1, <2>1, <2>2, <2>3, <2>4, <2>5 DEF RefInv, PendingInv
<1>7. EntriesInv'
  <2>1. 1 .. Len(calls) \subseteq 1 .. Len(calls')
    BY <1>2, <1>3
  <2> QED
    BY <1>1, <2>1 DEF RefInv, EntriesInv
<1>8. HalfwayInv'
  BY <1>1, <1>3, <1>4, HalfwayFrame DEF Inv, RefInv
<1> QED
  BY <1>6, <1>7, <1>8 DEF RefInv

LEMMA TakeRef ==
    ASSUME Inv, Inv', RestType, RefInv, TakeCommand
    PROVE  RefInv' /\ Seen' = Seen
<1> DEFINE i == queue[1]
           sts == Statements(calls[i].name)
<1>1. /\ busy = Idle /\ queue # <<>> /\ queue' = Tail(queue) /\ thread = "up"
      /\ busy' = [call |-> Head(queue), left |-> Statements(calls[Head(queue)].name),
                  found |-> FALSE]
      /\ UNCHANGED <<db, calls, waits, answer, thread>>
  BY DEF TakeCommand
<1>2. /\ Head(queue) = i /\ i \in 1 .. Len(calls) /\ Len(queue) \in Nat /\ 1 \in DOMAIN queue
      /\ Len(calls) \in Nat
      /\ \A n \in DOMAIN queue' : n + 1 \in DOMAIN queue /\ queue'[n] = queue[n + 1] /\ n \in Nat
                                  /\ n >= 1
      /\ \A n \in DOMAIN queue : n # 1 => n - 1 \in DOMAIN queue'
      /\ \A n \in DOMAIN queue : n \in Nat /\ n >= 1
  <2>1. queue \in Seq(1 .. Len(calls))
    BY DEF Inv, CallsInv
  <2> QED
    BY <1>1, <2>1, SMTT(30) DEF Inv, CallsInv
<1>3. busy'.call = i /\ busy'.left = sts /\ busy.call = 0
  BY <1>1, <1>2, IdleType
<1>4. Made(sts) /\ Len(sts) \in Nat
  BY <1>2, CallIs DEF Inv, Made
<1>5. answer[i] = None
  BY <1>2 DEF RefInv, PendingInv
<1>6. Seen = db /\ Seen' = db
  <2>1. \A t \in Tables : \A n \in DOMAIN db[t] : db[t][n].call # 0 /\ db[t][n].call # i
    BY <1>2, <1>3, <1>5 DEF RefInv, EntriesInv
  <2>2. db \in [Tables -> Seq(Entry)]
    BY DEF Inv, RowsInv
  <2>3. [t \in Tables |-> Without(db[t], 0)] = db
    BY <2>1, <2>2, SeenWhenIdle
  <2>4. [t \in Tables |-> Without(db[t], i)] = db
    BY <2>1, <2>2, SeenWhenIdle
  <2>5. Seen = [t \in Tables |-> Without(db[t], busy.call)]
    BY DEF Seen, Before, Without
  <2>6. Seen' = [t \in Tables |-> Without(db'[t], busy'.call)]
    BY DEF Seen, Before, Without
  <2> QED
    BY <1>1, <1>3, <2>3, <2>4, <2>5, <2>6
<1> HIDE DEF i, sts
<1>7. PendingInv'
  <2>1. /\ \A m, n \in DOMAIN queue' : m < n => queue'[m] < queue'[n]
        /\ \A n \in DOMAIN queue' : answer[queue'[n]] = None /\ i < queue'[n]
    <3>1. \A m, n \in DOMAIN queue : m < n => queue[m] < queue[n]
      BY DEF RefInv, PendingInv
    <3>2. \A n \in DOMAIN queue : answer[queue[n]] = None
      BY DEF RefInv, PendingInv
    <3>3. \A m, n \in DOMAIN queue' : m < n => queue'[m] < queue'[n]
      BY <1>2, <3>1
    <3>4. \A n \in DOMAIN queue' : answer[queue'[n]] = None
      BY <1>2, <3>2
    <3>5. \A n \in DOMAIN queue' : i < queue'[n]
      <4> TAKE n \in DOMAIN queue'
      <4>1. 1 < n + 1 /\ n + 1 \in DOMAIN queue
        BY <1>2
      <4> QED
        BY <1>2, <3>1, <4>1 DEF i
    <3> QED
      BY <3>3, <3>4, <3>5
  <2>2. \A j \in 1 .. Len(calls) : answer[j] = None =>
           j = i \/ \E n \in DOMAIN queue' : queue'[n] = j
    <3> SUFFICES ASSUME NEW j \in 1 .. Len(calls), answer[j] = None, j # i
                 PROVE  \E n \in DOMAIN queue' : queue'[n] = j
      OBVIOUS
    <3>1. PICK n \in DOMAIN queue : queue[n] = j
      BY <1>2, <1>3 DEF RefInv, PendingInv
    <3>2. n # 1
      BY <3>1 DEF i
    <3>3. n - 1 \in DOMAIN queue' /\ (n - 1) + 1 = n
      BY <1>2, <3>2
    <3> QED
      BY <1>2, <3>1, <3>3
  <2> QED
    BY <1>1, <1>3, <1>5, <2>1, <2>2 DEF RefInv, PendingInv
<1>8. EntriesInv'
  BY <1>1, <1>3 DEF RefInv, EntriesInv
<1>9. HalfwayInv'
  <2>1. Halfway(0)'
    <3>1. Ran(db, calls[i], i, 0) = db
      BY RanNext
    <3> QED
      BY <1>1, <1>3, <1>4, <1>6, <3>1 DEF Halfway, sts
  <2>2. 0 \in 0 .. Len(Statements(calls'[busy'.call].name))
    BY <1>1, <1>3, <1>4 DEF sts
  <2> QED
    BY <2>1, <2>2 DEF HalfwayInv
<1> QED
  BY <1>6, <1>7, <1>8, <1>9 DEF RefInv

LEMMA ExecuteRef ==
    ASSUME Inv, Inv', RestType, RefInv, ExecuteStatement
    PROVE  RefInv' /\ Seen' = Seen
<1> DEFINE st == Head(busy.left)
           call == calls[busy.call]
           sts == Statements(call.name)
           op == CASE st.op \in {"insert", "update", "delete"} -> st.op
                   [] st.op = "update_found" /\ busy.found -> "update"
                   [] st.op = "insert_absent" /\ ~busy.found -> "insert"
                   [] OTHER -> "none"
           new == [call |-> busy.call, op |-> op, key |-> call.key]
<1>1. /\ busy.left # <<>> /\ UNCHANGED <<calls, waits, answer, queue, thread>>
      /\ db' = [t \in Tables |-> IF op # "none" /\ t \in Triggered(st)
                                 THEN Append(db[t], new) ELSE db[t]]
      /\ busy' = [busy EXCEPT !.left = Tail(@),
                     !.found = IF st.op = "look" THEN HasRow(st.on, call.key) ELSE @]
      /\ thread = "up" /\ ~Missing(st)
  BY DEF ExecuteStatement
<1>2. /\ busy.call \in 1 .. Len(calls) /\ busy.left \in Seq(Step)
      /\ busy'.call = busy.call /\ busy'.left = Tail(busy.left)
      /\ busy'.found = IF st.op = "look" THEN HasRow(st.on, call.key) ELSE busy.found
  <2>1. busy.left \in Seq(Step) /\ busy # Idle /\ busy.call \in 0 .. Len(calls)
    BY <1>1, IdleType DEF Inv, CallsInv
  <2> HIDE DEF st, call
  <2> QED
    BY <1>1, <2>1 DEF Inv, CallsInv
<1>3. /\ Made(sts) /\ call.key \in Keys /\ busy.call \in Ids
  BY <1>2, CallIs DEF Inv
<1>4. op = Writes(st, busy.found)
  BY DEF Writes
<1>5. new.call = busy.call /\ (op # "none" => new \in Entry)
  <2>1. op \in {"insert", "update", "delete", "none"}
    <3> HIDE DEF st
    <3> QED
      OBVIOUS
  <2> HIDE DEF op
  <2> QED
    BY <1>3, <2>1 DEF Entry
<1>6. PICK n \in 0 .. Len(sts) : Halfway(n)
  BY <1>2 DEF RefInv, HalfwayInv
<1>7. /\ Len(sts) \in 1 .. 3 /\ n \in 0 .. 2 /\ n + 1 \in 0 .. Len(sts)
      /\ st = sts[n + 1]
      /\ Len(Tail(busy.left)) = Len(sts) - (n + 1)
      /\ \A k \in 1 .. Len(sts) - (n + 1) : Tail(busy.left)[k] = sts[(n + 1) + k]
  <2>1. Len(busy.left) \in Nat /\ Len(busy.left) # 0
    BY <1>1, <1>2
  <2>2. Len(busy.left) = Len(sts) - n /\ \A k \in 1 .. Len(sts) - n : busy.left[k] = sts[n + k]
    BY <1>6 DEF Halfway
  <2>3. Len(sts) \in 1 .. 3
    BY <1>3 DEF Made, Shaped
  <2>4. /\ st = busy.left[1] /\ Len(Tail(busy.left)) = Len(busy.left) - 1
        /\ \A k \in 1 .. Len(busy.left) - 1 : Tail(busy.left)[k] = busy.left[k + 1]
    BY <1>1, <1>2
  <2> HIDE DEF st, sts
  <2>5. n \in 0 .. 2 /\ n + 1 \in 0 .. Len(sts) /\ st = sts[n + 1]
    BY <2>1, <2>2, <2>3, <2>4
  <2>6. ASSUME NEW k \in 1 .. Len(sts) - (n + 1) PROVE Tail(busy.left)[k] = sts[(n + 1) + k]
    <3>1. k + 1 \in 1 .. Len(sts) - n /\ k \in 1 .. Len(busy.left) - 1 /\ n + (k + 1) = (n + 1) + k
      BY <2>2, <2>3
    <3> QED
      BY <2>2, <2>4, <3>1
  <2> QED
    BY <2>2, <2>3, <2>4, <2>5, <2>6
<1>8. Seen' = Seen
  <2>1. ASSUME NEW t \in Tables PROVE Without(db'[t], busy.call) = Without(db[t], busy.call)
    <3>1. db[t] \in Seq(Entry)
      BY DEF Inv, RowsInv
    <3>2. db'[t] = db[t] \/ (db'[t] = Append(db[t], new) /\ op # "none")
      <4> HIDE DEF op, new, st
      <4> QED
        BY <1>1
    <3>3. op # "none" => Without(Append(db[t], new), busy.call) = Without(db[t], busy.call)
      <4> HIDE DEF new, op
      <4> QED
        BY <1>5, <3>1, WithoutNew
    <3> QED
      BY <3>2, <3>3
  <2>2. Seen = [t \in Tables |-> Without(db[t], busy.call)]
    BY DEF Seen, Before, Without
  <2>3. Seen' = [t \in Tables |-> Without(db'[t], busy'.call)]
    BY DEF Seen, Before, Without
  <2> QED
    BY <1>2, <2>1, <2>2, <2>3
<1>9. PendingInv'
  BY <1>1, <1>2 DEF RefInv, PendingInv
<1>10. EntriesInv'
  <2> SUFFICES ASSUME NEW t \in Tables, NEW m \in DOMAIN db'[t]
               PROVE  /\ db'[t][m].call \in 1 .. Len(calls)
                      /\ answer[db'[t][m].call] # None \/ db'[t][m].call = busy.call
    BY <1>1, <1>2 DEF EntriesInv
  <2>1. db[t] \in Seq(Entry)
    BY DEF Inv, RowsInv
  <2>2. CASE db'[t] = db[t]
    BY <2>2 DEF RefInv, EntriesInv
  <2>3. CASE db'[t] = Append(db[t], new) /\ op # "none"
    <3>1. (m \in DOMAIN db[t] /\ db'[t][m] = db[t][m]) \/ db'[t][m] = new
      <4> HIDE DEF new, op
      <4>1. new \in Entry
        BY <1>5, <2>3
      <4> QED
        BY <2>1, <2>3, <4>1
    <3> QED
      BY <1>2, <1>5, <3>1 DEF RefInv, EntriesInv
  <2>4. db'[t] = db[t] \/ (db'[t] = Append(db[t], new) /\ op # "none")
    <3> HIDE DEF op, new, st
    <3> QED
      BY <1>1
  <2> QED
    BY <2>2, <2>3, <2>4
<1>11. db = Ran(Seen, call, busy.call, n)
  BY <1>6 DEF Halfway
<1>12. st.op = "look" => n = 0
  <2>1. n + 1 \in DOMAIN sts
    BY <1>3, <1>7 DEF Made
  <2> HIDE DEF st, sts
  <2>2. CASE \A k \in DOMAIN sts : Plain(sts[k])
    BY <1>7, <2>1, <2>2 DEF Plain
  <2>3. CASE \A k \in 2 .. Len(sts) : sts[k].op # "look"
    BY <1>7, <2>3
  <2> QED
    BY <1>3, <2>2, <2>3 DEF Made, Shaped
<1>13. Writes(st, busy.found) = Writes(st, Finds(Seen, call))
  <2>1. n + 1 \in DOMAIN sts /\ 1 \in DOMAIN sts
    BY <1>3, <1>7 DEF Made
  <2>2. CASE Plain(st) \/ st.op = "look"
    BY <2>2 DEF Writes, Plain
  <2>3. CASE ~Plain(st) /\ st.op # "look"
    <3>1. sts[1].op = "look"
      <4> HIDE DEF st, sts
      <4> QED
        BY <1>3, <1>7, <2>1, <2>3 DEF Made, Shaped
    <3>2. n # 0
      BY <1>7, <2>3, <3>1
    <3>3. busy.found = Finds(Seen, call)
      BY <1>6, <3>1, <3>2 DEF Halfway
    <3> QED
      BY <3>3
  <2> QED
    BY <2>2, <2>3
<1>14. db' = Ran(Seen, call, busy.call, n + 1)
  <2>1. Ran(Seen, call, busy.call, n + 1) =
           AfterOne(db, st, call, busy.call, Finds(Seen, call))
    BY <1>7, <1>11, RanNext
  <2> HIDE DEF st, call
  <2> QED
    BY <1>1, <1>4, <1>13, <2>1 DEF AfterOne
<1>15. sts[1].op = "look" => busy'.found = Finds(Seen, call)
  <2> SUFFICES ASSUME sts[1].op = "look" PROVE busy'.found = Finds(Seen, call)
    OBVIOUS
  <2>1. CASE n = 0
    <3>1. st = sts[1] /\ db = Seen
      BY <1>7, <1>11, <2>1, RanNext
    <3>2. busy'.found = HasRow(st.on, call.key)
      BY <1>2, <3>1
    <3> HIDE DEF st, call
    <3> QED
      BY <3>1, <3>2, FindsNow
  <2>2. CASE n # 0
    <3>1. busy.found = Finds(Seen, call)
      BY <1>6, <2>2 DEF Halfway
    <3>2. busy'.found = busy.found
      BY <1>2, <1>12, <2>2
    <3> QED
      BY <3>1, <3>2
  <2> QED
    BY <2>1, <2>2
<1>16. Demanding(sts[1]) => Finds(Seen, call)
  <2>1. CASE n = 0
    <3>1. st = sts[1] /\ db = Seen
      BY <1>7, <1>11, <2>1, RanNext
    <3>2. Demanding(st) => HasRow(st.on, call.key)
      BY <1>1 DEF Missing
    <3> HIDE DEF st, call
    <3> QED
      BY <3>1, <3>2, FindsNow
  <2>2. CASE n # 0
    BY <1>6, <2>2 DEF Halfway
  <2> QED
    BY <2>1, <2>2
<1>17. Halfway(n + 1)'
  <2> HIDE DEF st, op, new
  <2> QED
    BY <1>1, <1>2, <1>7, <1>8, <1>14, <1>15, <1>16 DEF Halfway
<1>18. HalfwayInv'
  BY <1>1, <1>2, <1>7, <1>17 DEF HalfwayInv
<1> QED
  BY <1>8, <1>9, <1>10, <1>18 DEF RefInv

\* A step after which the thread is idle and the tables are as they were.
LEMMA IdleRef ==
    ASSUME Inv, Inv', busy' = Idle, UNCHANGED <<db, calls>>
    PROVE  HalfwayInv' /\ (EntriesInv' => Seen' = db)
<1>1. busy'.call = 0
  BY IdleType
<1>2. ASSUME EntriesInv' PROVE Seen' = db
  <2>1. \A t \in Tables : \A n \in DOMAIN db[t] : db[t][n].call # 0
    BY <1>2 DEF EntriesInv
  <2>2. db \in [Tables -> Seq(Entry)]
    BY DEF Inv, RowsInv
  <2>3. [t \in Tables |-> Without(db[t], 0)] = db
    BY <2>1, <2>2, SeenWhenIdle
  <2>4. Seen' = [t \in Tables |-> Without(db'[t], busy'.call)]
    BY DEF Seen, Before, Without
  <2> QED
    BY <1>1, <2>3, <2>4
<1> QED
  BY <1>1, <1>2 DEF HalfwayInv

\* The tables are what the statements executed so far made of those that the callers
\* see, and what the command demands was there.
LEMMA DoneSoFar ==
    ASSUME Inv, RefInv, busy.call # 0
    PROVE  LET sts == Statements(calls[busy.call].name)
           IN \E n \in 0 .. Len(sts) : /\ Len(sts) \in 1 .. 3 /\ Len(busy.left) = Len(sts) - n
                                       /\ db = Abstract!After(Seen, busy.call, n)
                                       /\ n # 0 => Abstract!Allowed(Seen, busy.call)
<1> DEFINE i == busy.call
           sts == Statements(calls[i].name)
<1>1. PICK n \in 0 .. Len(sts) : Halfway(n)
  BY DEF RefInv, HalfwayInv
<1>2. Len(sts) \in 1 .. 3
  BY BusyEligible, CallIs DEF Inv, RefInv, Made, Shaped
<1>3. n \in 0 .. 3
  <2>1. \A m \in 1 .. 3 : 0 .. m \subseteq 0 .. 3
    OBVIOUS
  <2> QED
    BY <1>2, <2>1
<1>4. ForTables(Seen)
  BY DEF Seen, ForTables
<1>5. Abstract!After(Seen, i, n) = Ran(Seen, calls[i], i, n)
  <2> HIDE DEF i
  <2> QED
    BY <1>3, <1>4, AfterIs
<1>6. n # 0 => Abstract!Allowed(Seen, i)
  <2>1. n # 0 /\ Demanding(sts[1]) => Abstract!HasRow(Seen, sts[1].on, calls[i].key)
    BY <1>1, FindsIs DEF Halfway
  <2> QED
    BY <2>1, SameStatements, SameTables DEF Abstract!Allowed
<1>7. Len(busy.left) = Len(sts) - n /\ db = Ran(Seen, calls[i], i, n)
  BY <1>1 DEF Halfway
<1> QED
  BY <1>2, <1>5, <1>6, <1>7

\* A step in which the thread answers its command and is idle.
LEMMA AnswerRef ==
    ASSUME Inv, Inv', RestType, RefInv, busy.call # 0, NEW told \in Nat \cup {Err},
           answer' = [answer EXCEPT ![busy.call] = told], busy' = Idle, thread = "up",
           UNCHANGED <<db, calls, waits, queue, thread>>
    PROVE  RefInv' /\ Seen' = db
<1> DEFINE i == busy.call
<1>1. i \in 1 .. Len(calls) /\ i \in Ids
  BY BusyEligible, CallIs DEF Inv, RefInv
<1>2. answer'[i] = told /\ told # None /\ \A j \in Ids : j # i => answer'[j] = answer[j]
  BY <1>1 DEF RestType, None, Err
<1>3. PendingInv'
  <2>1. Len(calls) \in Nat /\ Len(calls) <= MaxCalls
    BY DEF Inv, CallsInv
  <2>2. \A n \in DOMAIN queue : queue[n] \in 1 .. Len(calls)
    BY DEF Inv, CallsInv
  <2>3. 1 .. Len(calls) \subseteq Ids
    BY <2>1, StoreAssumption DEF Ids, StoreAssumption
  <2>4. \A n \in DOMAIN queue : i < queue[n] /\ answer'[queue[n]] = None /\ 0 < queue[n]
    <3> TAKE n \in DOMAIN queue
    <3>1. i < queue[n] /\ answer[queue[n]] = None
      BY DEF RefInv, PendingInv
    <3>2. queue[n] # i /\ queue[n] \in Ids
      BY <1>1, <2>2, <2>3, <3>1
    <3> QED
      BY <1>2, <2>2, <3>1, <3>2
  <2>5. \A j \in 1 .. Len(calls) : answer'[j] = None => \E n \in DOMAIN queue : queue[n] = j
    BY <1>2, <2>3 DEF RefInv, PendingInv
  <2>6. \A j \in Ids : j > Len(calls) => answer'[j] = None
    BY <1>1, <1>2, <2>1 DEF RefInv, PendingInv
  <2> QED
    BY <2>4, <2>5, <2>6, IdleType DEF RefInv, PendingInv
<1>4. EntriesInv'
  <2>1. \A j \in 1 .. Len(calls) : j \in Ids
    BY CallIs DEF Inv
  <2> QED
    BY <1>2, <2>1 DEF RefInv, EntriesInv
<1>5. HalfwayInv' /\ Seen' = db
  BY <1>4, IdleRef
<1> QED
  BY <1>3, <1>4, <1>5 DEF RefInv

LEMMA ReplyRef ==
    ASSUME Inv, Inv', RestType, RefInv, Reply
    PROVE  RefInv' /\ Abstract!Apply(busy.call)
<1> DEFINE i == busy.call
           sts == Statements(calls[i].name)
           told == Len(db[sts[1].on])
<1>1. /\ busy # Idle /\ busy.left = <<>> /\ answer' = [answer EXCEPT ![i] = told]
      /\ busy' = Idle /\ UNCHANGED <<db, calls, waits, queue, thread>> /\ thread = "up"
  BY DEF Reply
<1>2. i # 0 /\ i \in 1 .. Len(calls) /\ i \in Abstract!Eligible
  BY <1>1, BusyEligible DEF Inv, CallsInv, RefInv
<1>3. told \in Nat
  <2>1. sts[1] \in Step
    BY <1>2, CallIs DEF Inv, Made, Shaped
  <2>2. db[sts[1].on] \in Seq(Entry)
    BY <2>1, TablesNamed DEF Inv, RowsInv, Step
  <2> QED
    BY <2>2
<1>4. RefInv' /\ Seen' = db
  <2> HIDE DEF told
  <2> QED
    BY <1>1, <1>2, <1>3, AnswerRef
<1>5. Seen' = Abstract!After(Seen, i, Len(sts)) /\ Abstract!Allowed(Seen, i)
  <2>1. PICK n \in 0 .. Len(sts) : /\ Len(sts) \in 1 .. 3 /\ Len(busy.left) = Len(sts) - n
                                   /\ db = Abstract!After(Seen, i, n)
                                   /\ n # 0 => Abstract!Allowed(Seen, i)
    BY <1>2, DoneSoFar
  <2>2. Len(busy.left) = 0
    BY <1>1
  <2>3. Len(sts) \in 1 .. 3 /\ Len(busy.left) = Len(sts) - n /\ n \in 0 .. Len(sts)
    BY <2>1
  <2>4. n = Len(sts) /\ n # 0
    <3>1. \A l \in 1 .. 3 : \A m \in 0 .. l : 0 = l - m => m = l /\ m # 0
      OBVIOUS
    <3> HIDE DEF sts
    <3> QED
      BY <2>2, <2>3, <3>1
  <2>5. db = Abstract!After(Seen, i, n) /\ Abstract!Allowed(Seen, i)
    BY <2>1, <2>4
  <2> HIDE DEF sts, i
  <2> QED
    BY <1>4, <2>4, <2>5
<1>6. answer' = [answer EXCEPT ![i] = Abstract!Answer(Seen', i)]
  BY <1>1, <1>4, SameStatements DEF Abstract!Answer
<1> QED
  BY <1>1, <1>2, <1>4, <1>5, <1>6, SameStatements DEF Abstract!Apply, Seen

LEMMA FailRef ==
    ASSUME Inv, Inv', RestType, RefInv, StatementFails
    PROVE  RefInv' /\ Abstract!Fail(busy.call)
<1> DEFINE i == busy.call
           sts == Statements(calls[i].name)
<1>1. /\ busy.left # <<>> /\ answer' = [answer EXCEPT ![i] = Err]
      /\ busy' = Idle /\ UNCHANGED <<db, calls, waits, queue, thread>> /\ thread = "up"
  BY DEF StatementFails
<1>2. i # 0
  BY <1>1, IdleType DEF Inv, CallsInv
<1>3. i \in Abstract!Eligible
  BY <1>2, BusyEligible DEF Inv, RefInv
<1>4. RefInv' /\ Seen' = db
  BY <1>1, <1>2, AnswerRef
<1>5. \E n \in 0 .. Len(sts) - 1 : Seen' = Abstract!After(Seen, i, n)
  <2>1. PICK n \in 0 .. Len(sts) : /\ Len(sts) \in 1 .. 3 /\ Len(busy.left) = Len(sts) - n
                                   /\ db = Abstract!After(Seen, i, n)
                                   /\ n # 0 => Abstract!Allowed(Seen, i)
    BY <1>2, DoneSoFar
  <2>2. Len(busy.left) # 0
    BY <1>1 DEF Inv, CallsInv
  <2>3. Len(sts) \in 1 .. 3 /\ Len(busy.left) = Len(sts) - n /\ n \in 0 .. Len(sts)
    BY <2>1
  <2>4. n \in 0 .. Len(sts) - 1
    <3> HIDE DEF sts
    <3> QED
      BY <2>2, <2>3
  <2>5. db = Abstract!After(Seen, i, n)
    BY <2>1
  <2> HIDE DEF sts, i
  <2> QED
    BY <1>4, <2>4, <2>5
<1> QED
  BY <1>1, <1>3, <1>4, <1>5, SameStatements, SameTables DEF Abstract!Fail, Seen

LEMMA CrashRef ==
    ASSUME Inv, Inv', RestType, RefInv, Crash
    PROVE  RefInv' /\ Abstract!Crash
<1>1. /\ busy' = Idle /\ queue' = <<>> /\ waits' = [c \in Clients |-> 0] /\ UNCHANGED <<db, calls>>
      /\ answer' = [i \in Ids |-> IF i \in 1 .. Len(calls) /\ answer[i] = None THEN Lost
                                  ELSE answer[i]]
      /\ thread' = "down"
  BY DEF Crash
<1>2. Len(calls) \in Nat /\ 1 .. Len(calls) \subseteq Ids
  BY StoreAssumption DEF Inv, CallsInv, StoreAssumption, Ids
<1>3. \A i \in 1 .. Len(calls) : answer'[i] # None
  BY <1>1, <1>2 DEF None, Lost
<1>4. PendingInv'
  <2>1. \A i \in Ids : i > Len(calls) => answer'[i] = None
    BY <1>1, <1>2 DEF RefInv, PendingInv, Ids
  <2>2. DOMAIN queue' = {}
    BY <1>1
  <2> QED
    BY <1>1, <1>2, <1>3, <2>1, <2>2, IdleType DEF PendingInv
<1>5. EntriesInv'
  BY <1>1, <1>3 DEF RefInv, EntriesInv
<1>6. HalfwayInv' /\ Seen' = db
  BY <1>1, <1>5, IdleRef
<1>7. \/ Seen' = Seen
      \/ \E i \in Abstract!Eligible : \E n \in 1 .. Len(Statements(calls[i].name)) :
            Seen' = Abstract!After(Seen, i, n)
  <2>1. CASE busy.call = 0
    <3>1. busy' = busy
      BY <1>1, <2>1 DEF Inv, CallsInv
    <3> QED
      BY <1>1, <3>1 DEF Seen, Before
  <2>2. CASE busy.call # 0
    <3> DEFINE i == busy.call
               sts == Statements(calls[i].name)
    <3>1. i \in Abstract!Eligible /\ i \in 1 .. Len(calls)
      BY <2>2, BusyEligible DEF Inv, RefInv
    <3>2. PICK n \in 0 .. Len(sts) : /\ Len(sts) \in 1 .. 3 /\ Len(busy.left) = Len(sts) - n
                                     /\ db = Abstract!After(Seen, i, n)
                                     /\ n # 0 => Abstract!Allowed(Seen, i)
      BY <2>2, DoneSoFar
    <3>3. CASE n = 0
      <4>1. Abstract!After(Seen, i, 0) = Seen
        BY AfterNext
      <4> QED
        BY <1>6, <3>2, <3>3, <4>1
    <3>4. CASE n # 0
      <4>1. n \in 1 .. Len(sts)
        BY <3>2, <3>4
      <4> QED
        BY <1>6, <3>1, <3>2, <4>1
    <3> QED
      BY <3>3, <3>4
  <2> QED
    BY <2>1, <2>2
<1>8. answer' = [i \in Ids |-> IF i \in Abstract!Pending THEN Lost ELSE answer[i]]
  <2>1. Abstract!Pending = {i \in 1 .. Len(calls) : answer[i] = None}
    BY SameTables DEF Abstract!Pending, Abstract!Made
  <2> QED
    BY <1>1, <2>1
<1>9. Abstract!Crash
  BY <1>1, <1>7, <1>8, SameStatements, SameTables DEF Abstract!Crash, Seen
<1> QED
  BY <1>4, <1>5, <1>6, <1>9 DEF RefInv

\* Every step of the thread and of its callers is one of the atomic store, or none.
LEMMA StepRef ==
    ASSUME Inv, Inv', RestType, RefInv, [Next]_vars
    PROVE  RefInv' /\ [Abstract!Next]_(Abstract!vars)
<1>1. CASE Opening
  <2>1. UNCHANGED <<db, busy, calls, queue, answer, waits>> /\ (thread' # "up" => thread # "up")
    BY <1>1 DEF Opening, OpenDb, ExecuteMigration, StampVersion, CommitMigration, SpawnThread, store
  <2>2. RefInv'
    BY <2>1, RefFrame DEF RefInv, PendingInv
  <2> QED
    BY <2>1, <2>2 DEF Abstract!vars, Before
<1>2. CASE TakeCommand
  <2>1. UNCHANGED <<calls, waits, answer>>
    BY <1>2 DEF TakeCommand
  <2> QED
    BY <1>2, <2>1, TakeRef DEF Abstract!vars, Seen
<1>3. CASE ExecuteStatement
  <2>1. UNCHANGED <<calls, waits, answer>>
    BY <1>3 DEF ExecuteStatement
  <2> QED
    BY <1>3, <2>1, ExecuteRef DEF Abstract!vars, Seen
<1>4. CASE Reply \/ StatementFails
  <2>1. busy.call # 0
    BY <1>4, IdleType DEF Reply, StatementFails, Inv, CallsInv
  <2>2. busy.call \in Abstract!Ids
    BY <2>1, BusyEligible, CallIs, SameTables DEF Inv, RefInv
  <2> QED
    BY <1>4, <2>2, ReplyRef, FailRef DEF Abstract!Next
<1>5. CASE Crash
  BY <1>5, CrashRef DEF Abstract!Next
<1>6. ASSUME NEW c \in Clients, NEW name \in Names, NEW key \in Keys, Call(c, name, key)
      PROVE  RefInv' /\ [Abstract!Next]_(Abstract!vars)
  <2>1. UNCHANGED <<db, busy, answer>>
    BY <1>6 DEF Call
  <2>2. Abstract!Invoke(c, name, key)
    BY <1>6, <2>1 DEF Call, Abstract!Invoke, Before
  <2> QED
    BY <1>6, <2>2, CallRef DEF Abstract!Next
<1>7. ASSUME NEW c \in Clients, Receive(c) \/ DropCaller(c)
      PROVE  RefInv' /\ [Abstract!Next]_(Abstract!vars)
  <2>1. /\ waits[c] # 0 /\ waits' = [waits EXCEPT ![c] = 0]
        /\ UNCHANGED <<db, busy, calls, queue, answer, thread>>
    BY <1>7 DEF Receive, DropCaller
  <2>2. waits[c] \in 1 .. Len(calls)
    BY <2>1, StoreAssumption DEF RefInv, PendingInv, RestType, Inv, CallsInv, StoreAssumption
  <2>3. \A d \in Clients : waits'[d] <= Len(calls)
    BY <2>1, <2>2 DEF RefInv, PendingInv, RestType
  <2>4. RefInv'
    BY <2>1, <2>3, RefFrame DEF RefInv, PendingInv
  <2>5. Abstract!Return(c) \/ Abstract!Abandon(c)
    <3>1. /\ Abstract!Made = 1 .. Len(calls)
          /\ Abstract!Pending = {i \in 1 .. Len(calls) : answer[i] = None}
      BY SameTables DEF Abstract!Pending, Abstract!Made
    <3> QED
      BY <2>1, <2>2, <3>1 DEF Abstract!Return, Abstract!Abandon, Before
  <2> QED
    BY <2>4, <2>5 DEF Abstract!Next
<1>8. CASE UNCHANGED vars
  <2>1. UNCHANGED <<db, busy, calls, queue, answer, waits, thread>>
    BY <1>8 DEF vars, store
  <2>2. RefInv'
    BY <2>1, RefFrame DEF RefInv, PendingInv
  <2> QED
    BY <2>1, <2>2 DEF Abstract!vars, Before
<1> QED
  BY <1>1, <1>2, <1>3, <1>4, <1>5, <1>6, <1>7, <1>8 DEF Next, Actor

\* The store is the atomic store: a call that succeeds took effect as a whole between
\* its start and its end, in the order of each client, whatever commands are sent,
\* whatever fails, whoever is dropped, and wherever the daemon crashes; of one that
\* fails, or that a crash cuts off, the first statements stay (store.rs).
THEOREM Implementation == Spec => Implements
<1>1. Init => Abstract!Init
  <2> SUFFICES ASSUME Init PROVE Abstract!Init
    OBVIOUS
  <2>1. db = [t \in Tables |-> <<>>]
    BY DEF Init
  <2>2. [t \in Tables |-> Before(db[t])] = [t \in Tables |-> <<>>]
    <3>1. db \in [Tables -> Seq(Entry)] /\ \A t \in Tables : DOMAIN db[t] = {}
      BY <2>1
    <3>2. [t \in Tables |-> Without(db[t], busy.call)] = db
      BY <3>1, SeenWhenIdle
    <3> QED
      BY <2>1, <3>2 DEF Before, Without
  <2> QED
    BY <2>2, SameTables DEF Init, Abstract!Init
<1>2. Init => RestType
  BY StoreAssumption DEF Init, RestType, StoreAssumption
<1>3. Inv /\ RestType /\ [Next]_vars => RestType'
  BY RestNext DEF vars, store, RestType
<1>4. Inv /\ Inv' /\ RestType /\ RefInv /\ [Next]_vars =>
         RefInv' /\ [Abstract!Next]_(Abstract!vars)
  BY StepRef
<1> QED
  BY <1>1, <1>2, <1>3, <1>4, RefInit, Invariant, PTL DEF Spec, Implements, Abstract!Spec
===============================================================================
