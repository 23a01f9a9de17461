------------------------------ MODULE AtomicStore ------------------------------
(***************************************************************************)
(* What the store promises its callers: a call that succeeds took effect   *)
(* as a whole, at one moment between its start and its end, and the calls  *)
(* of one client take effect in the order they were made, whether the      *)
(* client still waits for them or not.  A command is no transaction: one   *)
(* that fails, and one that a crash cuts off, may be half done.            *)
(***************************************************************************)
EXTENDS Integers, Sequences, StoreCommands

CONSTANTS Clients, Names, Keys, MaxCalls

VARIABLES db,       \* per table, what was written to it and by which call
          calls,    \* the calls made so far; a call is its place in this sequence
          waits,    \* the call each client waits for, or 0
          answer    \* of each call

vars == <<db, calls, waits, answer>>

Ids == 1 .. MaxCalls
None == -1
Lost == -2
Err == -3
Made == 1 .. Len(calls)
Pending == {i \in Made : answer[i] = None}

Entry == [call : Ids, op : {"insert", "update", "delete"}, key : Keys]

\* A row of table t has this key; an approval also is pending, nothing updated it.
HasRow(d, t, key) ==
    \E n \in DOMAIN d[t] :
        /\ d[t][n].op = "insert" /\ d[t][n].key = key
        /\ t = "approvals" => \A m \in DOMAIN d[t] :
                                 m > n /\ d[t][m].key = key => d[t][m].op # "update"

\* One statement of call i, which found its row or did not.
Execute(d, st, i, found) ==
    LET op == CASE st.op \in {"insert", "update", "delete"} -> st.op
                [] st.op = "update_found" /\ found -> "update"
                [] st.op = "insert_absent" /\ ~found -> "insert"
                [] OTHER -> "none"
        entry == [call |-> i, op |-> op, key |-> calls[i].key]
    IN IF op = "none" THEN d
       ELSE [t \in Tables |-> IF t \in Triggered(st) THEN Append(d[t], entry) ELSE d[t]]

\* The database after the first n statements of call i.
After(d, i, n) ==
    LET sts == Statements(calls[i].name)
        found == HasRow(d, sts[1].on, calls[i].key)
        done[k \in 0 .. n] == IF k = 0 THEN d ELSE Execute(done[k - 1], sts[k], i, found)
    IN done[n]

\* What a call tells: how much had been written to the table it is about.
Answer(d, i) == Len(d[Statements(calls[i].name)[1].on])

TypeOK ==
    /\ db \in [Tables -> Seq(Entry)]
    /\ calls \in Seq([client : Clients, name : Names, key : Keys]) /\ Len(calls) <= MaxCalls
    /\ waits \in [Clients -> 0 .. MaxCalls]
    /\ answer \in [Ids -> Nat \cup {None, Lost, Err}]

Init ==
    /\ db = [t \in Tables |-> <<>>]
    /\ calls = <<>>
    /\ waits = [c \in Clients |-> 0]
    /\ answer = [i \in Ids |-> None]

Invoke(c, name, key) ==
    /\ waits[c] = 0 /\ Len(calls) < MaxCalls
    /\ calls' = Append(calls, [client |-> c, name |-> name, key |-> key])
    /\ waits' = [waits EXCEPT ![c] = Len(calls) + 1]
    /\ UNCHANGED <<db, answer>>

Eligible == {i \in Pending : \A j \in Pending : calls[j].client = calls[i].client => i <= j}

\* What call i demands is there.
Allowed(d, i) ==
    LET first == Statements(calls[i].name)[1]
    IN Demanding(first) => HasRow(d, first.on, calls[i].key)

Apply(i) ==
    /\ i \in Eligible /\ Allowed(db, i)
    /\ db' = After(db, i, Len(Statements(calls[i].name)))
    /\ answer' = [answer EXCEPT ![i] = Answer(db', i)]
    /\ UNCHANGED <<calls, waits>>

\* A statement fails: those before it stay.
Fail(i) ==
    /\ i \in Eligible
    /\ \E n \in 0 .. Len(Statements(calls[i].name)) - 1 : db' = After(db, i, n)
    /\ answer' = [answer EXCEPT ![i] = Err]
    /\ UNCHANGED <<calls, waits>>

Return(c) ==
    /\ waits[c] \in Made \ Pending
    /\ waits' = [waits EXCEPT ![c] = 0]
    /\ UNCHANGED <<db, calls, answer>>

\* The future that waits is dropped; the call is not taken back.
Abandon(c) ==
    /\ waits[c] \in Pending
    /\ waits' = [waits EXCEPT ![c] = 0]
    /\ UNCHANGED <<db, calls, answer>>

Crash ==
    /\ \/ db' = db
       \/ \E i \in Eligible : \E n \in 1 .. Len(Statements(calls[i].name)) : db' = After(db, i, n)
    /\ answer' = [i \in Ids |-> IF i \in Pending THEN Lost ELSE answer[i]]
    /\ waits' = [c \in Clients |-> 0]
    /\ UNCHANGED calls

Next ==
    \/ \E c \in Clients, name \in Names, key \in Keys : Invoke(c, name, key)
    \/ \E i \in Ids : Apply(i) \/ Fail(i)
    \/ \E c \in Clients : Return(c) \/ Abandon(c)
    \/ Crash

Spec == Init /\ [][Next]_vars
=============================================================================
