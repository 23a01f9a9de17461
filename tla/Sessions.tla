------------------------------ MODULE Sessions ------------------------------
(***************************************************************************)
(* Work sessions: the Ingest pipeline of ratd, its Sessionizer, and the    *)
(* work_sessions table.                                                    *)
(*                                                                         *)
(* The sessionizer keeps the open session of each project in memory, under *)
(* a lock.  What it decides is a list of updates, which the caller writes  *)
(* to the table one by one after the lock is released: updates of two      *)
(* callers reach the table in any order, and a crash or the first error of *)
(* the store loses the rest of a list.  Command counts follow              *)
(* last_activity and are left out.                                         *)
(***************************************************************************)
EXTENDS Integers, FiniteSets

CONSTANTS Projects,
          Sessions,     \* ids of sessions
          NoSession,    \* what a project without an open session has
          Emitters,     \* connections and sensors that ingest activity
          Ticker,       \* the task that closes silent sessions every 60 s
          Gap,          \* DEFAULT_GAP_MS, in ticks
          MaxDelay,     \* ticks a caller may take from its event to its last write
          MaxTime,      \* bound: ticks of the clock
          MaxCrashes,   \* bound: daemon crashes
          MaxFaults     \* bound: errors of the store

Callers == Emitters \cup {Ticker}

ASSUME SessionsAssumption ==
    /\ NoSession \notin Sessions
    /\ Ticker \notin Emitters
    /\ Gap \in Nat /\ MaxDelay \in Nat /\ MaxTime \in Nat
    /\ MaxCrashes \in Nat /\ MaxFaults \in Nat
    /\ Projects # {}

\* A caller writes sooner than a session is given up.
ASSUME DelayAssumption == 2 * MaxDelay <= Gap

VARIABLES now,          \* the wall clock
          row,          \* the work_sessions table
          open,         \* the sessionizer: session and last activity per project
          local,        \* what each caller holds between two steps
          used,         \* session ids handed out
          crashes,
          faults,
          unwritten     \* sessions whose Open or Close an error lost in this run

vars == <<now, row, open, local, used, crashes, faults, unwritten>>

Rows == {s \in Sessions : row[s].state # "absent"}
OpenRows == {s \in Sessions : row[s].state = "open"}

AbsentRow == [state |-> "absent", project |-> CHOOSE p \in Projects : TRUE,
              started |-> 0, last |-> 0, ended |-> 0]

\* A session and a time: its last activity, or when it ended.
Entry == [id : Sessions \cup {NoSession}, at : Nat]

NoEntry == [id |-> NoSession, at |-> 0]

\* close: Close updates still to write; then: the Open or Touch after them.
Local == [pc      : {"idle", "group", "write"},
          project : Projects,
          close   : SUBSET Entry,
          then    : {"none", "open", "touch"},
          entry   : Entry,
          since   : Nat]

Idle == [pc |-> "idle", project |-> AbsentRow.project, close |-> {},
         then |-> "none", entry |-> NoEntry, since |-> 0]

TypeOK ==
    /\ now \in 0 .. MaxTime
    /\ row \in [Sessions -> [state : {"absent", "open", "closed"}, project : Projects,
                             started : Nat, last : Nat, ended : Nat]]
    /\ open \in [Projects -> Entry]
    /\ local \in [Callers -> Local]
    /\ \A c \in Callers : local[c].then # "none" => local[c].entry.id \in used
    /\ used \subseteq Sessions
    /\ crashes \in 0 .. MaxCrashes
    /\ faults \in 0 .. MaxFaults
    /\ unwritten \subseteq used

Init ==
    /\ now = 0
    /\ row = [s \in Sessions |-> AbsentRow]
    /\ open = [p \in Projects |-> NoEntry]
    /\ local = [c \in Callers |-> Idle]
    /\ used = {}
    /\ crashes = 0
    /\ faults = 0
    /\ unwritten = {}

At(c, step) == local[c].pc = step

-----------------------------------------------------------------------------
(* Ingest::ingest                                                          *)

\* The event is appended; the store thread gives it its time.
Append(c, p) ==
    /\ At(c, "idle")
    /\ now + Gap + MaxDelay < MaxTime           \* bound: silence follows
    /\ local' = [local EXCEPT ![c] = [Idle EXCEPT !.pc = "group", !.project = p,
                                                  !.since = now]]
    /\ UNCHANGED <<now, row, open, used, crashes, faults, unwritten>>

\* Mutant: a project without a session counts as one with an old session.
TouchUnopened(c) ==
    LET p  == local[c].project
        ts == local[c].since
    IN  /\ At(c, "group")
        /\ ts - open[p].at <= Gap
        /\ open' = [open EXCEPT ![p].at = ts]
        /\ local' = [local EXCEPT ![c] = [@ EXCEPT !.pc = "write", !.then = "touch",
                                                   !.entry = [id |-> open[p].id, at |-> ts]]]
        /\ UNCHANGED <<now, row, used, crashes, faults, unwritten>>

\* Sessionizer::on_activity, under the lock: the session goes on ...
Touch(c) ==
    LET p  == local[c].project
        ts == local[c].since
    IN  /\ At(c, "group")
        /\ open[p].id # NoSession /\ ts - open[p].at <= Gap
        /\ open' = [open EXCEPT ![p].at = ts]
        /\ local' = [local EXCEPT ![c] = [@ EXCEPT !.pc = "write", !.then = "touch",
                                                   !.entry = [id |-> open[p].id, at |-> ts]]]
        /\ UNCHANGED <<now, row, used, crashes, faults, unwritten>>

\* Mutant: the old one is forgotten and not closed.
BeginAfresh(c, s) ==
    LET p  == local[c].project
        ts == local[c].since
    IN  /\ At(c, "group")
        /\ open[p].id = NoSession \/ ts - open[p].at > Gap
        /\ s \notin used
        /\ open' = [open EXCEPT ![p] = [id |-> s, at |-> ts]]
        /\ used' = used \cup {s}
        /\ local' = [local EXCEPT ![c] = [@ EXCEPT !.pc = "write", !.then = "open",
                                                   !.entry = [id |-> s, at |-> ts]]]
        /\ UNCHANGED <<now, row, crashes, faults, unwritten>>

\* ... or a new one begins, after the old one, if any, is closed.
Begin(c, s) ==
    LET p  == local[c].project
        ts == local[c].since
    IN  /\ At(c, "group")
        /\ open[p].id = NoSession \/ ts - open[p].at > Gap
        /\ s \notin used
        /\ open' = [open EXCEPT ![p] = [id |-> s, at |-> ts]]
        /\ used' = used \cup {s}
        /\ local' = [local EXCEPT ![c] =
                       [@ EXCEPT !.pc = "write", !.then = "open",
                                 !.close = {open[p]} \ {NoEntry},
                                 !.entry = [id |-> s, at |-> ts]]]
        /\ UNCHANGED <<now, row, crashes, faults, unwritten>>

-----------------------------------------------------------------------------
(* Ingest::tick                                                            *)

Silent(p) == open[p].id # NoSession /\ now - open[p].at > Gap

\* Mutant: a session ends when its silence is noticed.
CloseOnDetection ==
    /\ At(Ticker, "idle")
    /\ \E p \in Projects : Silent(p)
    /\ open' = [p \in Projects |-> IF Silent(p) THEN NoEntry ELSE open[p]]
    /\ local' = [local EXCEPT ![Ticker] =
                   [Idle EXCEPT !.pc = "write", !.since = now,
                                !.close = {[open[p] EXCEPT !.at = now] :
                                             p \in {q \in Projects : Silent(q)}}]]
    /\ UNCHANGED <<now, row, used, crashes, faults, unwritten>>

CloseSilent ==
    /\ At(Ticker, "idle")
    /\ \E p \in Projects : Silent(p)
    /\ open' = [p \in Projects |-> IF Silent(p) THEN NoEntry ELSE open[p]]
    /\ local' = [local EXCEPT ![Ticker] =
                   [Idle EXCEPT !.pc = "write", !.since = now,
                                !.close = {open[p] : p \in {q \in Projects : Silent(q)}}]]
    /\ UNCHANGED <<now, row, used, crashes, faults, unwritten>>

-----------------------------------------------------------------------------
(* Ingest::apply: one command of the store thread per update.              *)

\* UPDATE by id: no row, no effect; an ended row is written as well.
Update(s, new) == row' = [row EXCEPT ![s] = IF s \in Rows THEN new ELSE @]

\* The caller is done when nothing is left of its list.
Rest(c, state) ==
    local' = [local EXCEPT ![c] =
                IF state.close = {} /\ state.then = "none" THEN Idle ELSE state]

WriteClose(c, e) ==
    /\ At(c, "write") /\ e \in local[c].close
    /\ Update(e.id, [row[e.id] EXCEPT !.state = "closed", !.ended = e.at])
    /\ Rest(c, [local[c] EXCEPT !.close = @ \ {e}])
    /\ UNCHANGED <<now, open, used, crashes, faults, unwritten>>

WriteOpen(c) ==
    /\ At(c, "write") /\ local[c].close = {} /\ local[c].then = "open"
    /\ row' = [row EXCEPT ![local[c].entry.id] =
                 [state |-> "open", project |-> local[c].project,
                  started |-> local[c].entry.at, last |-> local[c].entry.at, ended |-> 0]]
    /\ Rest(c, [local[c] EXCEPT !.then = "none"])
    /\ UNCHANGED <<now, open, used, crashes, faults, unwritten>>

WriteTouch(c) ==
    /\ At(c, "write") /\ local[c].then = "touch"
    /\ LET e == local[c].entry IN Update(e.id, [row[e.id] EXCEPT !.last = e.at])
    /\ Rest(c, [local[c] EXCEPT !.then = "none"])
    /\ UNCHANGED <<now, open, used, crashes, faults, unwritten>>

\* The first error of the store ends the caller: its observation is not
\* derived, or the rest of its list is not written.  The sessionizer is not
\* told, and goes on as if the list was written.
StoreFails(c) ==
    /\ ~At(c, "idle")
    /\ faults < MaxFaults                       \* bound
    /\ faults' = faults + 1
    /\ unwritten' = unwritten \cup {e.id : e \in local[c].close}
                              \cup (IF local[c].then = "open" THEN {local[c].entry.id} ELSE {})
    /\ local' = [local EXCEPT ![c] = Idle]
    /\ UNCHANGED <<now, row, open, used, crashes>>

-----------------------------------------------------------------------------
(* The clock, and a crash with the restart after it.                       *)

\* No caller is held up for longer than MaxDelay.
Tick ==
    /\ now < MaxTime                            \* bound
    /\ \A c \in Callers : At(c, "idle") \/ now - local[c].since < MaxDelay
    /\ now' = now + 1
    /\ UNCHANGED <<row, open, local, used, crashes, faults, unwritten>>

\* Mutant: all rows are read, ended ones too.
ReadoptedFromAll(p) ==
    LET left == {s \in Rows : row[s].project = p} IN
    IF left = {}
      THEN {NoEntry}
      ELSE {[id |-> s, at |-> row[s].last] :
              s \in {t \in left : \A u \in left : row[t].started <= row[u].started}}

\* preload: the open rows of a project are read newest first into one map
\* entry, so the oldest of them stays.
Readopted(p) ==
    LET left == {s \in OpenRows : row[s].project = p} IN
    IF left = {}
      THEN {NoEntry}
      ELSE {[id |-> s, at |-> row[s].last] :
              s \in {t \in left : \A u \in left : row[t].started <= row[u].started}}

\* Mutant: no row is read.
RestartEmpty ==
    /\ crashes < MaxCrashes
    /\ crashes' = crashes + 1
    /\ local' = [c \in Callers |-> Idle]
    /\ open' = [p \in Projects |-> NoEntry]
    /\ unwritten' = {}
    /\ UNCHANGED <<now, row, used, faults>>

Restart ==
    /\ crashes < MaxCrashes                     \* bound
    /\ crashes' = crashes + 1
    /\ local' = [c \in Callers |-> Idle]
    /\ open' \in {f \in [Projects -> UNION {Readopted(p) : p \in Projects}] :
                    \A p \in Projects : f[p] \in Readopted(p)}
    /\ unwritten' = {}
    /\ UNCHANGED <<now, row, used, faults>>

Write(c) ==
    \/ \E e \in local[c].close : WriteClose(c, e)
    \/ WriteOpen(c)
    \/ WriteTouch(c)

Group(c) == Touch(c) \/ \E s \in Sessions : Begin(c, s)

Next ==
    \/ \E c \in Emitters : (\E p \in Projects : Append(c, p)) \/ Group(c)
    \/ CloseSilent
    \/ \E c \in Callers : Write(c) \/ StoreFails(c)
    \/ Tick
    \/ Restart

Spec == Init /\ [][Next]_vars

(* The ticker comes round, and a caller once begun goes on.                *)
Fairness ==
    /\ WF_vars(Tick) /\ WF_vars(CloseSilent)
    /\ \A c \in Callers : WF_vars(Write(c))
    /\ \A c \in Emitters : WF_vars(Group(c))

FairSpec == Spec /\ Fairness

-----------------------------------------------------------------------------
(* Properties                                                              *)

Closed(s) == row[s].state = "closed"

\* Where the row of a session ends: its end, or its last activity so far.
LastSeen(s) == IF Closed(s) THEN row[s].ended ELSE row[s].last

\* A session that has ended is not written any more, neither by a Touch that
\* was decided before it ended nor by a restart: what the calendar and the
\* nightly summary read of it is final.  Needs callers that write sooner than
\* a session is given up (2 * MaxDelay <= Gap).
ClosedRowsAreFinal == [][\A s \in Sessions : Closed(s) => row'[s] = row[s]]_vars

\* Without a crash the table and the sessionizer agree whenever no update is
\* on its way: the open rows are the sessions in memory, so none is left that
\* no tick will close, and no activity goes to a row that is closed or absent.
\* An error of the store parts them for the sessions of the list that failed,
\* and for no other.
OpenRowsAreTracked ==
    (crashes = 0 /\ \A c \in Callers : ~At(c, "write")) =>
        OpenRows \ unwritten = ({open[p].id : p \in Projects} \ {NoSession}) \ unwritten

\* Without a crash two sessions of a project are a gap of silence apart, but
\* for the delays of two callers, whatever order their updates are written in.
SessionsAreApart ==
    crashes = 0 =>
        \A s, t \in Rows :
            s # t /\ row[s].project = row[t].project =>
                \/ row[t].started - LastSeen(s) > Gap - 2 * MaxDelay
                \/ row[s].started - LastSeen(t) > Gap - 2 * MaxDelay

\* The session the sessionizer holds is closed in the end if no older one of
\* its project is open, whatever crash loses the Close that was on its way: the
\* restart finds it.  An error that loses the Close leaves the row open.
HeldSessionsClose ==
    \A s \in Sessions :
        (/\ s \in OpenRows /\ open[row[s].project].id = s
         /\ \A t \in OpenRows \ {s} : row[t].project = row[s].project =>
                                          row[s].started < row[t].started)
          ~> Closed(s) \/ s \in unwritten

-----------------------------------------------------------------------------
(* What a comment of the code says, which the code does not keep.           *)

\* main.rs: "Re-adopt sessions left open by the previous run."  Each of them,
\* so that each is closed one day.
LeftOpenIsReadopted ==
    [][crashes' # crashes => OpenRows \subseteq {open'[p].id : p \in Projects}]_vars
=============================================================================
