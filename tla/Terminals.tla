------------------------------ MODULE Terminals ------------------------------
(***************************************************************************)
(* The terminals agents run in.  A task of the daemon lists, every ten     *)
(* seconds, the processes that are agents and the tmux pane each is in,    *)
(* classifies them and upserts a row per terminal and command; the         *)
(* operator classifies them by hand.  A command is known by its hash, and  *)
(* the emulator, a label that nothing reads, is left out.                  *)
(***************************************************************************)
EXTENDS Integers, FiniteSets, Surroundings

CONSTANTS Agents,       \* commands whose executable is one of adapter_names
          PaneOf,       \* the tmux server of the pane each tty is, or NoPane
          NoRow, NoPane,
          Operators     \* connections that send terminals.set_role

ASSUME TerminalsAssumption ==
    /\ Agents \subseteq Commands
    /\ PaneOf \in [Ttys -> {"default", "rato", NoPane}]

VARIABLES rows,         \* the table terminals, by its key (tty, cmd_hash)
          scan,         \* the scan task
          setting       \* what each connection does

desk == <<rows, scan, setting>>

Keys == Ttys \X Commands
Role == {"workbench", "foreign", "operator", "ignored"}
Row == [pid : Pids, pane : BOOLEAN, role : Role]
Hit == [pid : Pids, tty : Ttys, cmd : Commands, pane : BOOLEAN, role : Role]
Scanning == [pc : {"sleep", "classify", "store"}, ignored : SUBSET Commands,
             operator : SUBSET Commands, hits : SUBSET Hit]
Asleep == [pc |-> "sleep", ignored |-> {}, operator |-> {}, hits |-> {}]
Unasked == [pc |-> "idle"]

DeskInit ==
    /\ rows = [k \in Keys |-> NoRow]
    /\ scan = Asleep
    /\ setting = [c \in Operators |-> Unasked]

-------------------------------------------------------------------------------
(* The scan.                                                                *)

\* `tmux list-panes -a` names no socket: it lists the panes of one server.
ListedServer == "default"
RatoSocket == "rato"
Listed(tty) == PaneOf[tty] = ListedServer

\* Bug: only the mark of this very terminal counts, and it is not read.
RoleUnmarked(cmd, tty, ignored, operator) ==
    IF Listed(tty) /\ PaneOf[tty] = RatoSocket THEN "workbench" ELSE "foreign"

RoleOf(cmd, tty, ignored, operator) ==
    IF cmd \in ignored THEN "ignored"
    ELSE IF cmd \in operator THEN "operator"
    ELSE IF Listed(tty) /\ PaneOf[tty] = RatoSocket THEN "workbench"
    ELSE "foreign"

AgentsAt(ttys) == {p \in Pids : procs[p] # Gone /\ procs[p].cmd \in Agents /\ procs[p].tty \in ttys}

MarkedAs(role) == {k[2] : k \in {x \in Keys : rows[x] # NoRow /\ rows[x].role = role}}

\* The tick: list_terminals, and the marks by command hash.
ReadRoles ==
    /\ scan.pc = "sleep"
    /\ scan' = [scan EXCEPT !.pc = "classify", !.ignored = MarkedAs("ignored"),
                            !.operator = MarkedAs("operator")]
    /\ UNCHANGED <<rows, setting, around>>

\* /proc and the panes are read, and every agent with a terminal is a hit.
Classify ==
    /\ scan.pc = "classify"
    /\ scan' = [scan EXCEPT !.pc = "store",
                   !.hits = {[pid |-> p, tty |-> procs[p].tty, cmd |-> procs[p].cmd,
                              pane |-> Listed(procs[p].tty),
                              role |-> RoleOf(procs[p].cmd, procs[p].tty,
                                              scan.ignored, scan.operator)]
                             : p \in AgentsAt(Ttys)}]
    /\ UNCHANGED <<rows, setting, around>>

UpsertTerminal(tty, cmd, row) == rows' = [rows EXCEPT ![<<tty, cmd>>] = row]

\* The hits in the order of their pids.
UpsertHit ==
    /\ scan.pc = "store"
    /\ \E h \in scan.hits :
          /\ \A other \in scan.hits : h.pid <= other.pid
          /\ UpsertTerminal(h.tty, h.cmd, [pid |-> h.pid, pane |-> h.pane, role |-> h.role])
          /\ scan' = [scan EXCEPT !.hits = @ \ {h}]
    /\ UNCHANGED <<setting, around>>

EndScan ==
    /\ scan.pc = "store" /\ scan.hits = {}
    /\ scan' = Asleep
    /\ UNCHANGED <<rows, setting, around>>

\* Bug: the task ends with the scan that failed.
FailScanForGood ==
    /\ scan.pc = "sleep" \/ scan.hits # {}
    /\ Trouble
    /\ scan' = [Asleep EXCEPT !.pc = "dead"]
    /\ UNCHANGED <<rows, setting>>

\* The store fails: the rest of the hits is left to the next scan.
FailScan ==
    /\ scan.pc = "sleep" \/ scan.hits # {}
    /\ Trouble
    /\ scan' = Asleep
    /\ UNCHANGED <<rows, setting>>

Scan == ReadRoles \/ Classify \/ UpsertHit \/ EndScan

-------------------------------------------------------------------------------
(* terminals.set_role: the row is read, and written back with the role.     *)

GetTerminal(c, k, role) ==
    /\ setting[c] = Unasked /\ rows[k] # NoRow /\ Moved
    /\ setting' = [setting EXCEPT ![c] = [pc |-> "write", key |-> k,
                                          row |-> [rows[k] EXCEPT !.role = role]]]
    /\ UNCHANGED <<rows, scan>>

SetRole(c) ==
    /\ setting[c] # Unasked
    /\ UpsertTerminal(setting[c].key[1], setting[c].key[2], setting[c].row)
    /\ setting' = [setting EXCEPT ![c] = Unasked]
    /\ UNCHANGED <<scan, around>>

FailSetRole(c) ==
    /\ setting[c] # Unasked /\ Trouble
    /\ setting' = [setting EXCEPT ![c] = Unasked]
    /\ UNCHANGED <<rows, scan>>

-------------------------------------------------------------------------------

DeskNext ==
    \/ Scan \/ FailScan
    \/ \E c \in Operators : \/ SetRole(c) \/ FailSetRole(c)
                            \/ \E k \in Keys, role \in Role : GetTerminal(c, k, role)

\* The daemon ends: its tasks and connections go, the table stays.
DeskEnds ==
    /\ scan' = Asleep
    /\ setting' = [c \in Operators |-> Unasked]
    /\ UNCHANGED rows
=============================================================================
