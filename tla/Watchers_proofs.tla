---------------------------- MODULE Watchers_proofs ----------------------------
(***************************************************************************)
(* Proofs about Watchers and about Sensors, for any processes, terminals,  *)
(* runs, files, repositories, texts and limits of the tasks.               *)
(*                                                                         *)
(* A mark is kept because a hit was classified with the very marks the     *)
(* scan has read.  No output of a life repeats a key because each key is   *)
(* among those seen, from the moment the keys of earlier lives were loaded *)
(* on, and the file in hand is one whose key is not; and no text but that  *)
(* of a file which grew while it was read, because what was read of a file *)
(* is never newer than its next key.                                       *)
(*                                                                         *)
(* An event of a sensor is news because the last event about its subject,  *)
(* ingested or still on its way, says what the watcher has on its mind.    *)
(***************************************************************************)
EXTENDS Watchers, Sensors, FiniteSetTheorems, SequenceTheorems, TLAPS

Counters ==
    /\ moves \in 0 .. MaxMoves /\ troubles \in 0 .. MaxTroubles
    /\ life \in Nat /\ life <= troubles

DeskType ==
    /\ procs \in [Pids -> Process \cup {Gone}]
    /\ rows \in [Keys -> Row \cup {NoRow}]
    /\ scan \in Scanning
    /\ setting \in [Operators -> {Unasked} \cup [pc : {"write"}, key : Keys, row : Row]]

\* A hit that is not marked is of a command the scan has read no mark of.
HitsAreMarked ==
    /\ scan.pc # "store" => scan.hits = {}
    /\ \A h \in scan.hits : h.role \in {"ignored", "operator"}
                            \/ h.cmd \notin scan.ignored \cup scan.operator

DeskInv == DeskType /\ HitsAreMarked

ScriptsType ==
    /\ runs \in 0 .. RunCount
    /\ version \in [Files -> Nat] /\ \A f \in Files : version[f] <= moves
    /\ outputs \in Seq(Output) /\ seen \subseteq FileKey /\ pass \in Passing

\* The files of a pass exist, and the one in hand was not seen.
FilesInHand ==
    /\ \A f \in pass.files : version[f] > 0
    /\ pass.pc = "parse" => pass.key \in FileKey \ seen /\ version[pass.key[1]] > 0

\* What this life has stored it has seen; while it loads, it has stored nothing.
StoredIsSeen ==
    /\ \A i \in DOMAIN outputs : outputs[i].life <= life
    /\ \A i \in DOMAIN outputs : outputs[i].life = life =>
          pass.pc # "load" /\ outputs[i].key \in seen

\* The text is no older than its key, and no newer than the file; the next key of the
\* file in the same life, and the key in hand, are no older than the text.
TextsInOrder ==
    /\ \A i \in DOMAIN outputs :
          /\ outputs[i].key[2] <= outputs[i].text
          /\ outputs[i].text <= version[outputs[i].key[1]]
    /\ \A i, j \in DOMAIN outputs :
          /\ i < j /\ outputs[i].life = outputs[j].life
          /\ outputs[i].key[1] = outputs[j].key[1]
          => outputs[i].key # outputs[j].key /\ outputs[i].text <= outputs[j].key[2]
    /\ pass.pc = "parse" =>
          /\ pass.key[2] <= version[pass.key[1]]
          /\ \A i \in DOMAIN outputs :
                outputs[i].life = life /\ outputs[i].key[1] = pass.key[1] =>
                    outputs[i].text <= pass.key[2]

ScriptsInv == ScriptsType /\ FilesInHand /\ StoredIsSeen /\ TextsInOrder

Inv == Counters /\ DeskInv /\ ScriptsInv

-------------------------------------------------------------------------------
LEMMA BoundsType ==
    /\ MaxMoves \in Nat /\ MaxTroubles \in Nat /\ RunCount \in Nat /\ RecentRuns \in Nat
    /\ RunOf \in [Files -> 1 .. RunCount]
BY SurroundingsAssumption, TranscriptsAssumption
   DEF SurroundingsAssumption, TranscriptsAssumption

LEMMA RowType ==
    ASSUME NEW row \in Row, NEW role \in Role PROVE [row EXCEPT !.role = role] \in Row
BY DEF Row

LEMMA ReadRolesInv == ASSUME DeskInv, ReadRoles PROVE DeskInv'
<1> USE DEF DeskInv, HitsAreMarked, ReadRoles, around
<1>1. MarkedAs("ignored") \subseteq Commands /\ MarkedAs("operator") \subseteq Commands
  BY DEF MarkedAs, Keys
<1>2. /\ scan'.pc = "classify" /\ scan'.hits = scan.hits
      /\ scan' \in Scanning
  BY <1>1 DEF DeskType, Scanning
<1>3. DeskType'
  BY <1>2 DEF DeskType
<1> QED
  BY <1>2, <1>3

LEMMA ClassifyInv == ASSUME DeskInv, Classify PROVE DeskInv'
<1> USE DEF DeskInv, Classify, around
<1> DEFINE Found(p) == [pid |-> p, tty |-> procs[p].tty, cmd |-> procs[p].cmd,
                        pane |-> Listed(procs[p].tty),
                        role |-> RoleOf(procs[p].cmd, procs[p].tty, scan.ignored, scan.operator)]
<1>1. scan' = [scan EXCEPT !.pc = "store", !.hits = {Found(p) : p \in AgentsAt(Ttys)}]
  OBVIOUS
<1>2. ASSUME NEW p \in AgentsAt(Ttys)
      PROVE  /\ Found(p) \in Hit
             /\ Found(p).role \in {"ignored", "operator"}
                \/ Found(p).cmd \notin scan.ignored \cup scan.operator
  <2>1. p \in Pids /\ procs[p] \in Process /\ procs[p].tty \in Ttys /\ procs[p].cmd \in Commands
    BY DEF AgentsAt, DeskType, Process
  <2>2. Listed(procs[p].tty) \in BOOLEAN
    BY DEF Listed
  <2>3. RoleOf(procs[p].cmd, procs[p].tty, scan.ignored, scan.operator) \in Role
    BY DEF RoleOf, Role
  <2>4. Found(p) \in Hit
    BY <2>1, <2>2, <2>3 DEF Hit
  <2> QED
    BY <2>4 DEF RoleOf
<1> HIDE DEF Found
<1>3. {Found(p) : p \in AgentsAt(Ttys)} \in SUBSET Hit
  BY <1>2
<1>4. /\ scan' \in Scanning /\ scan'.pc = "store" /\ scan'.hits = {Found(p) : p \in AgentsAt(Ttys)}
      /\ scan'.ignored = scan.ignored /\ scan'.operator = scan.operator
  BY <1>1, <1>3 DEF DeskType, Scanning
<1>5. DeskType'
  BY <1>4 DEF DeskType
<1>6. HitsAreMarked'
  BY <1>2, <1>4 DEF HitsAreMarked
<1> QED
  BY <1>5, <1>6

LEMMA UpsertHitInv == ASSUME DeskInv, UpsertHit PROVE DeskInv'
<1> USE DEF DeskInv, around
<1>1. PICK h \in scan.hits :
          /\ rows' = [rows EXCEPT ![<<h.tty, h.cmd>>] = [pid |-> h.pid, pane |-> h.pane, role |-> h.role]]
          /\ scan' = [scan EXCEPT !.hits = @ \ {h}]
  BY DEF UpsertHit, UpsertTerminal
<1>2. h \in Hit
  BY DEF DeskType, Scanning
<1>3. [pid |-> h.pid, pane |-> h.pane, role |-> h.role] \in Row
  BY <1>2 DEF Hit, Row
<1>4. rows' \in [Keys -> Row \cup {NoRow}]
  BY <1>1, <1>3 DEF DeskType
<1>5. /\ scan' \in Scanning /\ scan'.pc = scan.pc /\ scan'.hits = scan.hits \ {h}
      /\ scan'.ignored = scan.ignored /\ scan'.operator = scan.operator
  BY <1>1 DEF DeskType, Scanning
<1>6. DeskType'
  BY <1>4, <1>5 DEF DeskType, UpsertHit
<1> QED
  BY <1>5, <1>6 DEF HitsAreMarked

LEMMA SettingInv ==
    ASSUME DeskInv, NEW c \in Operators,
           \/ SetRole(c) \/ FailSetRole(c)
           \/ \E k \in Keys, role \in Role : GetTerminal(c, k, role)
    PROVE  DeskInv'
<1> USE DEF DeskInv, around
<1> DEFINE Asked == [pc : {"write"}, key : Keys, row : Row]
<1>1. CASE SetRole(c)
  <2>1. setting[c] \in Asked
    BY <1>1 DEF SetRole, DeskType
  <2>2. /\ setting[c].key = <<setting[c].key[1], setting[c].key[2]>>
        /\ setting[c].key \in Keys /\ setting[c].row \in Row
    BY <2>1 DEF Keys
  <2>3. rows' \in [Keys -> Row \cup {NoRow}]
    BY <1>1, <2>2 DEF SetRole, UpsertTerminal, DeskType
  <2>4. DeskType'
    BY <1>1, <2>3 DEF SetRole, DeskType
  <2> QED
    BY <1>1, <2>4 DEF SetRole, HitsAreMarked
<1>2. CASE FailSetRole(c)
  BY <1>2 DEF FailSetRole, Trouble, DeskType, HitsAreMarked
<1>3. ASSUME NEW k \in Keys, NEW role \in Role, GetTerminal(c, k, role) PROVE DeskInv'
  <2>1. rows[k] \in Row
    BY <1>3 DEF GetTerminal, DeskType
  <2>2. [pc |-> "write", key |-> k, row |-> [rows[k] EXCEPT !.role = role]] \in Asked
    BY <2>1, RowType
  <2>3. setting' \in [Operators -> {Unasked} \cup Asked]
    BY <1>3, <2>2 DEF GetTerminal, DeskType
  <2>4. DeskType'
    BY <1>3, <2>3 DEF GetTerminal, Moved, Move, DeskType
  <2> QED
    BY <1>3, <2>4 DEF GetTerminal, HitsAreMarked
<1> QED
  BY <1>1, <1>2, <1>3

LEMMA AsleepType == Asleep \in Scanning /\ Asleep.pc = "sleep" /\ Asleep.hits = {}
BY DEF Asleep, Scanning

LEMMA DeskNextInv == ASSUME DeskInv, DeskNext PROVE DeskInv'
<1>1. CASE EndScan
  BY <1>1, AsleepType DEF EndScan, DeskInv, DeskType, HitsAreMarked, around
<1>2. CASE FailScan
  BY <1>2, AsleepType DEF FailScan, Trouble, DeskInv, DeskType, HitsAreMarked, around
<1> QED
  BY <1>1, <1>2, ReadRolesInv, ClassifyInv, UpsertHitInv, SettingInv DEF DeskNext, Scan

LEMMA DeskCounters == ASSUME Counters, DeskNext, UNCHANGED scripts PROVE Counters'
<1> USE BoundsType DEF Counters, scripts, around, Trouble, Moved, Move
<1>1. CASE Scan
  BY <1>1 DEF Scan, ReadRoles, Classify, UpsertHit, EndScan
<1>2. CASE FailScan
  BY <1>2 DEF FailScan
<1>3. ASSUME NEW c \in Operators, SetRole(c) \/ FailSetRole(c) PROVE Counters'
  BY <1>3 DEF SetRole, FailSetRole
<1>4. ASSUME NEW c \in Operators, NEW k \in Keys, NEW role \in Role, GetTerminal(c, k, role)
      PROVE  Counters'
  BY <1>4 DEF GetTerminal
<1> QED
  BY <1>1, <1>2, <1>3, <1>4 DEF DeskNext

LEMMA MovesOnly == DeskNext /\ Counters => moves' >= moves
<1> SUFFICES ASSUME DeskNext, Counters PROVE moves' >= moves
  OBVIOUS
<1> USE BoundsType DEF Counters, around, Trouble, Moved, Move
<1>1. CASE Scan
  BY <1>1 DEF Scan, ReadRoles, Classify, UpsertHit, EndScan
<1>2. CASE FailScan
  BY <1>2 DEF FailScan
<1>3. ASSUME NEW c \in Operators, SetRole(c) \/ FailSetRole(c) PROVE moves' >= moves
  BY <1>3 DEF SetRole, FailSetRole
<1>4. ASSUME NEW c \in Operators, NEW k \in Keys, NEW role \in Role, GetTerminal(c, k, role)
      PROVE  moves' >= moves
  BY <1>4 DEF GetTerminal
<1> QED
  BY <1>1, <1>2, <1>3, <1>4 DEF DeskNext

-------------------------------------------------------------------------------
LEMMA PassType ==
    ASSUME pass \in Passing
    PROVE  /\ pass.pc \in {"load", "sleep", "runs", "files", "parse"}
           /\ pass.runs \in Seq(1 .. RunCount) /\ pass.files \subseteq Files
           /\ pass.key \in FileKey \cup {<<>>}
           /\ DOMAIN pass = {"pc", "runs", "files", "key"}
BY DEF Passing

LEMMA LoadingType ==
    /\ Loading \in Passing /\ Loading.pc = "load" /\ Loading.files = {}
    /\ Resting \in Passing /\ Resting.pc = "sleep" /\ Resting.files = {}
<1>1. <<>> \in Seq(1 .. RunCount)
  OBVIOUS
<1>2. Loading \in Passing /\ Loading.pc = "load" /\ Loading.files = {}
  BY <1>1 DEF Loading, Passing
<1>3. Resting = [Loading EXCEPT !.pc = "sleep"]
  BY DEF Resting
<1> QED
  BY <1>2, <1>3 DEF Passing

LEMMA SeqOfFunction ==
    ASSUME NEW S, NEW n \in Nat, NEW f \in [1 .. n -> S] PROVE f \in Seq(S)
OBVIOUS

LEMMA OutputType ==
    ASSUME outputs \in Seq(Output), NEW i \in DOMAIN outputs
    PROVE  /\ outputs[i].key \in FileKey /\ outputs[i].life \in Nat /\ outputs[i].text \in Nat
           /\ outputs[i].key[1] \in Files /\ outputs[i].key[2] \in Nat
           /\ outputs[i].key = <<outputs[i].key[1], outputs[i].key[2]>>
<1>1. outputs[i] \in Output
  OBVIOUS
<1>2. outputs[i].key \in FileKey /\ outputs[i].life \in Nat /\ outputs[i].text \in Nat
  BY <1>1, BoundsType DEF Output
<1> QED
  BY <1>2, BoundsType DEF FileKey

\* A step that stores nothing, and takes no new file in hand.
LEMMA TextsKept ==
    ASSUME ScriptsType, TextsInOrder, UNCHANGED outputs,
           version' \in [Files -> Nat], \A f \in Files : version'[f] >= version[f],
           pass'.pc = "parse" => /\ pass.pc = "parse" /\ pass'.key = pass.key
                                 /\ life' = life /\ pass.key \in FileKey
    PROVE  TextsInOrder'
<1>1. \A i \in DOMAIN outputs : /\ outputs[i].text \in Nat /\ outputs[i].key[1] \in Files
  BY OutputType DEF ScriptsType
<1>2. \A i \in DOMAIN outputs : outputs[i].text <= version'[outputs[i].key[1]]
  BY <1>1 DEF TextsInOrder, ScriptsType
<1>3. pass'.pc = "parse" => pass.key[2] <= version'[pass.key[1]]
  <2> SUFFICES ASSUME pass'.pc = "parse" PROVE pass.key[2] <= version'[pass.key[1]]
    OBVIOUS
  <2>1. pass.key[1] \in Files /\ pass.key[2] \in Nat
    BY BoundsType DEF FileKey
  <2> QED
    BY <2>1 DEF TextsInOrder, ScriptsType
<1> QED
  BY <1>2, <1>3 DEF TextsInOrder

LEMMA LoadKeysInv == ASSUME Counters, ScriptsInv, LoadKeys PROVE ScriptsInv'
<1> USE DEF ScriptsInv
<1>1. /\ pass' = Resting
      /\ runs' = runs /\ version' = version /\ outputs' = outputs /\ life' = life
      /\ pass.pc = "load" /\ moves' = moves
  BY DEF LoadKeys, around, Trouble
<1>2. seen' \subseteq FileKey
  <2>1. \A i \in DOMAIN outputs : outputs[i].key \in FileKey
    BY OutputType DEF ScriptsType
  <2> QED
    BY <2>1 DEF LoadKeys
<1>3. ScriptsType'
  BY <1>1, <1>2, LoadingType DEF ScriptsType
<1>4. FilesInHand'
  BY <1>1, LoadingType DEF FilesInHand
<1>5. StoredIsSeen'
  BY <1>1 DEF StoredIsSeen
<1>6. TextsInOrder'
  BY <1>1, LoadingType, TextsKept DEF ScriptsType
<1> QED
  BY <1>3, <1>4, <1>5, <1>6

\* A step of the task that moves the pass on, and stores and sees nothing.
LEMMA PassInv ==
    ASSUME ScriptsInv, pass' \in Passing, pass.pc # "load", pass'.pc # "load",
           UNCHANGED <<runs, version, outputs, seen, life, moves>>,
           \A f \in pass'.files : version[f] > 0,
           pass'.pc = "parse" => /\ pass'.key \in FileKey \ seen /\ version[pass'.key[1]] > 0
                                 /\ pass'.key[2] = version[pass'.key[1]]
    PROVE  ScriptsInv'
<1>1. ScriptsType'
  BY DEF ScriptsInv, ScriptsType
<1>2. FilesInHand'
  BY DEF FilesInHand
<1>3. StoredIsSeen'
  BY DEF ScriptsInv, StoredIsSeen
<1>4. TextsInOrder'
  <2>1. pass'.pc = "parse" => /\ pass'.key[1] \in Files
                              /\ pass'.key[2] <= version[pass'.key[1]]
    BY DEF FileKey, ScriptsInv, ScriptsType
  <2>2. pass'.pc = "parse" => \A i \in DOMAIN outputs :
           outputs[i].key[1] = pass'.key[1] => outputs[i].text <= pass'.key[2]
    BY DEF ScriptsInv, TextsInOrder
  <2> QED
    BY <2>1, <2>2 DEF ScriptsInv, TextsInOrder
<1> QED
  BY <1>1, <1>2, <1>3, <1>4 DEF ScriptsInv

LEMMA ListRunsInv == ASSUME Counters, ScriptsInv, ListRuns PROVE ScriptsInv'
<1> DEFINE q == [i \in 1 .. Newest(runs, RecentRuns) |-> runs + 1 - i]
<1>1. q \in Seq(1 .. RunCount)
  <2>1. runs \in 0 .. RunCount /\ RecentRuns \in Nat
    BY BoundsType DEF ScriptsInv, ScriptsType
  <2>2. Newest(runs, RecentRuns) \in Nat /\ Newest(runs, RecentRuns) <= runs
    BY <2>1, BoundsType DEF Newest
  <2>3. \A i \in 1 .. Newest(runs, RecentRuns) : runs + 1 - i \in 1 .. RunCount
    BY <2>1, <2>2, BoundsType
  <2>4. q \in [1 .. Newest(runs, RecentRuns) -> 1 .. RunCount]
    BY <2>3
  <2> HIDE DEF q
  <2> QED
    BY <2>2, <2>4, SeqOfFunction
<1>2. pass' = [pass EXCEPT !.pc = "runs", !.runs = q] /\ pass.pc = "sleep"
  BY DEF ListRuns
<1> HIDE DEF q
<1>3. pass' \in Passing /\ pass'.pc = "runs" /\ pass'.files = pass.files
  BY <1>1, <1>2 DEF ScriptsInv, ScriptsType, Passing
<1> QED
  BY <1>2, <1>3, PassInv DEF ListRuns, around, ScriptsInv, FilesInHand

LEMMA NextRunInv == ASSUME Counters, ScriptsInv, NextRun PROVE ScriptsInv'
<1> USE DEF ScriptsInv
<1>1. PICK S \in FilesOf(Head(pass.runs)) :
          pass' = [pass EXCEPT !.pc = "files", !.runs = Tail(@), !.files = S]
  BY DEF NextRun
<1>2. S \subseteq Files /\ \A f \in S : version[f] > 0
  BY <1>1 DEF FilesOf, Written
<1>3. Tail(pass.runs) \in Seq(1 .. RunCount)
  BY PassType DEF NextRun, ScriptsType
<1>4. pass' \in Passing /\ pass'.pc = "files" /\ pass'.files = S
  BY <1>1, <1>2, <1>3 DEF ScriptsType, Passing
<1> QED
  BY <1>2, <1>4, PassInv DEF NextRun, around

LEMMA LookInv ==
    ASSUME Counters, ScriptsInv, NEW f \in Files, LookAtFile(f) PROVE ScriptsInv'
<1> USE DEF ScriptsInv
<1>1. f \in pass.files /\ pass.pc = "files" /\ version[f] > 0
  BY DEF LookAtFile, FilesInHand
<1>2. <<f, version[f]>> \in FileKey
  BY <1>1, BoundsType DEF ScriptsType, FileKey, Counters
<1>3. CASE <<f, version[f]>> \in seen
  <2>1. pass' = [pass EXCEPT !.files = @ \ {f}]
    BY <1>3 DEF LookAtFile
  <2>2. pass' \in Passing /\ pass'.pc = pass.pc /\ pass'.files = pass.files \ {f}
    BY <2>1 DEF ScriptsType, Passing
  <2> QED
    BY <1>1, <2>2, PassInv DEF LookAtFile, around, FilesInHand
<1>4. CASE <<f, version[f]>> \notin seen
  <2>1. pass' = [pass EXCEPT !.files = @ \ {f}, !.pc = "parse", !.key = <<f, version[f]>>]
    BY <1>4 DEF LookAtFile
  <2>2. /\ pass' \in Passing /\ pass'.pc = "parse" /\ pass'.files = pass.files \ {f}
        /\ pass'.key = <<f, version[f]>>
    BY <1>2, <2>1 DEF ScriptsType, Passing
  <2> QED
    BY <1>1, <1>2, <1>4, <2>2, PassInv DEF LookAtFile, around, FilesInHand
<1> QED
  BY <1>3, <1>4

LEMMA SkipInv == ASSUME Counters, ScriptsInv, SkipTorn PROVE ScriptsInv'
<1> USE DEF ScriptsInv
<1>1. /\ pass.pc = "parse" /\ seen' = seen \cup {pass.key} /\ pass.key \in FileKey
      /\ UNCHANGED <<runs, version, outputs, life, moves>>
  BY DEF SkipTorn, FilesInHand, around
<1>2. pass' \in Passing /\ pass'.pc = "files" /\ pass'.files = pass.files
  BY DEF SkipTorn, ScriptsType, Passing
<1>3. ScriptsType'
  BY <1>1, <1>2 DEF ScriptsType
<1>4. FilesInHand' /\ StoredIsSeen'
  BY <1>1, <1>2 DEF FilesInHand, StoredIsSeen
<1>5. TextsInOrder'
  BY <1>1, <1>2, TextsKept DEF ScriptsType
<1> QED
  BY <1>3, <1>4, <1>5

LEMMA AddInv == ASSUME Counters, ScriptsInv, AddTranscript PROVE ScriptsInv'
<1> USE DEF ScriptsInv
<1> DEFINE new == [key |-> pass.key, text |-> version[pass.key[1]], life |-> life]
<1>1. /\ pass.pc = "parse" /\ seen' = seen \cup {pass.key} /\ pass.key \in FileKey \ seen
      /\ UNCHANGED <<runs, version, life, moves>> /\ outputs' = Append(outputs, new)
  BY DEF AddTranscript, AddOutput, FilesInHand, around
<1>2. pass' \in Passing /\ pass'.pc = "files" /\ pass'.files = pass.files
  BY DEF AddTranscript, ScriptsType, Passing
<1>3. new \in Output
  <2>1. pass.key[1] \in Files /\ pass.key[2] \in 1 .. MaxMoves
    BY <1>1 DEF FileKey
  <2>2. version[pass.key[1]] \in 1 .. MaxMoves
    BY <2>1, BoundsType, SMTT(30) DEF ScriptsType, Counters, FilesInHand, AddTranscript
  <2> QED
    BY <1>1, <2>2 DEF Output, Counters
<1> HIDE DEF new
<1>4. /\ outputs' \in Seq(Output) /\ DOMAIN outputs' = 1 .. Len(outputs) + 1
      /\ \A i \in DOMAIN outputs : outputs'[i] = outputs[i]
      /\ outputs'[Len(outputs) + 1] = new /\ Len(outputs) \in Nat
      /\ DOMAIN outputs = 1 .. Len(outputs)
  BY <1>1, <1>3 DEF ScriptsType
<1>5. \A i \in DOMAIN outputs' : i \in DOMAIN outputs \/ i = Len(outputs) + 1
  BY <1>4
<1>6. new.key = pass.key /\ new.life = life /\ new.text = version[pass.key[1]]
  BY DEF new
<1>7. ScriptsType'
  BY <1>1, <1>2, <1>4 DEF ScriptsType
<1>8. FilesInHand'
  BY <1>1, <1>2 DEF FilesInHand
<1>9. StoredIsSeen'
  BY <1>1, <1>2, <1>4, <1>5, <1>6 DEF StoredIsSeen, Counters
<1>10. TextsInOrder'
  <2>1. \A i \in DOMAIN outputs' : /\ outputs'[i].key[2] <= outputs'[i].text
                                  /\ outputs'[i].text <= version[outputs'[i].key[1]]
    <3>1. /\ new.key[2] <= new.text /\ new.text <= version[new.key[1]]
      BY <1>1, <1>3, <1>6, BoundsType DEF TextsInOrder, Output
    <3> QED
      BY <1>4, <1>5, <3>1 DEF TextsInOrder
  <2>2. ASSUME NEW i \in DOMAIN outputs', NEW j \in DOMAIN outputs', i < j,
               outputs'[i].life = outputs'[j].life, outputs'[i].key[1] = outputs'[j].key[1]
        PROVE  outputs'[i].key # outputs'[j].key /\ outputs'[i].text <= outputs'[j].key[2]
    <3>1. i \in DOMAIN outputs
      BY <1>4, <1>5, <2>2
    <3>2. CASE j \in DOMAIN outputs
      BY <1>4, <2>2, <3>1, <3>2 DEF TextsInOrder
    <3>3. CASE j = Len(outputs) + 1
      BY <1>1, <1>4, <1>6, <2>2, <3>1, <3>3 DEF TextsInOrder, StoredIsSeen
    <3> QED
      BY <1>5, <3>2, <3>3
  <2> QED
    BY <1>1, <1>2, <2>1, <2>2 DEF TextsInOrder
<1> QED
  BY <1>7, <1>8, <1>9, <1>10

LEMMA ScriptsNextInv == ASSUME Counters, ScriptsInv, ScriptsNext PROVE ScriptsInv'
<1> USE DEF ScriptsInv
<1>1. CASE EndFiles
  <2>1. pass' \in Passing /\ pass'.pc = "runs" /\ pass'.files = pass.files
    BY <1>1 DEF EndFiles, ScriptsType, Passing
  <2> QED
    BY <1>1, <2>1, PassInv DEF EndFiles, around, FilesInHand
<1>2. CASE EndPass
  BY <1>2, LoadingType, PassInv DEF EndPass, around
<1>3. CASE FailPass
  <2>1. /\ pass.pc \in {"sleep", "parse"} /\ pass' = Resting
        /\ UNCHANGED <<runs, version, outputs, seen, life, moves>>
    BY <1>3 DEF FailPass, Trouble
  <2> QED
    BY <2>1, LoadingType, PassInv
<1>4. CASE StartRun
  <2>1. /\ runs' = runs + 1 /\ runs < RunCount /\ moves' = moves + 1
        /\ UNCHANGED <<version, outputs, seen, pass, life>>
    BY <1>4 DEF StartRun, Moved, Move
  <2>2. ScriptsType'
    BY <2>1, BoundsType DEF ScriptsType, Counters
  <2> QED
    BY <2>1, <2>2, TextsKept DEF FilesInHand, StoredIsSeen, ScriptsType
<1>5. ASSUME NEW f \in Files, WriteTranscript(f) PROVE ScriptsInv'
  <2>1. /\ version' = [version EXCEPT ![f] = @ + 1] /\ moves' = moves + 1
        /\ UNCHANGED <<runs, outputs, seen, pass, life>>
    BY <1>5 DEF WriteTranscript, Moved, Move
  <2>2. /\ version' \in [Files -> Nat]
        /\ \A g \in Files : version'[g] <= moves' /\ version'[g] >= version[g]
    BY <2>1 DEF ScriptsType, Counters
  <2>3. ScriptsType'
    BY <2>1, <2>2 DEF ScriptsType
  <2>4. FilesInHand'
    <3>1. pass.files \subseteq Files
      BY PassType DEF ScriptsType
    <3> QED
      BY <2>1, <2>2, <3>1 DEF FilesInHand, ScriptsType
  <2>5. TextsInOrder'
    BY <2>1, <2>2, TextsKept DEF FilesInHand
  <2> QED
    BY <2>1, <2>3, <2>4, <2>5 DEF StoredIsSeen
<1> QED
  BY <1>1, <1>2, <1>3, <1>4, <1>5, LoadKeysInv, ListRunsInv, NextRunInv, LookInv, SkipInv, AddInv
     DEF ScriptsNext, Pass

LEMMA ScriptsCounters == ASSUME Counters, ScriptsNext PROVE Counters'
<1> USE BoundsType DEF Counters, around, Trouble, Moved, Move
<1>1. CASE LoadKeys
  BY <1>1 DEF LoadKeys
<1>2. CASE ListRuns \/ NextRun \/ EndFiles \/ SkipTorn \/ AddTranscript \/ EndPass
  BY <1>2 DEF ListRuns, NextRun, EndFiles, SkipTorn, AddTranscript, EndPass
<1>3. ASSUME NEW f \in Files, LookAtFile(f) \/ WriteTranscript(f) PROVE Counters'
  BY <1>3 DEF LookAtFile, WriteTranscript
<1>4. CASE FailPass \/ StartRun
  BY <1>4 DEF FailPass, StartRun
<1> QED
  BY <1>1, <1>2, <1>3, <1>4 DEF ScriptsNext, Pass

-------------------------------------------------------------------------------
LEMMA ScriptsFrame ==
    ASSUME Counters, ScriptsInv, UNCHANGED scripts, moves' \in Nat, moves' >= moves
    PROVE  ScriptsInv'
BY DEF Counters, ScriptsInv, ScriptsType, FilesInHand, StoredIsSeen, TextsInOrder, scripts

LEMMA DeskFrame ==
    ASSUME DeskInv, UNCHANGED desk, procs' \in [Pids -> Process \cup {Gone}] PROVE DeskInv'
BY DEF DeskInv, DeskType, HitsAreMarked, desk

LEMMA ScriptsKeepProcs == ScriptsNext => procs' = procs
<1> USE DEF around, Trouble, Moved, Move
<1>1. LoadKeys => procs' = procs
  BY DEF LoadKeys
<1>2. ListRuns \/ NextRun \/ EndFiles \/ SkipTorn \/ AddTranscript \/ EndPass => procs' = procs
  BY DEF ListRuns, NextRun, EndFiles, SkipTorn, AddTranscript, EndPass
<1>3. \A f \in Files : LookAtFile(f) \/ WriteTranscript(f) => procs' = procs
  BY DEF LookAtFile, WriteTranscript
<1>4. FailPass \/ StartRun => procs' = procs
  BY DEF FailPass, StartRun
<1> QED
  BY <1>1, <1>2, <1>3, <1>4 DEF ScriptsNext, Pass

LEMMA ProcsInv ==
    ASSUME Inv, NEW p \in Pids, Exit(p) \/ \E process \in Process : Spawn(p, process),
           UNCHANGED <<desk, scripts>>
    PROVE  Inv'
<1>1. /\ procs' \in [Pids -> Process \cup {Gone}]
      /\ moves' = moves + 1 /\ moves < MaxMoves /\ troubles' = troubles
  BY DEF Exit, Spawn, Move, Inv, DeskInv, DeskType
<1>2. Counters' /\ moves' >= moves
  BY <1>1, BoundsType DEF Inv, Counters, scripts
<1> QED
  BY <1>1, <1>2, DeskFrame, ScriptsFrame DEF Inv, Counters

LEMMA RestartInv == ASSUME Inv, Restart PROVE Inv'
<1> USE DEF Inv, Restart
<1>1. Counters'
  BY BoundsType DEF Counters, Trouble, ScriptsEnd
<1>2. DeskInv'
  <2>1. /\ scan' = Asleep /\ rows' = rows /\ procs' = procs
        /\ setting' = [c \in Operators |-> Unasked]
    BY DEF DeskEnds, Trouble
  <2>2. DeskType'
    BY <2>1, AsleepType DEF DeskInv, DeskType
  <2> QED
    BY <2>1, <2>2, AsleepType DEF DeskInv, HitsAreMarked
<1>3. ScriptsInv'
  <2>1. /\ pass' = Loading /\ seen' = {} /\ life' = life + 1
        /\ UNCHANGED <<runs, version, outputs, moves>>
    BY DEF ScriptsEnd, Trouble
  <2>2. ScriptsType'
    BY <2>1, LoadingType DEF ScriptsInv, ScriptsType
  <2>3. FilesInHand'
    BY <2>1, LoadingType DEF FilesInHand
  <2>4. \A i \in DOMAIN outputs : outputs[i].life \in Nat /\ outputs[i].life <= life
    BY OutputType DEF ScriptsInv, ScriptsType, StoredIsSeen
  <2>5. StoredIsSeen'
    BY <2>1, <2>4 DEF StoredIsSeen, Counters
  <2>6. TextsInOrder'
    BY <2>1, LoadingType, TextsKept DEF ScriptsInv, ScriptsType
  <2> QED
    BY <2>1, <2>2, <2>3, <2>5, <2>6 DEF ScriptsInv
<1> QED
  BY <1>1, <1>2, <1>3

LEMMA InitInv == Init => Inv
<1> SUFFICES ASSUME Init PROVE Inv
  OBVIOUS
<1> USE BoundsType DEF Init
<1>1. Counters
  BY DEF AroundInit, ScriptsInit, Counters
<1>2. DeskInv
  BY AsleepType DEF AroundInit, DeskInit, DeskInv, DeskType, HitsAreMarked
<1>3. ScriptsInv
  <2>1. outputs = <<>> /\ outputs \in Seq(Output) /\ DOMAIN outputs = {}
    BY DEF ScriptsInit
  <2>2. ScriptsType
    BY <2>1, LoadingType DEF ScriptsInit, AroundInit, ScriptsType
  <2> QED
    BY <2>1, <2>2, LoadingType
       DEF ScriptsInit, ScriptsInv, FilesInHand, StoredIsSeen, TextsInOrder
<1> QED
  BY <1>1, <1>2, <1>3 DEF Inv

LEMMA NextInv == Inv /\ [Next]_vars => Inv'
<1> SUFFICES ASSUME Inv, [Next]_vars PROVE Inv'
  OBVIOUS
<1>1. CASE DeskNext /\ UNCHANGED scripts
  <2>1. Counters' /\ DeskInv' /\ moves' >= moves
    BY <1>1, DeskCounters, DeskNextInv, MovesOnly DEF Inv
  <2>2. ScriptsInv'
    BY <1>1, <2>1, ScriptsFrame DEF Inv, Counters
  <2> QED
    BY <2>1, <2>2 DEF Inv
<1>2. CASE ScriptsNext /\ UNCHANGED desk
  BY <1>2, ScriptsCounters, ScriptsNextInv, ScriptsKeepProcs, DeskFrame
     DEF Inv, DeskInv, DeskType
<1>3. CASE Restart
  BY <1>3, RestartInv
<1>4. CASE UNCHANGED vars
  <2>1. UNCHANGED desk /\ UNCHANGED scripts /\ UNCHANGED <<procs, moves, troubles>>
    BY <1>4 DEF vars, around
  <2>2. Counters'
    BY <2>1 DEF Inv, Counters, scripts
  <2> QED
    BY <2>1, <2>2, DeskFrame, ScriptsFrame DEF Inv, DeskInv, DeskType, Counters
<1> QED
  BY <1>1, <1>2, <1>3, <1>4, ProcsInv DEF Next

-------------------------------------------------------------------------------
\* What the scan has read and the task has seen, in every reachable state: the
\* inductive invariant of the theorems below (main.rs, the two loops).
THEOREM Invariant == Spec => []Inv
BY InitInv, NextInv, PTL DEF Spec

\* Every variable keeps its type, whatever the desktop does.
THEOREM TypeCorrect == Spec => []TypeOK
<1>1. Inv => TypeOK
  <2> SUFFICES ASSUME Inv PROVE TypeOK
    OBVIOUS
  <2>1. version \in [Files -> 0 .. MaxMoves]
    BY BoundsType DEF Inv, ScriptsInv, ScriptsType, Counters
  <2> QED
    BY <2>1, BoundsType
       DEF Inv, Counters, DeskInv, DeskType, ScriptsInv, ScriptsType, TypeOK
<1> QED
  BY <1>1, Invariant, PTL

\* A life of the daemon stores no two observations of a file under one key, and repeats
\* a text only if the file grew between the key and the text of the first; whatever
\* fails and whatever the limits of the task are (main.rs, ingest_agent_transcripts).
THEOREM RepeatsAreRaced == Spec => []NothingTwice
<1>1. Inv => NothingTwice
  <2> SUFFICES ASSUME Inv, NEW i \in DOMAIN outputs, NEW j \in DOMAIN outputs, i < j,
                      outputs[i].life = outputs[j].life, outputs[i].key[1] = outputs[j].key[1]
               PROVE  /\ outputs[i].key # outputs[j].key
                      /\ outputs[i].text = outputs[j].text => outputs[i].key[2] < outputs[i].text
    BY DEF NothingTwice
  <2>1. /\ outputs[i].key # outputs[j].key /\ outputs[i].text <= outputs[j].key[2]
        /\ outputs[i].key[2] <= outputs[i].text /\ outputs[j].key[2] <= outputs[j].text
    BY DEF Inv, ScriptsInv, TextsInOrder
  <2>2. outputs[i].key[2] # outputs[j].key[2]
    BY <2>1, OutputType DEF Inv, ScriptsInv, ScriptsType
  <2>3. /\ outputs[i].key[2] \in Nat /\ outputs[j].key[2] \in Nat
        /\ outputs[i].text \in Nat /\ outputs[j].text \in Nat
    BY OutputType DEF Inv, ScriptsInv, ScriptsType
  <2> QED
    BY <2>1, <2>2, <2>3
<1> QED
  BY <1>1, Invariant, PTL

\* The scan forgets no mark it has read: a row loses its mark to a set_role, or to a
\* scan that was on its way when the mark was made.
THEOREM NoMarkIsForgotten == Spec => MarksAreKept
<1> DEFINE Kept ==
      \A k \in Keys :
          rows[k] # NoRow /\ rows[k].role \in {"ignored", "operator"}
             /\ rows'[k].role \in {"foreign", "workbench"}
          => \/ \E c \in Operators : setting[c] # Unasked /\ setting[c].key = k
             \/ k[2] \notin scan.ignored \cup scan.operator
<1>1. Inv /\ [Next]_vars => [Kept]_vars
  <2> SUFFICES ASSUME Inv, Next, NEW k \in Keys, rows[k].role \in {"ignored", "operator"},
                      rows'[k].role \in {"foreign", "workbench"}
               PROVE  \/ \E c \in Operators : setting[c] # Unasked /\ setting[c].key = k
                      \/ k[2] \notin scan.ignored \cup scan.operator
    OBVIOUS
  <2> USE DEF Inv, DeskInv
  <2>1. rows' # rows
    OBVIOUS
  <2>2. CASE UpsertHit
    <3>1. PICK h \in scan.hits :
            rows' = [rows EXCEPT ![<<h.tty, h.cmd>>] = [pid |-> h.pid, pane |-> h.pane, role |-> h.role]]
      BY <2>2 DEF UpsertHit, UpsertTerminal
    <3>2. k = <<h.tty, h.cmd>> /\ h.role \in {"foreign", "workbench"}
      BY <3>1 DEF DeskType
    <3> QED
      BY <3>1, <3>2 DEF HitsAreMarked
  <2>3. ASSUME NEW c \in Operators, SetRole(c) PROVE setting[c] # Unasked /\ setting[c].key = k
    <3>1. setting[c] \in [pc : {"write"}, key : Keys, row : Row] /\ setting[c] # Unasked
      BY <2>3 DEF SetRole, DeskType
    <3>2. setting[c].key = <<setting[c].key[1], setting[c].key[2]>>
      BY <3>1 DEF Keys
    <3>3. rows' = [rows EXCEPT ![setting[c].key] = setting[c].row]
      BY <2>3, <3>2 DEF SetRole, UpsertTerminal
    <3> QED
      BY <3>1, <3>3 DEF DeskType
  <2>4. UpsertHit \/ \E c \in Operators : SetRole(c)
    BY <2>1 DEF Next, DeskNext, Scan, ReadRoles, Classify, EndScan, FailScan, FailSetRole,
                GetTerminal, desk, Restart, DeskEnds
  <2> QED
    BY <2>2, <2>3, <2>4
<1> QED
  BY <1>1, Invariant, PTL DEF Spec, MarksAreKept

-------------------------------------------------------------------------------
(* The sensors.  What was said last about a process, a repository or the mode, *)
(* whether it is ingested or still on its way, is what the watcher that says   *)
(* it has on its mind; so what it says next is something else.                 *)

Ends(q, about, said) ==
    \A i \in DOMAIN q :
       (q[i] \in about /\ \A k \in DOMAIN q : k > i => q[k] \notin about) => Says(q[i]) = said

Story(q, about, said) == Changes(q, about) /\ Ends(q, about, said)

TrackedSays(p) == IF tracked[p] = None THEN "proc_exited" ELSE "proc_started"

StoryInv ==
    /\ \A p \in Pids : Story(InOrder, OfProcess(p), TrackedSays(p))
    /\ \A r \in Repos : Story(InOrder, OfRepo(r), heads[r])
    /\ Story(InOrder, OfMode, mode.away)

\* Before its first look the process watcher has said nothing and tracks nothing.
FreshBaseline ==
    watcher.pc = "baseline" =>
      /\ watcher.out = <<>>
      /\ \A p \in Pids : tracked[p] = None
      /\ \A i \in DOMAIN InOrder : InOrder[i] \notin ProcEvent

SensorsInv ==
    /\ SensorsTypeOK /\ StoryInv /\ FreshBaseline
    /\ Len(pumped) <= 1 /\ Len(copied.out) <= 1

LEMMA Joined ==
    ASSUME NEW T, NEW a \in Seq(T), NEW b \in Seq(T)
    PROVE  /\ a \o b \in Seq(T) /\ DOMAIN (a \o b) = 1 .. Len(a) + Len(b)
           /\ Len(a \o b) = Len(a) + Len(b)
           /\ \A i \in 1 .. Len(a) : (a \o b)[i] = a[i]
           /\ \A i \in 1 .. Len(b) : (a \o b)[Len(a) + i] = b[i]
OBVIOUS

\* t is s with l more elements after the first n.
Widened(s, t, n, l, m) ==
    /\ DOMAIN s = 1 .. n + m /\ DOMAIN t = 1 .. n + l + m
    /\ \A i \in 1 .. n : t[i] = s[i]
    /\ \A i \in 1 .. m : t[n + l + i] = s[n + i]

LEMMA InsertedAt ==
    ASSUME NEW T, NEW a \in Seq(T), NEW e \in Seq(T), NEW b \in Seq(T)
    PROVE  /\ Widened(a \o b, a \o e \o b, Len(a), Len(e), Len(b))
           /\ \A i \in 1 .. Len(e) : (a \o e \o b)[Len(a) + i] = e[i]
           /\ \A i \in 1 .. Len(b) : (a \o b)[Len(a) + i] = b[i]
<1>1. PICK c : c = a \o e
  OBVIOUS
<1>2. PICK n, l, m \in Nat : n = Len(a) /\ l = Len(e) /\ m = Len(b)
  OBVIOUS
<1>3. /\ c \in Seq(T) /\ Len(c) = n + l
      /\ \A i \in 1 .. n : c[i] = a[i]
      /\ \A i \in 1 .. l : c[n + i] = e[i]
  BY <1>1, <1>2, Joined
<1>4. PICK t : t = c \o b
  OBVIOUS
<1>5. /\ DOMAIN t = 1 .. n + l + m
      /\ \A i \in 1 .. n + l : t[i] = c[i]
      /\ \A i \in 1 .. m : t[n + l + i] = b[i]
  <2>1. /\ DOMAIN t = 1 .. Len(c) + Len(b)
        /\ \A i \in 1 .. Len(c) : t[i] = c[i]
        /\ \A i \in 1 .. Len(b) : t[Len(c) + i] = b[i]
    <3>1. c \in Seq(T)
      BY <1>3
    <3>2. /\ DOMAIN (c \o b) = 1 .. Len(c) + Len(b)
          /\ \A i \in 1 .. Len(c) : (c \o b)[i] = c[i]
          /\ \A i \in 1 .. Len(b) : (c \o b)[Len(c) + i] = b[i]
      BY <3>1, Joined
    <3> QED
      BY <1>4, <3>2
  <2> QED
    BY <1>2, <1>3, <2>1
<1>6. PICK s : s = a \o b
  OBVIOUS
<1>7. /\ DOMAIN s = 1 .. n + m
      /\ \A i \in 1 .. n : s[i] = a[i]
      /\ \A i \in 1 .. m : s[n + i] = b[i]
  BY <1>2, <1>6, Joined
<1>8. Widened(s, t, n, l, m) /\ \A i \in 1 .. l : t[n + i] = e[i]
  <2>1. \A i \in 1 .. n : t[i] = s[i]
    BY <1>3, <1>5, <1>7
  <2>2. \A i \in 1 .. l : n + i \in 1 .. n + l
    OBVIOUS
  <2> QED
    BY <1>3, <1>5, <1>7, <2>1, <2>2 DEF Widened
<1> QED
  BY <1>1, <1>2, <1>4, <1>6, <1>7, <1>8

\* Events about something else may come in between.
LEMMA StoryWidened ==
    ASSUME NEW n \in Nat, NEW l \in Nat, NEW m \in Nat, NEW s, NEW t, NEW about, NEW said,
           Widened(s, t, n, l, m), \A i \in 1 .. l : t[n + i] \notin about,
           Story(s, about, said)
    PROVE  Story(t, about, said)
<1>1. DOMAIN s = 1 .. n + m /\ DOMAIN t = 1 .. n + l + m
  BY DEF Widened
<1> DEFINE Back(i) == IF i <= n THEN i ELSE i - l
           Forth(i) == IF i <= n THEN i ELSE i + l
<1>2. ASSUME NEW i \in DOMAIN t, t[i] \in about
      PROVE  /\ i \in 1 .. n \/ i \in n + l + 1 .. n + l + m
             /\ Back(i) \in DOMAIN s /\ s[Back(i)] = t[i]
  <2>1. ~(i \in n + 1 .. n + l)
    <3>1. i \in n + 1 .. n + l => i - n \in 1 .. l /\ n + (i - n) = i
      OBVIOUS
    <3> QED
      BY <1>2, <3>1
  <2>2. i \in 1 .. n \/ i \in n + l + 1 .. n + l + m
    BY <1>1, <2>1
  <2>3. CASE i \in 1 .. n
    BY <1>1, <2>3 DEF Widened
  <2>4. CASE i \in n + l + 1 .. n + l + m
    <3>1. /\ i - n - l \in 1 .. m /\ n + l + (i - n - l) = i /\ n + (i - n - l) = i - l
          /\ i - l \in 1 .. n + m /\ ~(i <= n)
      BY <2>4
    <3> QED
      BY <1>1, <2>4, <3>1 DEF Widened
  <2> QED
    BY <2>2, <2>3, <2>4
<1>3. ASSUME NEW k \in DOMAIN s PROVE Forth(k) \in DOMAIN t /\ t[Forth(k)] = s[k]
  <2>1. CASE k \in 1 .. n
    BY <1>1, <2>1 DEF Widened
  <2>2. CASE k > n
    <3>1. /\ k - n \in 1 .. m /\ n + (k - n) = k /\ n + l + (k - n) = k + l
          /\ k + l \in 1 .. n + l + m /\ ~(k <= n)
      BY <1>1, <2>2
    <3> QED
      BY <1>1, <3>1 DEF Widened
  <2> QED
    BY <1>1, <2>1, <2>2
\* What follows i in s follows it in t.
<1>4. ASSUME NEW i \in DOMAIN t, t[i] \in about, NEW k \in DOMAIN s, k > Back(i)
      PROVE  Forth(k) > i
  BY <1>1, <1>2, <1>4
<1>5. ASSUME NEW i \in DOMAIN t, t[i] \in about, NEW k \in DOMAIN s, k < Back(i)
      PROVE  Forth(k) < i
  BY <1>1, <1>2, <1>5
<1>6. ASSUME NEW i \in DOMAIN t, NEW j \in DOMAIN t, i < j, t[i] \in about, t[j] \in about
      PROVE  Back(i) < Back(j)
  BY <1>1, <1>2, <1>6
<1>7. /\ \A i \in DOMAIN t : Back(i) \in Int /\ Forth(i) \in Int
      /\ \A i \in DOMAIN s : Back(i) \in Int /\ Forth(i) \in Int
  BY <1>1
<1> HIDE DEF Back, Forth
<1>8. ASSUME NEW i \in DOMAIN t, NEW j \in DOMAIN t, i < j, t[i] \in about, t[j] \in about,
             \A k \in i + 1 .. j - 1 : t[k] \notin about
      PROVE  Says(t[i]) # Says(t[j])
  <2>1. ASSUME NEW k \in Back(i) + 1 .. Back(j) - 1 PROVE s[k] \notin about
    <3>1. k \in DOMAIN s /\ k > Back(i) /\ k < Back(j)
      BY <1>1, <1>2, <1>7, <1>8
    <3>2. Forth(k) \in i + 1 .. j - 1
      BY <1>1, <1>4, <1>5, <1>7, <1>8, <3>1
    <3> QED
      BY <1>3, <1>8, <3>1, <3>2
  <2> QED
    BY <1>2, <1>6, <1>8, <2>1 DEF Story, Changes
<1>9. ASSUME NEW i \in DOMAIN t, t[i] \in about, \A k \in DOMAIN t : k > i => t[k] \notin about
      PROVE  Says(t[i]) = said
  <2>1. ASSUME NEW k \in DOMAIN s, k > Back(i) PROVE s[k] \notin about
    BY <1>3, <1>4, <1>9, <2>1
  <2> QED
    BY <1>2, <1>9, <2>1 DEF Story, Ends
<1> QED
  BY <1>8, <1>9 DEF Story, Changes, Ends

LEMMA InsertOther ==
    ASSUME NEW T, NEW a \in Seq(T), NEW e \in Seq(T), NEW b \in Seq(T), NEW about, NEW said,
           \A i \in DOMAIN e : e[i] \notin about, Story(a \o b, about, said)
    PROVE  Story(a \o e \o b, about, said)
<1>1. Len(a) \in Nat /\ Len(e) \in Nat /\ Len(b) \in Nat /\ DOMAIN e = 1 .. Len(e)
  OBVIOUS
<1>2. /\ Widened(a \o b, a \o e \o b, Len(a), Len(e), Len(b))
      /\ \A i \in 1 .. Len(e) : (a \o e \o b)[Len(a) + i] \notin about
  BY <1>1, InsertedAt
<1> QED
  BY <1>1, <1>2, StoryWidened

\* One event that says something else than the last may be added, where no event
\* about the same comes after it.
LEMMA StoryWithNews ==
    ASSUME NEW n \in Nat, NEW l \in Nat, NEW m \in Nat, NEW s, NEW t, NEW about, NEW said,
           Widened(s, t, n, l, m), NEW x \in 1 .. l,
           t[n + x] \in about, \A i \in (1 .. l) \ {x} : t[n + i] \notin about,
           \A i \in 1 .. m : s[n + i] \notin about,
           Says(t[n + x]) # said, Story(s, about, said)
    PROVE  Story(t, about, Says(t[n + x]))
<1>1. DOMAIN s = 1 .. n + m /\ DOMAIN t = 1 .. n + l + m /\ n + x \in DOMAIN t
  BY DEF Widened
<1>2. ASSUME NEW i \in DOMAIN t, t[i] \in about PROVE i \in 1 .. n \/ i = n + x
  <2>1. CASE i > n + l
    <3>1. i - n - l \in 1 .. m /\ n + l + (i - n - l) = i
      BY <1>1, <2>1
    <3> QED
      BY <1>2, <3>1 DEF Widened
  <2>2. CASE i > n /\ i <= n + l /\ i # n + x
    <3>1. i - n \in (1 .. l) \ {x} /\ n + (i - n) = i
      BY <1>1, <2>2
    <3> QED
      BY <1>2, <3>1
  <2> QED
    BY <1>1, <2>1, <2>2
<1>3. ASSUME NEW k \in DOMAIN s, k > n PROVE s[k] \notin about
  <2>1. k - n \in 1 .. m /\ n + (k - n) = k
    BY <1>1, <1>3
  <2> QED
    BY <2>1
<1>4. \A i \in 1 .. n : i \in DOMAIN s /\ i \in DOMAIN t /\ s[i] = t[i]
  BY <1>1 DEF Widened
<1>5. ASSUME NEW i \in DOMAIN t, NEW j \in DOMAIN t, i < j, t[i] \in about, t[j] \in about,
             \A k \in i + 1 .. j - 1 : t[k] \notin about
      PROVE  Says(t[i]) # Says(t[j])
  <2>1. i \in 1 .. n
    BY <1>1, <1>2, <1>5
  <2>2. CASE j \in 1 .. n
    <3>1. \A k \in i + 1 .. j - 1 : k \in 1 .. n
      BY <2>1, <2>2
    <3>2. \A k \in i + 1 .. j - 1 : s[k] \notin about
      BY <1>4, <1>5, <3>1
    <3> QED
      BY <1>4, <1>5, <2>1, <2>2, <3>2 DEF Story, Changes
  <2>3. CASE j = n + x
    <3>1. ASSUME NEW k \in DOMAIN s, k > i PROVE s[k] \notin about
      <4>1. CASE k <= n
        <5>1. k \in 1 .. n /\ k \in i + 1 .. j - 1
          BY <1>1, <2>1, <2>3, <3>1, <4>1
        <5> QED
          BY <1>4, <1>5, <5>1
      <4> QED
        BY <1>1, <1>3, <4>1
    <3> QED
      BY <1>4, <1>5, <2>1, <2>3, <3>1 DEF Story, Ends
  <2> QED
    BY <1>2, <1>5, <2>2, <2>3
<1>6. ASSUME NEW i \in DOMAIN t, t[i] \in about, \A k \in DOMAIN t : k > i => t[k] \notin about
      PROVE  i = n + x
  <2>1. i \in 1 .. n => n + x > i
    OBVIOUS
  <2> QED
    BY <1>1, <1>2, <1>6, <2>1
<1> QED
  BY <1>5, <1>6 DEF Story, Changes, Ends

LEMMA InsertNews ==
    ASSUME NEW T, NEW a \in Seq(T), NEW e \in Seq(T), NEW b \in Seq(T), NEW about, NEW said,
           NEW x \in DOMAIN e, e[x] \in about, \A i \in DOMAIN e \ {x} : e[i] \notin about,
           \A i \in DOMAIN b : b[i] \notin about,
           Says(e[x]) # said, Story(a \o b, about, said)
    PROVE  Story(a \o e \o b, about, Says(e[x]))
<1>1. /\ Len(a) \in Nat /\ Len(e) \in Nat /\ Len(b) \in Nat
      /\ DOMAIN e = 1 .. Len(e) /\ DOMAIN b = 1 .. Len(b)
  OBVIOUS
<1>2. PICK s, t, n, l, m :
        s = a \o b /\ t = a \o e \o b /\ n = Len(a) /\ l = Len(e) /\ m = Len(b)
  OBVIOUS
<1>3. /\ Widened(s, t, n, l, m)
      /\ \A i \in 1 .. l : t[n + i] = e[i]
      /\ \A i \in 1 .. m : s[n + i] = b[i]
  BY <1>2, InsertedAt
<1>4. /\ n \in Nat /\ l \in Nat /\ m \in Nat /\ x \in 1 .. l
      /\ t[n + x] = e[x] /\ \A i \in (1 .. l) \ {x} : t[n + i] \notin about
      /\ \A i \in 1 .. m : s[n + i] \notin about
  BY <1>1, <1>2, <1>3
<1>5. Says(t[n + x]) # said /\ Story(s, about, said) /\ t[n + x] \in about
  BY <1>2, <1>4
<1>6. Story(t, about, Says(t[n + x]))
  BY <1>3, <1>4, <1>5, StoryWithNews
<1> QED
  BY <1>2, <1>4, <1>6

-------------------------------------------------------------------------------
(* Each step says nothing, or says news of one thing.                          *)

History == [i \in DOMAIN stream |-> stream[i].event]

LEMMA SensorsBounds ==
    /\ MaxMoves \in Nat /\ MaxTroubles \in Nat /\ IsFiniteSet(Pids)
    /\ ChannelSize \in Nat \ {0} /\ AwayThreshold \in Nat \ {0}
    /\ None \notin Texts \cup Commits \cup Commands
    /\ Texts # {} /\ Commits # {}
BY SurroundingsAssumption, SensorsAssumption DEF SurroundingsAssumption, SensorsAssumption

\* No event is about two things.
LEMMA Kinds ==
    /\ \A e \in ProcEvent : /\ e \notin OfMode
                            /\ \A r \in Repos : e \notin OfRepo(r)
                            /\ \A p \in Pids : e \in OfProcess(p) <=> e.pid = p
    /\ \A e \in ClipEvent : /\ e \notin OfMode /\ e \notin ProcEvent
                            /\ \A r \in Repos : e \notin OfRepo(r)
                            /\ \A p \in Pids : e \notin OfProcess(p)
    /\ \A p \in Pids : OfProcess(p) \subseteq ProcEvent
    /\ \A r \in Repos, c \in Commits :
         LET e == [kind |-> "git_head", repo |-> r, commit |-> c]
         IN /\ e \in Event /\ e \notin OfMode /\ e \notin ProcEvent
            /\ \A s \in Repos : e \in OfRepo(s) <=> s = r
            /\ Says(e) = c
    /\ \A away \in BOOLEAN :
         LET e == [kind |-> "mode_changed", away |-> away]
         IN /\ e \in Event /\ e \in OfMode /\ e \notin ProcEvent
            /\ \A r \in Repos : e \notin OfRepo(r)
            /\ Says(e) = away
    /\ \A e \in ProcEvent : Says(e) = e.kind
    /\ \A r \in Repos : \A e \in OfRepo(r) : Says(e) \in Commits
<1>1. \A e \in ProcEvent : /\ e \notin OfMode
                           /\ \A r \in Repos : e \notin OfRepo(r)
                           /\ \A p \in Pids : e \in OfProcess(p) <=> e.pid = p
  BY DEF ProcEvent, OfMode, OfRepo, OfProcess
<1>2. \A e \in ClipEvent : /\ e \notin OfMode /\ e \notin ProcEvent
                           /\ \A r \in Repos : e \notin OfRepo(r)
                           /\ \A p \in Pids : e \notin OfProcess(p)
  BY DEF ClipEvent, ProcEvent, OfMode, OfRepo, OfProcess
<1>3. \A p \in Pids : OfProcess(p) \subseteq ProcEvent
  BY DEF ProcEvent, OfProcess
<1>4. ASSUME NEW r \in Repos, NEW c \in Commits
      PROVE  LET e == [kind |-> "git_head", repo |-> r, commit |-> c]
             IN /\ e \in Event /\ e \notin OfMode /\ e \notin ProcEvent
                /\ \A s \in Repos : e \in OfRepo(s) <=> s = r
                /\ Says(e) = c
  BY DEF Event, OfMode, ProcEvent, OfRepo, Says
<1>5. ASSUME NEW away \in BOOLEAN
      PROVE  LET e == [kind |-> "mode_changed", away |-> away]
             IN /\ e \in Event /\ e \in OfMode /\ e \notin ProcEvent
                /\ \A r \in Repos : e \notin OfRepo(r)
                /\ Says(e) = away
  BY DEF Event, OfMode, ProcEvent, OfRepo, Says
<1>6. \A e \in ProcEvent : Says(e) = e.kind
  BY DEF ProcEvent, Says
<1>7. \A r \in Repos : \A e \in OfRepo(r) : Says(e) \in Commits
  BY DEF OfRepo, Says
<1> QED
  BY <1>1, <1>2, <1>3, <1>4, <1>5, <1>6, <1>7

LEMMA OrderType ==
    ASSUME SensorsTypeOK
    PROVE  /\ History \in Seq(Event) /\ pumped \in Seq(Event) /\ channel \in Seq(Event)
           /\ watcher.out \in Seq(Event) /\ copied.out \in Seq(Event)
           /\ InOrder = History \o pumped \o channel \o watcher.out
           /\ \A i \in DOMAIN pumped : pumped[i] \in Sent
           /\ \A i \in DOMAIN channel : channel[i] \in Sent
           /\ \A i \in DOMAIN watcher.out : watcher.out[i] \in ProcEvent
           /\ \A i \in DOMAIN copied.out : copied.out[i] \in ClipEvent
<1>1. /\ stream \in Seq([event : Event, stored : BOOLEAN])
      /\ pumped \in Seq(Sent) /\ channel \in Seq(Sent)
      /\ watcher.out \in Seq(ProcEvent) /\ copied.out \in Seq(ClipEvent)
  BY DEF SensorsTypeOK
<1>2. ProcEvent \subseteq Sent /\ ClipEvent \subseteq Sent /\ Sent \subseteq Event
  BY DEF Sent, Event
<1>3. History \in Seq(Event)
  <2>1. ASSUME NEW i \in 1 .. Len(stream) PROVE stream[i].event \in Event
    <3>1. stream \in Seq([event : Event, stored : BOOLEAN])
      BY <1>1
    <3>2. PICK R : R = [event : Event, stored : BOOLEAN]
      OBVIOUS
    <3>3. stream[i] \in R
      BY <3>1, <3>2, ElementOfSeq
    <3> QED
      BY <3>2, <3>3
  <2>2. History = [i \in 1 .. Len(stream) |-> stream[i].event] /\ Len(stream) \in Nat
    BY <1>1 DEF History
  <2>3. History \in [1 .. Len(stream) -> Event]
    BY <2>1, <2>2
  <2> QED
    BY <2>2, <2>3, SeqOfFunction
<1>4. \A S : S \subseteq Event => Seq(S) \subseteq Seq(Event)
  OBVIOUS
<1>5. /\ pumped \in Seq(Event) /\ channel \in Seq(Event)
      /\ watcher.out \in Seq(Event) /\ copied.out \in Seq(Event)
  BY <1>1, <1>2, <1>4
<1> QED
  BY <1>1, <1>3, <1>5 DEF InOrder, History

LEMMA ThreeJoined ==
    ASSUME NEW T, NEW a \in Seq(T), NEW b \in Seq(T), NEW c \in Seq(T)
    PROVE  a \o b \o c \in Seq(T)
<1>1. PICK d : d = a \o b
  OBVIOUS
<1>2. d \in Seq(T)
  BY <1>1
<1>3. d \o c \in Seq(T)
  BY <1>2
<1> QED
  BY <1>1, <1>3

\* A step after which the same events come in the same order.
LEMMA StorySame ==
    ASSUME StoryInv, InOrder' = InOrder, UNCHANGED <<tracked, heads>>, mode'.away = mode.away
    PROVE  StoryInv'
BY DEF StoryInv, TrackedSays

LEMMA StoryClip ==
    ASSUME StoryInv, NEW a \in Seq(Event), NEW e \in Seq(Event), NEW b \in Seq(Event),
           \A i \in DOMAIN e : e[i] \in ClipEvent,
           InOrder = a \o b, InOrder' = a \o e \o b, UNCHANGED <<tracked, heads, mode>>
    PROVE  StoryInv'
<1>1. ASSUME NEW p \in Pids PROVE Story(InOrder, OfProcess(p), TrackedSays(p))'
  <2>1. \A i \in DOMAIN e : e[i] \notin OfProcess(p)
    BY Kinds
  <2>2. Story(a \o b, OfProcess(p), TrackedSays(p))
    BY DEF StoryInv
  <2>3. Story(a \o e \o b, OfProcess(p), TrackedSays(p))
    BY <2>1, <2>2, InsertOther
  <2> QED
    BY <2>3 DEF TrackedSays
<1>2. ASSUME NEW r \in Repos PROVE Story(InOrder, OfRepo(r), heads[r])'
  <2>1. \A i \in DOMAIN e : e[i] \notin OfRepo(r)
    BY Kinds
  <2>2. Story(a \o b, OfRepo(r), heads[r])
    BY DEF StoryInv
  <2> QED
    BY <2>1, <2>2, InsertOther
<1>3. Story(InOrder, OfMode, mode.away)'
  <2>1. \A i \in DOMAIN e : e[i] \notin OfMode
    BY Kinds
  <2>2. Story(a \o b, OfMode, mode.away)
    BY DEF StoryInv
  <2> QED
    BY <2>1, <2>2, InsertOther
<1> QED
  BY <1>1, <1>2, <1>3 DEF StoryInv

LEMMA HistoryAppended ==
    ASSUME SensorsTypeOK, NEW event \in Event, NEW stored \in BOOLEAN,
           stream' = Append(stream, [event |-> event, stored |-> stored])
    PROVE  History' = Append(History, event)
<1>1. stream \in Seq([event : Event, stored : BOOLEAN])
  BY DEF SensorsTypeOK
<1>2. /\ DOMAIN stream' = 1 .. Len(stream) + 1 /\ DOMAIN stream = 1 .. Len(stream)
      /\ \A i \in 1 .. Len(stream) : stream'[i] = stream[i]
      /\ stream'[Len(stream) + 1].event = event
  BY <1>1
<1>3. Len(History) = Len(stream) /\ History \in Seq(Event)
  BY <1>1, OrderType DEF History
<1>4. Append(History, event) = [i \in 1 .. Len(stream) + 1 |->
                                  IF i \in 1 .. Len(stream) THEN stream[i].event ELSE event]
  BY <1>2, <1>3 DEF History
<1> QED
  BY <1>1, <1>2, <1>4 DEF History

\* An event that is ingested at once comes before those that wait.
LEMMA StoryIngested ==
    ASSUME SensorsTypeOK, StoryInv, NEW event \in Event, NEW stored \in BOOLEAN,
           stream' = Append(stream, [event |-> event, stored |-> stored]),
           UNCHANGED <<pumped, channel, watcher>>
    PROVE  \E b \in Seq(Event) :
             /\ InOrder = History \o b /\ InOrder' = History \o <<event>> \o b
             /\ \A i \in DOMAIN b : b[i] \in Sent
<1>1. /\ History \in Seq(Event) /\ pumped \in Seq(Event) /\ channel \in Seq(Event)
      /\ watcher.out \in Seq(Event)
      /\ \A i \in DOMAIN pumped : pumped[i] \in Sent
      /\ \A i \in DOMAIN channel : channel[i] \in Sent
      /\ \A i \in DOMAIN watcher.out : watcher.out[i] \in Sent
  BY OrderType DEF Sent
<1>2. PICK b : b = pumped \o channel \o watcher.out
  OBVIOUS
<1>3. b \in Seq(Event) /\ \A i \in DOMAIN b : b[i] \in Sent
  <2>1. pumped \in Seq(Sent) /\ channel \in Seq(Sent) /\ watcher.out \in Seq(ProcEvent)
    BY DEF SensorsTypeOK
  <2>2. watcher.out \in Seq(Sent)
    BY <2>1 DEF Sent
  <2>3. b \in Seq(Sent)
    BY <1>2, <2>1, <2>2
  <2>4. Sent \subseteq Event
    BY DEF Sent, Event
  <2> QED
    BY <2>3, <2>4
<1>4. History' = Append(History, event)
  BY HistoryAppended
<1>7. \A h \in Seq(Event) : h \o pumped \o channel \o watcher.out = h \o b
  <2>1. PICK p, c, o \in Seq(Event) : p = pumped /\ c = channel /\ o = watcher.out
    BY <1>1
  <2>2. ASSUME NEW h \in Seq(Event) PROVE h \o p \o c \o o = h \o (p \o c \o o)
    OBVIOUS
  <2> QED
    BY <1>2, <2>1, <2>2
<1>5. InOrder = History \o b
  <2>1. InOrder = History \o pumped \o channel \o watcher.out
    BY DEF InOrder, History
  <2> QED
    BY <1>1, <1>7, <2>1
<1>6. InOrder' = History \o <<event>> \o b
  <2>1. InOrder' = History' \o pumped \o channel \o watcher.out
    BY DEF InOrder, History
  <2>2. History' = History \o <<event>>
    BY <1>1, <1>4
  <2>3. History' \in Seq(Event)
    BY <1>1, <1>4
  <2> QED
    BY <1>7, <2>1, <2>2, <2>3
<1> QED
  BY <1>3, <1>5, <1>6
\* A HEAD that was read and is not the one before it.
LEMMA StoryGit ==
    ASSUME SensorsTypeOK, StoryInv, NEW r \in Repos, NEW c \in Commits, NEW stored \in BOOLEAN,
           c # heads[r], heads' = [heads EXCEPT ![r] = c],
           Ingest([kind |-> "git_head", repo |-> r, commit |-> c], stored),
           UNCHANGED <<pumped, channel, watcher, tracked, mode>>
    PROVE  StoryInv'
<1>1. PICK e : e = [kind |-> "git_head", repo |-> r, commit |-> c]
  OBVIOUS
<1>2. /\ e \in Event /\ e \notin OfMode /\ \A p \in Pids : e \notin OfProcess(p)
      /\ \A s \in Repos : e \in OfRepo(s) <=> s = r
      /\ Says(e) = c
  BY <1>1, Kinds
<1>3. PICK b \in Seq(Event) :
         /\ InOrder = History \o b /\ InOrder' = History \o <<e>> \o b
         /\ \A i \in DOMAIN b : b[i] \in Sent
  BY <1>1, <1>2, StoryIngested DEF Ingest
<1>4. PICK a \in Seq(Event) : a = History
  BY OrderType
<1>5. InOrder = a \o b /\ InOrder' = a \o <<e>> \o b /\ <<e>> \in Seq(Event)
  BY <1>2, <1>3, <1>4
<1>6. DOMAIN <<e>> = {1} /\ <<e>>[1] = e
  OBVIOUS
<1>7. ASSUME NEW p \in Pids PROVE Story(InOrder, OfProcess(p), TrackedSays(p))'
  <2>1. Story(a \o b, OfProcess(p), TrackedSays(p))
    BY <1>5 DEF StoryInv
  <2>2. \A i \in DOMAIN <<e>> : <<e>>[i] \notin OfProcess(p)
    BY <1>2, <1>6
  <2>3. Story(a \o <<e>> \o b, OfProcess(p), TrackedSays(p))
    BY <1>5, <2>1, <2>2, InsertOther
  <2> QED
    BY <1>5, <2>3 DEF TrackedSays
<1>8. Story(InOrder, OfMode, mode.away)'
  <2>1. Story(a \o b, OfMode, mode.away)
    BY <1>5 DEF StoryInv
  <2>2. \A i \in DOMAIN <<e>> : <<e>>[i] \notin OfMode
    BY <1>2, <1>6
  <2>3. Story(a \o <<e>> \o b, OfMode, mode.away)
    BY <1>5, <2>1, <2>2, InsertOther
  <2> QED
    BY <1>5, <2>3
<1>9. ASSUME NEW s \in Repos PROVE Story(InOrder, OfRepo(s), heads[s])'
  <2>1. Story(a \o b, OfRepo(s), heads[s])
    BY <1>5 DEF StoryInv
  <2>2. heads'[s] = IF s = r THEN c ELSE heads[s]
    BY DEF SensorsTypeOK
  <2>3. CASE s # r
    <3>1. \A i \in DOMAIN <<e>> : <<e>>[i] \notin OfRepo(s)
      BY <1>2, <1>6, <2>3
    <3>2. Story(a \o <<e>> \o b, OfRepo(s), heads[s])
      BY <1>5, <2>1, <3>1, InsertOther
    <3> QED
      BY <1>5, <2>2, <2>3, <3>2
  <2>4. CASE s = r
    <3>1. \A i \in DOMAIN b : b[i] \notin OfRepo(s)
      BY <1>3, Kinds DEF Sent
    <3>2. PICK q, x : q = <<e>> /\ x = 1
      OBVIOUS
    <3>3. /\ q \in Seq(Event) /\ x \in DOMAIN q /\ q[x] = e /\ q[x] \in OfRepo(s)
          /\ \A i \in DOMAIN q \ {x} : q[i] \notin OfRepo(s)
          /\ Says(q[x]) # heads[s]
      BY <1>2, <1>5, <1>6, <2>4, <3>2
    <3>4. Story(a \o q \o b, OfRepo(s), Says(q[x]))
      BY <2>1, <3>1, <3>3, InsertNews
    <3> QED
      BY <1>2, <1>5, <2>2, <2>4, <3>2, <3>3, <3>4
  <2> QED
    BY <2>3, <2>4
<1> QED
  BY <1>7, <1>8, <1>9 DEF StoryInv

\* The first look at a repository: nothing was said of it yet.
LEMMA StoryFirst ==
    ASSUME SensorsTypeOK, StoryInv, NEW r \in Repos, heads[r] = None,
           heads' = [heads EXCEPT ![r] = head[r]], InOrder' = InOrder,
           UNCHANGED <<tracked, mode>>
    PROVE  StoryInv'
<1>1. ASSUME NEW s \in Repos PROVE Story(InOrder, OfRepo(s), heads'[s])
  <2>1. Story(InOrder, OfRepo(s), heads[s])
    BY DEF StoryInv
  <2>2. CASE s # r
    BY <2>1, <2>2 DEF SensorsTypeOK
  <2>3. CASE s = r
    <3>1. \A i \in DOMAIN InOrder : InOrder[i] \in OfRepo(s) => Says(InOrder[i]) # None
      BY Kinds, SensorsBounds
    <3> QED
      BY <2>1, <2>3, <3>1 DEF Story, Ends
  <2> QED
    BY <2>2, <2>3
<1> QED
  BY <1>1 DEF StoryInv, TrackedSays

LEMMA StoryMode ==
    ASSUME SensorsTypeOK, StoryInv, NEW stored \in BOOLEAN,
           mode'.away = ~mode.away,
           Ingest([kind |-> "mode_changed", away |-> ~mode.away], stored),
           UNCHANGED <<pumped, channel, watcher, tracked, heads>>
    PROVE  StoryInv'
<1>1. PICK away \in BOOLEAN : away = ~mode.away
  <2>1. mode \in [away : BOOLEAN, probes : BOOLEAN]
    BY DEF SensorsTypeOK
  <2>2. mode.away \in BOOLEAN
    BY <2>1
  <2>3. (~mode.away) \in BOOLEAN
    BY <2>2
  <2> QED
    BY <2>3
<1>2. PICK e : e = [kind |-> "mode_changed", away |-> away]
  OBVIOUS
<1>3. /\ e \in Event /\ e \in OfMode /\ \A r \in Repos : e \notin OfRepo(r)
      /\ \A p \in Pids : e \notin OfProcess(p)
      /\ Says(e) = away /\ away # mode.away /\ mode'.away = away
  <2>1. /\ e \in Event /\ e \in OfMode /\ \A r \in Repos : e \notin OfRepo(r)
        /\ e \notin ProcEvent /\ Says(e) = away
    BY <1>2, Kinds
  <2>2. \A p \in Pids : e \notin OfProcess(p)
    BY <2>1, Kinds
  <2>3. away # mode.away /\ mode'.away = away
    BY <1>1
  <2> QED
    BY <2>1, <2>2, <2>3
<1>4. PICK b \in Seq(Event) :
         /\ InOrder = History \o b /\ InOrder' = History \o <<e>> \o b
         /\ \A i \in DOMAIN b : b[i] \in Sent
  BY <1>1, <1>2, <1>3, StoryIngested DEF Ingest
<1>5. PICK a, q : a = History /\ q = <<e>>
  OBVIOUS
<1>6. /\ a \in Seq(Event) /\ q \in Seq(Event) /\ InOrder = a \o b /\ InOrder' = a \o q \o b
      /\ DOMAIN q = {1} /\ q[1] = e
  BY <1>3, <1>4, <1>5, OrderType
<1>7. ASSUME NEW p \in Pids PROVE Story(InOrder, OfProcess(p), TrackedSays(p))'
  <2>1. Story(a \o b, OfProcess(p), TrackedSays(p))
    BY <1>6 DEF StoryInv
  <2>2. \A i \in DOMAIN q : q[i] \notin OfProcess(p)
    BY <1>3, <1>6
  <2>3. Story(a \o q \o b, OfProcess(p), TrackedSays(p))
    BY <1>6, <2>1, <2>2, InsertOther
  <2> QED
    BY <1>6, <2>3 DEF TrackedSays
<1>8. ASSUME NEW r \in Repos PROVE Story(InOrder, OfRepo(r), heads[r])'
  <2>1. Story(a \o b, OfRepo(r), heads[r])
    BY <1>6 DEF StoryInv
  <2>2. \A i \in DOMAIN q : q[i] \notin OfRepo(r)
    BY <1>3, <1>6
  <2> QED
    BY <1>6, <2>1, <2>2, InsertOther
<1>9. Story(InOrder, OfMode, mode.away)'
  <2>1. Story(a \o b, OfMode, mode.away)
    BY <1>6 DEF StoryInv
  <2>2. \A i \in DOMAIN b : b[i] \notin OfMode
    BY <1>4, Kinds DEF Sent
  <2>3. /\ q[1] \in OfMode /\ \A i \in DOMAIN q \ {1} : q[i] \notin OfMode
        /\ 1 \in DOMAIN q /\ Says(q[1]) # mode.away
    BY <1>2, <1>3, <1>6
  <2>4. Story(a \o q \o b, OfMode, Says(q[1]))
    BY <1>6, <2>1, <2>2, <2>3, InsertNews
  <2> QED
    BY <1>3, <1>6, <2>4
<1> QED
  BY <1>7, <1>8, <1>9 DEF StoryInv

\* A scan tells of each process that came or went once.
LEMMA ObservedOnce ==
    ASSUME NEW q \in Observed
    PROVE  /\ q \in Seq(ProcEvent)
           /\ \A p \in Started \cup Exited : \E x \in DOMAIN q :
                /\ q[x].pid = p /\ \A i \in DOMAIN q \ {x} : q[i].pid # p
                /\ q[x].kind = IF p \in Started THEN "proc_started" ELSE "proc_exited"
           /\ \A i \in DOMAIN q : q[i].pid \in Started \cup Exited
<1> DEFINE T == Started \cup Exited
           pids == [i \in DOMAIN q |-> q[i].pid]
<1>1. T \subseteq Pids
  BY DEF Started, Exited, ScanProcs
<1>2. IsFiniteSet(T) /\ Cardinality(T) \in Nat
  BY <1>1, SensorsBounds, FS_Subset, FS_CardinalityType
<1>3. /\ q \in [1 .. Cardinality(T) -> ProcEvent]
      /\ {q[i].pid : i \in DOMAIN q} = T
      /\ \A i \in DOMAIN q :
           LET p == q[i].pid
           IN IF p \in Started THEN q[i].kind = "proc_started" /\ q[i].comm = procs[p].cmd
                               ELSE q[i].kind = "proc_exited" /\ q[i].comm = tracked[p]
  BY DEF Observed
<1>4. q \in Seq(ProcEvent)
  BY <1>2, <1>3, SeqOfFunction
<1>5. pids \in Surjection(1 .. Cardinality(T), T)
  BY <1>3 DEF Surjection
<1>6. IsFiniteSet(1 .. Cardinality(T)) /\ Cardinality(1 .. Cardinality(T)) = Cardinality(T)
  BY <1>2, FS_Interval
<1> HIDE DEF T
<1>7. pids \in Injection(1 .. Cardinality(T), T)
  BY <1>5, <1>6, FS_SurjSameCardinalityImpliesInj
<1>8. \A i, j \in DOMAIN q : q[i].pid = q[j].pid => i = j
  BY <1>3, <1>7 DEF Injection, IsInjective
<1>9. ASSUME NEW p \in T
      PROVE  \E x \in DOMAIN q :
                /\ q[x].pid = p /\ \A i \in DOMAIN q \ {x} : q[i].pid # p
                /\ q[x].kind = IF p \in Started THEN "proc_started" ELSE "proc_exited"
  <2>1. PICK x \in DOMAIN q : q[x].pid = p
    BY <1>3
  <2>2. q[x].kind = IF p \in Started THEN "proc_started" ELSE "proc_exited"
    BY <1>3, <2>1
  <2> QED
    BY <1>8, <2>1, <2>2
<1>10. \A i \in DOMAIN q : q[i].pid \in T
  BY <1>3
<1> QED
  BY <1>4, <1>9, <1>10 DEF T

LEMMA TrackIs ==
    ASSUME SensorsTypeOK, NEW p \in Pids
    PROVE  /\ p \in Started => tracked[p] = None /\ Track[p] # None
           /\ p \in Exited => tracked[p] # None /\ Track[p] = None
           /\ p \notin Started \cup Exited => Track[p] = tracked[p]
           /\ Track[p] \in Commands \cup {None}
<1>1. ASSUME p \in Started PROVE procs[p].cmd \in Commands
  <2>1. procs[p] \in Process \cup {Gone} /\ procs[p] # Gone
    BY <1>1 DEF SensorsTypeOK, Started, ScanProcs
  <2> QED
    BY <2>1 DEF Process
<1>2. p \in Exited => p \notin Started
  BY DEF Started, Exited
<1>3. tracked[p] \in Commands \cup {None}
  BY DEF SensorsTypeOK
<1> QED
  BY <1>1, <1>2, <1>3, SensorsBounds DEF Track, Started, Exited

LEMMA StoryObserve ==
    ASSUME SensorsTypeOK, StoryInv, Observe
    PROVE  StoryInv'
<1>1. PICK q \in Observed : watcher' = [watcher EXCEPT !.out = q]
  BY DEF Observe
<1>2. /\ watcher.out = <<>> /\ watcher'.out = q /\ tracked' = Track
      /\ UNCHANGED <<stream, pumped, channel, heads, mode>>
  BY <1>1 DEF Observe, SensorsTypeOK
<1>3. q \in Seq(Event) /\ \A i \in DOMAIN q : q[i] \in ProcEvent
  <2>1. q \in Seq(ProcEvent) /\ ProcEvent \subseteq Event
    BY ObservedOnce DEF Event, Sent
  <2> QED
    BY <2>1
<1>4. PICK a \in Seq(Event) : a = History \o pumped \o channel
  <2>1. History \in Seq(Event) /\ pumped \in Seq(Event) /\ channel \in Seq(Event)
    BY OrderType
  <2>2. History \o pumped \o channel \in Seq(Event)
    BY <2>1, ThreeJoined
  <2> QED
    BY <2>2
<1>5. PICK b \in Seq(Event) : b = <<>>
  <2>1. <<>> \in Seq(Event)
    OBVIOUS
  <2> QED
    BY <2>1, Zenon
<1>6. InOrder = a \o b /\ InOrder' = a \o q
  <2>1. /\ InOrder = History \o pumped \o channel \o watcher.out
        /\ InOrder' = History' \o pumped' \o channel' \o watcher'.out
    BY DEF InOrder, History
  <2>2. History' = History
    BY <1>2 DEF History
  <2>3. InOrder = a \o b
    BY <1>2, <1>4, <1>5, <2>1
  <2>4. InOrder' = a \o q
    BY <1>2, <1>4, <2>1, <2>2
  <2> QED
    BY <2>3, <2>4
<1>7. InOrder = a \o b /\ InOrder' = a \o q \o b
  <2>1. a \o q = a \o q \o b
    BY <1>3, <1>4, <1>5
  <2> QED
    BY <1>6, <2>1
<1>8. ASSUME NEW p \in Pids PROVE Story(InOrder, OfProcess(p), TrackedSays(p))'
  <2>1. Story(a \o b, OfProcess(p), TrackedSays(p))
    BY <1>7 DEF StoryInv
  <2>2. \A i \in DOMAIN q : q[i] \in OfProcess(p) <=> q[i].pid = p
    BY <1>3, Kinds
  <2>3. CASE p \notin Started \cup Exited
    <3>1. \A i \in DOMAIN q : q[i] \notin OfProcess(p)
      BY <2>2, <2>3, ObservedOnce
    <3>2. TrackedSays(p)' = TrackedSays(p)
      BY <1>2, <2>3, TrackIs DEF TrackedSays
    <3>3. Story(a \o q \o b, OfProcess(p), TrackedSays(p))
      BY <1>3, <2>1, <3>1, InsertOther
    <3> QED
      BY <1>7, <3>2, <3>3
  <2>4. CASE p \in Started \cup Exited
    <3>1. PICK x \in DOMAIN q :
            /\ q[x].pid = p /\ \A i \in DOMAIN q \ {x} : q[i].pid # p
            /\ q[x].kind = IF p \in Started THEN "proc_started" ELSE "proc_exited"
      BY <2>4, ObservedOnce
    <3>2. q[x] \in OfProcess(p) /\ \A i \in DOMAIN q \ {x} : q[i] \notin OfProcess(p)
      BY <2>2, <3>1
    <3>3. Says(q[x]) = q[x].kind
      BY <1>3, Kinds
    <3>4. Says(q[x]) # TrackedSays(p) /\ TrackedSays(p)' = Says(q[x])
      BY <1>2, <2>4, <3>1, <3>3, TrackIs DEF TrackedSays
    <3>5. \A i \in DOMAIN b : b[i] \notin OfProcess(p)
      BY <1>5
    <3>6. Story(a \o q \o b, OfProcess(p), Says(q[x]))
      BY <1>3, <2>1, <3>2, <3>4, <3>5, InsertNews
    <3> QED
      BY <1>7, <3>4, <3>6
  <2> QED
    BY <2>3, <2>4
<1>9. ASSUME NEW r \in Repos PROVE Story(InOrder, OfRepo(r), heads[r])'
  <2>1. Story(a \o b, OfRepo(r), heads[r])
    BY <1>7 DEF StoryInv
  <2>2. \A i \in DOMAIN q : q[i] \notin OfRepo(r)
    BY <1>3, Kinds
  <2>3. Story(a \o q \o b, OfRepo(r), heads[r])
    BY <1>3, <2>1, <2>2, InsertOther
  <2> QED
    BY <1>2, <1>7, <2>3
<1>10. Story(InOrder, OfMode, mode.away)'
  <2>1. Story(a \o b, OfMode, mode.away)
    BY <1>7 DEF StoryInv
  <2>2. \A i \in DOMAIN q : q[i] \notin OfMode
    BY <1>3, Kinds
  <2>3. Story(a \o q \o b, OfMode, mode.away)
    BY <1>3, <2>1, <2>2, InsertOther
  <2> QED
    BY <1>2, <1>7, <2>3
<1> QED
  BY <1>8, <1>9, <1>10 DEF StoryInv

-------------------------------------------------------------------------------
(* The types.                                                                   *)

LEMMA MovedType ==
    ASSUME SensorsTypeOK, Moved PROVE moves' \in 0 .. MaxMoves /\ UNCHANGED <<procs, troubles>>
BY SensorsBounds DEF SensorsTypeOK, Moved, Move

LEMMA TroubleType ==
    ASSUME SensorsTypeOK, Trouble
    PROVE  troubles' \in 0 .. MaxTroubles /\ UNCHANGED <<procs, moves>>
BY SensorsBounds DEF SensorsTypeOK, Trouble

LEMMA UserType ==
    ASSUME SensorsTypeOK,
           \/ Tick \/ Touch \/ AppendEvent
           \/ \E text \in Texts : Copy(text)
           \/ \E r \in Repos, commit \in Commits : MoveHead(r, commit)
    PROVE  SensorsTypeOK'
<1> USE MovedType
<1>1. CASE Tick
  BY <1>1 DEF Tick, SensorsTypeOK
<1>2. CASE Touch
  BY <1>2 DEF Touch, SensorsTypeOK
<1>3. CASE AppendEvent
  BY <1>3 DEF AppendEvent, SensorsTypeOK, sensed
<1>4. CASE \E text \in Texts : Copy(text)
  BY <1>4 DEF Copy, SensorsTypeOK
<1>5. CASE \E r \in Repos, commit \in Commits : MoveHead(r, commit)
  BY <1>5 DEF MoveHead, SensorsTypeOK
<1> QED
  BY <1>1, <1>2, <1>3, <1>4, <1>5

LEMMA ProcessType ==
    ASSUME SensorsTypeOK, UNCHANGED sensing,
           NEW p \in Pids, Exit(p) \/ \E process \in Process : Spawn(p, process)
    PROVE  SensorsTypeOK'
<1>1. procs' \in [Pids -> Process \cup {Gone}]
  BY DEF SensorsTypeOK, Exit, Spawn
<1>2. Move /\ troubles' = troubles
  BY DEF Exit, Spawn, Move
<1>3. moves' \in 0 .. MaxMoves
  BY <1>2, SensorsBounds DEF SensorsTypeOK, Move
<1> QED
  BY <1>1, <1>2, <1>3 DEF SensorsTypeOK, sensing, sensed

LEMMA WatchType == ASSUME SensorsTypeOK, Watch PROVE SensorsTypeOK'
<1>1. Track \in [Pids -> Commands \cup {None}]
  BY TrackIs DEF Track
<1>2. CASE ObserveBaseline
  BY <1>1, <1>2 DEF ObserveBaseline, SensorsTypeOK, sensed, around
<1>3. CASE Observe
  <2>1. PICK q \in Observed : watcher' = [watcher EXCEPT !.out = q]
    BY <1>3 DEF Observe
  <2>2. q \in Seq(ProcEvent)
    BY ObservedOnce
  <2>3. watcher' \in [pc : {"baseline", "watch"}, out : Seq(ProcEvent)]
    BY <2>1, <2>2 DEF SensorsTypeOK
  <2> QED
    BY <1>1, <1>3, <2>3 DEF Observe, SensorsTypeOK, sensed, around
<1>4. CASE SendProc
  <2>1. /\ watcher.out \in Seq(ProcEvent) /\ watcher.out # <<>>
        /\ channel \in Seq(Sent) /\ Len(channel) < ChannelSize
        /\ channel' = Append(channel, Head(watcher.out))
        /\ watcher' = [watcher EXCEPT !.out = Tail(watcher.out)]
    BY <1>4 DEF SendProc, SensorsTypeOK
  <2>2. Head(watcher.out) \in ProcEvent /\ Tail(watcher.out) \in Seq(ProcEvent)
    BY <2>1
  <2>3. Head(watcher.out) \in Sent
    BY <2>2 DEF Sent
  <2>4. channel' \in Seq(Sent) /\ Len(channel') <= ChannelSize
    BY <2>1, <2>3, SensorsBounds
  <2>5. watcher' \in [pc : {"baseline", "watch"}, out : Seq(ProcEvent)]
    BY <2>1, <2>2 DEF SensorsTypeOK
  <2> QED
    BY <1>4, <2>4, <2>5 DEF SendProc, SensorsTypeOK, sensed, around
<1> QED
  BY <1>2, <1>3, <1>4 DEF Watch

\* The clipboard thread has one event to send at most.
LEMMA ClipType ==
    ASSUME SensorsTypeOK, Len(copied.out) <= 1, Clip
    PROVE  SensorsTypeOK' /\ Len(copied'.out) <= 1
<1>1. CASE ReadClipboard
  <2>1. PICK e : e = [kind |-> "clipboard", text |-> clip]
    OBVIOUS
  <2>2. e \in ClipEvent
    BY <2>1 DEF ClipEvent, SensorsTypeOK
  <2>3. PICK out : out = IF clip \in Ignorable THEN <<>> ELSE <<e>>
    OBVIOUS
  <2>4. out \in Seq(ClipEvent) /\ Len(out) <= 1
    BY <2>2, <2>3
  <2>5. copied' = [last |-> clip, out |-> out]
    BY <1>1, <2>1, <2>3 DEF ReadClipboard
  <2>6. copied' \in [last : Texts \cup {None}, out : Seq(ClipEvent)] /\ Len(copied'.out) <= 1
    BY <2>4, <2>5 DEF SensorsTypeOK
  <2> QED
    BY <1>1, <2>6 DEF ReadClipboard, SensorsTypeOK, sensed, around
<1>2. CASE SendClipboard
  <2>1. /\ copied.out \in Seq(ClipEvent) /\ Len(copied.out) <= 1
        /\ channel \in Seq(Sent) /\ Len(channel) < ChannelSize
        /\ channel' = channel \o copied.out
        /\ copied' = [copied EXCEPT !.out = <<>>]
    BY <1>2 DEF SendClipboard, SensorsTypeOK
  <2>2. copied.out \in Seq(Sent)
    BY <2>1 DEF Sent
  <2>3. channel' \in Seq(Sent) /\ Len(channel') = Len(channel) + Len(copied.out)
    BY <2>1, <2>2
  <2>4. Len(channel') <= ChannelSize
    <3>1. PICK n, m \in Nat : n = Len(channel) /\ m = Len(copied.out)
      BY <2>1
    <3>2. n + m <= ChannelSize
      BY <2>1, <3>1, SensorsBounds
    <3> QED
      BY <2>3, <3>1, <3>2
  <2>5. copied' \in [last : Texts \cup {None}, out : Seq(ClipEvent)]
    <3>1. PICK none : none = <<>>
      OBVIOUS
    <3>2. none \in Seq(ClipEvent)
      BY <3>1
    <3>3. copied' = [copied EXCEPT !.out = none]
      BY <2>1, <3>1
    <3> QED
      BY <3>2, <3>3 DEF SensorsTypeOK
  <2>6. Len(copied'.out) <= 1
    BY <2>1 DEF SensorsTypeOK
  <2> QED
    BY <1>2, <2>3, <2>4, <2>5, <2>6 DEF SendClipboard, SensorsTypeOK, sensed, around
<1> QED
  BY <1>1, <1>2 DEF Clip

LEMMA IngestType ==
    ASSUME SensorsTypeOK, NEW event \in Event, NEW stored \in BOOLEAN, Ingest(event, stored)
    PROVE  stream' \in Seq([event : Event, stored : BOOLEAN])
<1>1. PICK R : R = [event : Event, stored : BOOLEAN]
  OBVIOUS
<1>2. stream \in Seq(R) /\ [event |-> event, stored |-> stored] \in R
  BY <1>1 DEF SensorsTypeOK
<1> QED
  BY <1>1, <1>2 DEF Ingest

LEMMA IngestOrDropType ==
    ASSUME SensorsTypeOK, NEW event \in Event, IngestOrDrop(event)
    PROVE  /\ \E stored \in BOOLEAN : Ingest(event, stored)
           /\ stream' \in Seq([event : Event, stored : BOOLEAN])
           /\ troubles' \in 0 .. MaxTroubles /\ UNCHANGED <<procs, moves>>
<1>1. \E stored \in BOOLEAN : Ingest(event, stored)
  BY DEF IngestOrDrop
<1>2. troubles' \in 0 .. MaxTroubles /\ UNCHANGED <<procs, moves>>
  BY TroubleType DEF IngestOrDrop, around, SensorsTypeOK
<1> QED
  BY <1>1, <1>2, IngestType

LEMMA PumpType ==
    ASSUME SensorsTypeOK, Pump
    PROVE  SensorsTypeOK'
<1>1. CASE TakeEvent
  <2>1. /\ channel \in Seq(Sent) /\ Len(channel) <= ChannelSize /\ channel # <<>>
        /\ pumped' = <<Head(channel)>> /\ channel' = Tail(channel)
    BY <1>1 DEF TakeEvent, SensorsTypeOK
  <2>2. /\ Head(channel) \in Sent /\ Tail(channel) \in Seq(Sent)
        /\ Len(Tail(channel)) = Len(channel) - 1
    BY <2>1
  <2>3. pumped' \in Seq(Sent)
    BY <2>1, <2>2
  <2>4. channel' \in Seq(Sent) /\ Len(channel') <= ChannelSize
    BY <2>1, <2>2, SensorsBounds
  <2> QED
    BY <1>1, <2>3, <2>4 DEF TakeEvent, SensorsTypeOK, sensed, around
<1>2. CASE IngestEvent
  <2>1. pumped \in Seq(Sent) /\ pumped # <<>>
    BY <1>2 DEF IngestEvent, SensorsTypeOK
  <2>2. pumped[1] \in Sent
    BY <2>1
  <2>3. pumped[1] \in Event
    BY <2>2 DEF Event
  <2>4. /\ stream' \in Seq([event : Event, stored : BOOLEAN])
        /\ troubles' \in 0 .. MaxTroubles /\ UNCHANGED <<procs, moves>>
    BY <1>2, <2>3, IngestOrDropType DEF IngestEvent
  <2>5. pumped' \in Seq(Sent)
    BY <1>2 DEF IngestEvent
  <2> QED
    BY <1>2, <2>4, <2>5 DEF IngestEvent, SensorsTypeOK, sensed
<1> QED
  BY <1>1, <1>2 DEF Pump

LEMMA GitType == ASSUME SensorsTypeOK, Git PROVE SensorsTypeOK'
<1>1. CASE ListProjects
  BY <1>1 DEF ListProjects, SensorsTypeOK, sensed, around
<1>2. ASSUME NEW r \in Repos, ReadHead(r) PROVE SensorsTypeOK'
  <2>1. head[r] \in Commits
    BY DEF SensorsTypeOK
  <2>2. [kind |-> "git_head", repo |-> r, commit |-> head[r]] \in Event
    BY <2>1 DEF Event
  <2>3. /\ stream' \in Seq([event : Event, stored : BOOLEAN])
        /\ troubles' \in 0 .. MaxTroubles /\ UNCHANGED <<procs, moves>>
    BY <1>2, <2>2, IngestOrDropType DEF ReadHead, SensorsTypeOK, around
  <2>4. heads' \in [Repos -> Commits \cup {None}] /\ git' \subseteq Repos
    BY <1>2, <2>1 DEF ReadHead, SensorsTypeOK
  <2> QED
    BY <1>2, <2>3, <2>4 DEF ReadHead, SensorsTypeOK, sensed
<1> QED
  BY <1>1, <1>2 DEF Git

LEMMA ModeType ==
    ASSUME SensorsTypeOK, ProbeIdle \/ ProbeFails
    PROVE  /\ SensorsTypeOK' /\ mode'.away = ~mode.away
           /\ \E stored \in BOOLEAN :
                Ingest([kind |-> "mode_changed", away |-> ~mode.away], stored)
           /\ UNCHANGED <<tracked, watcher, channel, pumped, heads>>
<1>1. /\ mode \in [away : BOOLEAN, probes : BOOLEAN]
      /\ mode.away \in BOOLEAN /\ mode.probes \in BOOLEAN
  BY DEF SensorsTypeOK
<1>2. PICK probed \in BOOLEAN : UpdateMode(probed)
  BY <1>1 DEF ProbeIdle, ProbeFails
<1>3. ShouldBeAway(probed) \in BOOLEAN
  BY DEF ShouldBeAway
<1>4. mode' = [mode EXCEPT !.away = ~mode.away]
  BY <1>1, <1>2, <1>3 DEF UpdateMode
<1>5. (~mode.away) \in BOOLEAN
  BY <1>1
<1>6. PICK away \in BOOLEAN : away = ~mode.away
  BY <1>5
<1>7. mode' \in [away : BOOLEAN, probes : BOOLEAN] /\ mode'.away = ~mode.away
  BY <1>1, <1>4, <1>6
<1>8. [kind |-> "mode_changed", away |-> away] \in Event
  BY DEF Event
<1>9. \/ IngestOrDrop([kind |-> "mode_changed", away |-> away])
      \/ Ingest([kind |-> "mode_changed", away |-> away], TRUE) /\ Trouble
  BY <1>6 DEF ProbeIdle, ProbeFails
<1>10. /\ \E stored \in BOOLEAN : Ingest([kind |-> "mode_changed", away |-> away], stored)
       /\ stream' \in Seq([event : Event, stored : BOOLEAN])
       /\ troubles' \in 0 .. MaxTroubles /\ UNCHANGED <<procs, moves>>
  BY <1>8, <1>9, IngestOrDropType, IngestType, TroubleType
<1> QED
  BY <1>2, <1>6, <1>7, <1>10 DEF UpdateMode, SensorsTypeOK, sensed

LEMMA NotedType == ASSUME SensorsTypeOK, NoteAppended PROVE SensorsTypeOK'
BY SensorsBounds DEF NoteAppended, SensorsTypeOK, sensed, around

LEMMA RestartType ==
    ASSUME SensorsTypeOK, SensorsRestart
    PROVE  SensorsTypeOK'
<1>1. Baseline \in [pc : {"baseline", "watch"}, out : Seq(ProcEvent)]
  BY DEF Baseline
<1>2. [last |-> None, out |-> <<>>] \in [last : Texts \cup {None}, out : Seq(ClipEvent)]
  OBVIOUS
<1>3. <<>> \in Seq(Sent) /\ <<>> \in Seq([event : Event, stored : BOOLEAN]) /\ Len(<<>>) = 0
  OBVIOUS
<1>4. mode' \in [away : BOOLEAN, probes : BOOLEAN]
  BY DEF SensorsRestart
<1>5. 0 <= ChannelSize
  BY SensorsBounds
<1>6. clock' \in Nat /\ noted' \in Nat /\ input' \in Nat
  BY DEF SensorsRestart, SensorsTypeOK, sensed
<1> QED
  BY <1>1, <1>2, <1>3, <1>4, <1>5, <1>6, TroubleType DEF SensorsRestart, SensorsTypeOK, sensed

-------------------------------------------------------------------------------
(* The invariant, step by step.                                                 *)

\* What an action leaves of the order and of the minds of the watchers.
LEMMA SameOrder ==
    ASSUME SensorsInv, SensorsTypeOK', InOrder' = InOrder,
           Len(pumped') <= 1, Len(copied'.out) <= 1,
           UNCHANGED <<tracked, heads>>, mode'.away = mode.away,
           watcher'.pc = watcher.pc, watcher.out = <<>> => watcher'.out = <<>>
    PROVE  SensorsInv'
BY StorySame DEF SensorsInv, FreshBaseline

LEMMA QuietStep ==
    ASSUME SensorsInv, SensorsTypeOK',
           UNCHANGED <<stream, pumped, channel, watcher, tracked, heads, mode>>,
           Len(copied'.out) <= 1
    PROVE  SensorsInv'
<1>1. InOrder' = InOrder /\ Len(pumped') <= 1
  BY DEF InOrder, SensorsInv
<1> QED
  BY <1>1, SameOrder

LEMMA FreshKept ==
    ASSUME FreshBaseline, NEW a \in Seq(Event), NEW e \in Seq(Event), NEW b \in Seq(Event),
           \A i \in DOMAIN e : e[i] \notin ProcEvent,
           InOrder = a \o b, InOrder' = a \o e \o b, UNCHANGED <<tracked, watcher>>
    PROVE  FreshBaseline'
<1>1. PICK s, t, n, l, m :
        s = a \o b /\ t = a \o e \o b /\ n = Len(a) /\ l = Len(e) /\ m = Len(b)
  OBVIOUS
<1>2. /\ n \in Nat /\ l \in Nat /\ m \in Nat /\ DOMAIN e = 1 .. l
      /\ Widened(s, t, n, l, m)
      /\ \A i \in 1 .. l : t[n + i] = e[i]
  BY <1>1, InsertedAt
<1>3. ASSUME NEW i \in DOMAIN t, \A k \in DOMAIN s : s[k] \notin ProcEvent
      PROVE  t[i] \notin ProcEvent
  <2>1. DOMAIN s = 1 .. n + m /\ DOMAIN t = 1 .. n + l + m
    BY <1>2 DEF Widened
  <2>2. CASE i \in 1 .. n
    BY <1>2, <1>3, <2>1, <2>2 DEF Widened
  <2>3. CASE i > n /\ i <= n + l
    <3>1. i - n \in 1 .. l /\ n + (i - n) = i
      BY <1>2, <2>1, <2>3
    <3> QED
      BY <1>2, <3>1
  <2>4. CASE i > n + l
    <3>1. i - n - l \in 1 .. m /\ n + l + (i - n - l) = i /\ n + (i - n - l) \in 1 .. n + m
      BY <1>2, <2>1, <2>4
    <3> QED
      BY <1>2, <1>3, <2>1, <3>1 DEF Widened
  <2> QED
    BY <1>2, <2>1, <2>2, <2>3, <2>4
<1>4. InOrder = s /\ InOrder' = t
  BY <1>1
<1> QED
  BY <1>3, <1>4 DEF FreshBaseline

LEMMA ObserveBaselineInv == ASSUME SensorsInv, ObserveBaseline PROVE SensorsInv'
<1>1. SensorsTypeOK'
  BY WatchType DEF Watch, SensorsInv
<1>2. /\ watcher'.pc = "watch" /\ watcher'.out = watcher.out
      /\ UNCHANGED <<stream, pumped, channel, copied, heads, mode>>
  BY DEF ObserveBaseline, SensorsInv, SensorsTypeOK
<1>3. InOrder' = InOrder
  BY <1>2 DEF InOrder
<1>4. \A i \in DOMAIN InOrder : InOrder[i] \notin ProcEvent
  BY DEF ObserveBaseline, SensorsInv, FreshBaseline
<1>5. ASSUME NEW p \in Pids PROVE Story(InOrder, OfProcess(p), TrackedSays(p))'
  <2>1. \A i \in DOMAIN InOrder : InOrder[i] \notin OfProcess(p)
    BY <1>4, Kinds
  <2> QED
    BY <1>3, <2>1 DEF Story, Changes, Ends
<1>6. StoryInv'
  BY <1>2, <1>3, <1>5 DEF SensorsInv, StoryInv
<1> QED
  BY <1>1, <1>2, <1>6 DEF SensorsInv, FreshBaseline

LEMMA ObserveInv == ASSUME SensorsInv, Observe PROVE SensorsInv'
<1>1. SensorsTypeOK'
  BY WatchType DEF Watch, SensorsInv
<1>2. watcher'.pc = "watch" /\ UNCHANGED <<pumped, copied>>
  BY DEF Observe, SensorsInv, SensorsTypeOK
<1>3. StoryInv'
  BY StoryObserve DEF SensorsInv
<1> QED
  BY <1>1, <1>2, <1>3 DEF SensorsInv, FreshBaseline

LEMMA Shifted ==
    ASSUME NEW T, NEW a \in Seq(T), NEW b \in Seq(T), b # <<>>
    PROVE  Append(a, Head(b)) \o Tail(b) = a \o b
OBVIOUS

LEMMA AppendJoined ==
    ASSUME NEW T, NEW a \in Seq(T), NEW b \in Seq(T), NEW x \in T
    PROVE  a \o Append(b, x) = Append(a \o b, x)
OBVIOUS

LEMMA SendProcInv == ASSUME SensorsInv, SendProc PROVE SensorsInv'
<1>1. SensorsTypeOK'
  BY WatchType DEF Watch, SensorsInv
<1>2. PICK h, p, c, o \in Seq(Event) :
        h = History /\ p = pumped /\ c = channel /\ o = watcher.out
  BY OrderType DEF SensorsInv
<1>3. /\ o # <<>> /\ channel' = Append(c, Head(o)) /\ watcher'.out = Tail(o)
      /\ watcher'.pc = watcher.pc
      /\ UNCHANGED <<stream, pumped, copied, tracked, heads, mode>>
  BY <1>2 DEF SendProc, SensorsInv, SensorsTypeOK
<1>4. h \o p \o Append(c, Head(o)) \o Tail(o) = h \o p \o c \o o
  <2>1. PICK d \in Seq(Event) : d = h \o p
    BY Joined, Zenon
  <2>2. Head(o) \in Event
    BY <1>3
  <2>3. d \o Append(c, Head(o)) = Append(d \o c, Head(o))
    BY <2>2, AppendJoined
  <2>4. PICK g \in Seq(Event) : g = d \o c
    BY Joined, Zenon
  <2>5. Append(g, Head(o)) \o Tail(o) = g \o o
    BY <1>3, Shifted
  <2> QED
    BY <2>1, <2>3, <2>4, <2>5
<1>5. InOrder' = InOrder
  <2>1. /\ InOrder = History \o pumped \o channel \o watcher.out
        /\ InOrder' = History' \o pumped' \o channel' \o watcher'.out
    BY DEF InOrder, History
  <2>2. History' = h /\ pumped' = p
    BY <1>2, <1>3 DEF History
  <2> QED
    BY <1>2, <1>3, <1>4, <2>1, <2>2
<1>6. watcher.out # <<>>
  BY <1>2, <1>3
<1> QED
  BY <1>1, <1>3, <1>5, <1>6, SameOrder DEF SensorsInv

LEMMA TakeEventInv == ASSUME SensorsInv, TakeEvent PROVE SensorsInv'
<1>1. SensorsTypeOK'
  BY PumpType DEF Pump, SensorsInv
<1>2. PICK h, c, o \in Seq(Event) : h = History /\ c = channel /\ o = watcher.out
  BY OrderType DEF SensorsInv
<1>3. /\ pumped = <<>> /\ c # <<>> /\ pumped' = <<Head(c)>> /\ channel' = Tail(c)
      /\ UNCHANGED <<stream, watcher, copied, tracked, heads, mode>>
  BY <1>2 DEF TakeEvent
<1>4. h \o <<Head(c)>> \o Tail(c) = h \o <<>> \o c
  <2>1. Append(h, Head(c)) \o Tail(c) = h \o c
    BY <1>3, Shifted
  <2>2. Append(h, Head(c)) = h \o <<Head(c)>>
    <3>1. PICK x \in Event : x = Head(c)
      BY <1>3
    <3>2. Append(h, x) = h \o <<x>>
      OBVIOUS
    <3> QED
      BY <3>1, <3>2
  <2>3. h \o <<>> = h
    OBVIOUS
  <2> QED
    BY <2>1, <2>2, <2>3
<1>5. InOrder' = InOrder
  <2>1. /\ InOrder = History \o pumped \o channel \o watcher.out
        /\ InOrder' = History' \o pumped' \o channel' \o watcher'.out
    BY DEF InOrder, History
  <2>2. History' = h /\ watcher' = watcher
    BY <1>2, <1>3 DEF History
  <2> QED
    BY <1>2, <1>3, <1>4, <2>1, <2>2
<1>6. Len(pumped') <= 1
  BY <1>3
<1> QED
  BY <1>1, <1>3, <1>5, <1>6, SameOrder DEF SensorsInv

LEMMA IngestEventInv == ASSUME SensorsInv, IngestEvent PROVE SensorsInv'
<1>1. SensorsTypeOK'
  BY PumpType DEF Pump, SensorsInv
<1>2. pumped \in Seq(Sent) /\ pumped # <<>> /\ Len(pumped) <= 1
  BY DEF IngestEvent, SensorsInv, SensorsTypeOK
<1>3. PICK e \in Event : e = pumped[1]
  <2>1. pumped[1] \in Sent
    BY <1>2
  <2> QED
    BY <2>1 DEF Event
<1>4. pumped = <<e>>
  <2>1. Len(pumped) = 1
    BY <1>2
  <2>2. pumped = [i \in 1 .. 1 |-> e]
    BY <1>2, <1>3, <2>1
  <2>3. <<e>> = [i \in 1 .. 1 |-> e]
    OBVIOUS
  <2> QED
    BY <2>2, <2>3
<1>5. PICK h \in Seq(Event) : h = History
  BY OrderType DEF SensorsInv
<1>6. History' = Append(h, e)
  <2>1. PICK stored \in BOOLEAN : Ingest(e, stored)
    BY <1>3, IngestOrDropType DEF IngestEvent, SensorsInv
  <2> QED
    BY <1>5, <2>1, HistoryAppended DEF Ingest, SensorsInv
<1>7. /\ pumped' = <<>>
      /\ UNCHANGED <<channel, watcher, copied, tracked, heads, mode>>
  BY DEF IngestEvent
<1>8. Append(h, e) \o <<>> = h \o <<e>>
  OBVIOUS
<1>9. InOrder' = InOrder
  <2>1. /\ InOrder = History \o pumped \o channel \o watcher.out
        /\ InOrder' = History' \o pumped' \o channel' \o watcher'.out
    BY DEF InOrder, History
  <2> QED
    BY <1>4, <1>5, <1>6, <1>7, <1>8, <2>1
<1>10. Len(pumped') <= 1
  BY <1>7
<1> QED
  BY <1>1, <1>7, <1>9, <1>10, SameOrder DEF SensorsInv

LEMMA SendClipboardInv == ASSUME SensorsInv, SendClipboard PROVE SensorsInv'
<1>1. SensorsTypeOK' /\ Len(copied'.out) <= 1
  BY ClipType DEF Clip, SensorsInv
<1>2. PICK h, p, c, e, b \in Seq(Event) :
        h = History /\ p = pumped /\ c = channel /\ e = copied.out /\ b = watcher.out
  BY OrderType DEF SensorsInv
<1>3. \A i \in DOMAIN e : e[i] \in ClipEvent
  BY <1>2, OrderType DEF SensorsInv
<1>4. /\ channel' = c \o e /\ UNCHANGED <<stream, watcher, pumped, tracked, heads, mode>>
  BY <1>2 DEF SendClipboard
<1>5. PICK a \in Seq(Event) : a = h \o p \o c
  BY ThreeJoined
<1>6. h \o p \o (c \o e) = a \o e
  <2>1. PICK d \in Seq(Event) : d = h \o p
    BY Joined, Zenon
  <2>2. d \o (c \o e) = d \o c \o e
    OBVIOUS
  <2> QED
    BY <1>5, <2>1, <2>2
<1>7. InOrder = a \o b /\ InOrder' = a \o e \o b
  <2>1. /\ InOrder = History \o pumped \o channel \o watcher.out
        /\ InOrder' = History' \o pumped' \o channel' \o watcher'.out
    BY DEF InOrder, History
  <2>2. History' = h /\ pumped' = p /\ watcher' = watcher
    BY <1>2, <1>4 DEF History
  <2> QED
    BY <1>2, <1>4, <1>5, <1>6, <2>1, <2>2
<1>8. StoryInv'
  BY <1>3, <1>4, <1>7, StoryClip DEF SensorsInv
<1>9. FreshBaseline'
  <2>1. \A i \in DOMAIN e : e[i] \notin ProcEvent
    BY <1>3, Kinds
  <2> QED
    BY <1>4, <1>7, <2>1, FreshKept DEF SensorsInv
<1> QED
  BY <1>1, <1>4, <1>8, <1>9 DEF SensorsInv

LEMMA FreshIngested ==
    ASSUME SensorsInv, NEW event \in Event, event \notin ProcEvent, NEW stored \in BOOLEAN,
           Ingest(event, stored), UNCHANGED <<pumped, channel, watcher, tracked>>
    PROVE  FreshBaseline'
<1>1. PICK b \in Seq(Event) : InOrder = History \o b /\ InOrder' = History \o <<event>> \o b
  BY StoryIngested DEF Ingest, SensorsInv
<1>2. PICK a, q : a = History /\ q = <<event>>
  OBVIOUS
<1>3. /\ a \in Seq(Event) /\ q \in Seq(Event) /\ InOrder = a \o b /\ InOrder' = a \o q \o b
      /\ \A i \in DOMAIN q : q[i] \notin ProcEvent
  BY <1>1, <1>2, OrderType DEF SensorsInv
<1> QED
  BY <1>3, FreshKept DEF SensorsInv

LEMMA ReadHeadInv == ASSUME SensorsInv, NEW r \in Repos, ReadHead(r) PROVE SensorsInv'
<1>1. SensorsTypeOK'
  BY GitType DEF Git, SensorsInv
<1>2. /\ heads' = [heads EXCEPT ![r] = head[r]] /\ head[r] \in Commits
      /\ UNCHANGED <<pumped, channel, watcher, copied, tracked, mode>>
  BY DEF ReadHead, SensorsInv, SensorsTypeOK
<1>3. CASE heads[r] = head[r]
  <2>1. UNCHANGED <<stream, heads>>
    BY <1>2, <1>3 DEF ReadHead, SensorsInv, SensorsTypeOK
  <2> QED
    BY <1>1, <1>2, <2>1, QuietStep DEF SensorsInv
<1>4. CASE heads[r] = None
  <2>1. UNCHANGED stream
    BY <1>4 DEF ReadHead
  <2>2. InOrder' = InOrder
    BY <1>2, <2>1 DEF InOrder
  <2>3. StoryInv'
    BY <1>2, <1>4, <2>2, StoryFirst DEF SensorsInv
  <2> QED
    BY <1>1, <1>2, <2>2, <2>3 DEF SensorsInv, FreshBaseline
<1>5. CASE heads[r] \notin {None, head[r]}
  <2>1. PICK c \in Commits : c = head[r]
    BY <1>2
  <2>2. PICK e : e = [kind |-> "git_head", repo |-> r, commit |-> c]
    OBVIOUS
  <2>3. e \in Event /\ e \notin ProcEvent
    BY <2>2, Kinds
  <2>4. PICK stored \in BOOLEAN : Ingest(e, stored)
    BY <1>5, <2>1, <2>2, <2>3, IngestOrDropType DEF ReadHead, SensorsInv
  <2>5. StoryInv'
    BY <1>2, <1>5, <2>1, <2>2, <2>4, StoryGit DEF SensorsInv
  <2>6. FreshBaseline'
    BY <1>2, <2>3, <2>4, FreshIngested
  <2> QED
    BY <1>1, <1>2, <2>5, <2>6 DEF SensorsInv
<1> QED
  BY <1>3, <1>4, <1>5

LEMMA ModeInv == ASSUME SensorsInv, ProbeIdle \/ ProbeFails PROVE SensorsInv'
<1>1. /\ SensorsTypeOK' /\ mode'.away = ~mode.away
      /\ UNCHANGED <<tracked, watcher, channel, pumped, heads>>
  BY ModeType DEF SensorsInv
<1>2. UNCHANGED copied
  BY DEF ProbeIdle, ProbeFails, UpdateMode
<1>3. PICK stored \in BOOLEAN : Ingest([kind |-> "mode_changed", away |-> ~mode.away], stored)
  BY ModeType DEF SensorsInv
<1>4. PICK away \in BOOLEAN : away = ~mode.away
  <2>1. mode.away \in BOOLEAN
    BY DEF SensorsInv, SensorsTypeOK
  <2>2. (~mode.away) \in BOOLEAN
    BY <2>1
  <2> QED
    BY <2>2
<1>5. StoryInv'
  BY <1>1, <1>3, StoryMode DEF SensorsInv
<1>6. PICK e : e = [kind |-> "mode_changed", away |-> away]
  OBVIOUS
<1>7. e \in Event /\ e \notin ProcEvent /\ Ingest(e, stored)
  BY <1>3, <1>4, <1>6, Kinds
<1>8. FreshBaseline'
  BY <1>1, <1>7, FreshIngested
<1> QED
  BY <1>1, <1>2, <1>5, <1>8 DEF SensorsInv

\* Before anything was looked at, nothing waits and nothing was ingested.
LEMMA FreshInv ==
    ASSUME SensorsTypeOK, watcher.out = <<>>, copied.out = <<>>,
           channel = <<>>, pumped = <<>>, stream = <<>>, \A p \in Pids : tracked[p] = None
    PROVE  SensorsInv
<1>1. InOrder = <<>>
  <2>1. History = <<>>
    BY DEF History
  <2>2. InOrder = History \o pumped \o channel \o watcher.out
    BY DEF InOrder, History
  <2>3. <<>> \o <<>> \o <<>> \o <<>> = <<>>
    OBVIOUS
  <2> QED
    BY <2>1, <2>2, <2>3
<1>2. DOMAIN InOrder = {}
  BY <1>1
<1>3. StoryInv
  BY <1>2 DEF StoryInv, Story, Changes, Ends
<1>4. Len(pumped) <= 1 /\ Len(copied.out) <= 1
  OBVIOUS
<1> QED
  BY <1>2, <1>3, <1>4 DEF SensorsInv, FreshBaseline

LEMMA SensorsInitInv == SensorsInit => SensorsInv
<1> SUFFICES ASSUME SensorsInit PROVE SensorsInv
  OBVIOUS
<1>1. procs \in [Pids -> Process \cup {Gone}] /\ moves \in 0 .. MaxMoves
      /\ troubles \in 0 .. MaxTroubles
  BY SensorsBounds DEF SensorsInit, AroundInit
<1>2. clip \in Texts /\ head \in [Repos -> Commits]
  BY SensorsBounds DEF SensorsInit
<1>3. {clock, input, noted} \subseteq Nat /\ 0 <= ChannelSize
  BY SensorsBounds DEF SensorsInit
<1>4. PICK none : none = <<>>
  OBVIOUS
<1>5. /\ none \in Seq(ProcEvent) /\ none \in Seq(ClipEvent) /\ none \in Seq(Sent)
      /\ none \in Seq([event : Event, stored : BOOLEAN]) /\ Len(none) = 0
  BY <1>4
<1>6. /\ watcher = [pc |-> "baseline", out |-> none] /\ copied = [last |-> None, out |-> none]
      /\ channel = none /\ pumped = none /\ stream = none
  BY <1>4 DEF SensorsInit, Baseline
<1>7. /\ tracked \in [Pids -> Commands \cup {None}] /\ heads \in [Repos -> Commits \cup {None}]
      /\ git = {} /\ appending = None /\ mode \in [away : BOOLEAN, probes : BOOLEAN]
      /\ \A p \in Pids : tracked[p] = None
  BY DEF SensorsInit
<1>8. SensorsTypeOK
  BY <1>1, <1>2, <1>3, <1>5, <1>6, <1>7 DEF SensorsTypeOK
<1> QED
  BY <1>4, <1>6, <1>7, <1>8, FreshInv

LEMMA SensorsRestartInv == ASSUME SensorsInv, SensorsRestart PROVE SensorsInv'
<1>1. SensorsTypeOK'
  BY RestartType DEF SensorsInv
<1>2. /\ watcher'.out = <<>> /\ copied'.out = <<>>
      /\ channel' = <<>> /\ pumped' = <<>> /\ stream' = <<>>
      /\ \A p \in Pids : tracked'[p] = None
  BY DEF SensorsRestart, Baseline
<1>3. InOrder' = <<>>
  <2>1. History' = <<>>
    BY <1>2 DEF History
  <2>2. InOrder' = History' \o pumped' \o channel' \o watcher'.out
    BY DEF InOrder, History
  <2>3. <<>> \o <<>> \o <<>> \o <<>> = <<>>
    OBVIOUS
  <2> QED
    BY <1>2, <2>1, <2>2, <2>3
<1>4. DOMAIN InOrder' = {}
  BY <1>3
<1>5. StoryInv'
  BY <1>4 DEF StoryInv, Story, Changes, Ends
<1>6. Len(pumped') <= 1 /\ Len(copied'.out) <= 1
  BY <1>2
<1> QED
  BY <1>1, <1>2, <1>4, <1>5, <1>6 DEF SensorsInv, FreshBaseline

LEMMA SensorsNextInv == SensorsInv /\ [SensorsNext]_sensorsVars => SensorsInv'
<1> SUFFICES ASSUME SensorsInv, [SensorsNext]_sensorsVars PROVE SensorsInv'
  OBVIOUS
<1>1. SensorsTypeOK /\ Len(copied.out) <= 1
  BY DEF SensorsInv
<1>2. CASE \/ Tick \/ Touch \/ AppendEvent
           \/ \E text \in Texts : Copy(text)
           \/ \E r \in Repos, commit \in Commits : MoveHead(r, commit)
  <2>1. SensorsTypeOK'
    BY <1>1, <1>2, UserType
  <2>2. UNCHANGED <<stream, pumped, channel, watcher, tracked, heads, mode, copied>>
    BY <1>2 DEF Tick, Touch, AppendEvent, Copy, MoveHead
  <2> QED
    BY <1>1, <2>1, <2>2, QuietStep
<1>3. CASE SensorsRestart
  BY <1>3, SensorsRestartInv
<1>4. ASSUME NEW p \in Pids, Exit(p) \/ \E process \in Process : Spawn(p, process),
             UNCHANGED sensing
      PROVE  SensorsInv'
  <2>1. SensorsTypeOK'
    BY <1>1, <1>4, ProcessType
  <2>2. UNCHANGED <<stream, pumped, channel, watcher, tracked, heads, mode, copied>>
    BY <1>4 DEF sensing
  <2> QED
    BY <1>1, <2>1, <2>2, QuietStep
<1>5. CASE Watch
  BY <1>5, ObserveBaselineInv, ObserveInv, SendProcInv DEF Watch
<1>6. CASE ReadClipboard
  <2>1. SensorsTypeOK' /\ Len(copied'.out) <= 1
    BY <1>1, <1>6, ClipType DEF Clip
  <2>2. UNCHANGED <<stream, pumped, channel, watcher, tracked, heads, mode>>
    BY <1>6 DEF ReadClipboard
  <2> QED
    BY <2>1, <2>2, QuietStep
<1>7. CASE SendClipboard
  BY <1>7, SendClipboardInv
<1>8. CASE Pump
  BY <1>8, TakeEventInv, IngestEventInv DEF Pump
<1>9. CASE ListProjects \/ NoteAppended
  <2>1. SensorsTypeOK'
    BY <1>1, <1>9, GitType, NotedType DEF Git
  <2>2. UNCHANGED <<stream, pumped, channel, watcher, tracked, heads, mode, copied>>
    BY <1>9 DEF ListProjects, NoteAppended
  <2> QED
    BY <1>1, <2>1, <2>2, QuietStep
<1>10. CASE \E r \in Repos : ReadHead(r)
  BY <1>10, ReadHeadInv
<1>11. CASE ProbeIdle \/ ProbeFails
  BY <1>11, ModeInv
<1>12. CASE UNCHANGED sensorsVars
  <2>1. SensorsTypeOK'
    BY <1>1, <1>12 DEF SensorsTypeOK, sensorsVars, sensing, sensed, around
  <2>2. UNCHANGED <<stream, pumped, channel, watcher, tracked, heads, mode, copied>>
    BY <1>12 DEF sensorsVars, sensing
  <2> QED
    BY <1>1, <2>1, <2>2, QuietStep
<1> QED
  BY <1>2, <1>3, <1>4, <1>5, <1>6, <1>7, <1>8, <1>9, <1>10, <1>11, <1>12
     DEF SensorsNext, Clip, Git

\* The types of the sensors, their channel within its bound, and what each watcher has on
\* its mind is what was said last.
THEOREM SensorsInvariant == SensorsSpec => []SensorsInv
<1> QED
  BY SensorsInitInv, SensorsNextInv, PTL DEF SensorsSpec

\* Every variable of the sensors keeps its type, and the channel its size.
THEOREM SensorsTypeCorrect == SensorsSpec => []SensorsTypeOK
<1>1. SensorsInv => SensorsTypeOK
  BY DEF SensorsInv
<1> QED
  BY <1>1, SensorsInvariant, PTL

\* What the sensors send is a change each time, in the order in which it is ingested,
\* whatever waits for the channel, is dropped or restarts.
THEOREM ChangesOnly == SensorsSpec => []EventsAreChanges
<1>1. SensorsInv => EventsAreChanges
  BY DEF SensorsInv, StoryInv, Story, EventsAreChanges
<1> QED
  BY <1>1, SensorsInvariant, PTL
================================================================================
