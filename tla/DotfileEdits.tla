----------------------------- MODULE DotfileEdits -----------------------------
(***************************************************************************)
(* Managed edits of config files: dotfile_edits.apply and .revert of ratd, *)
(* the writes of rat-dotfile under them, and the clients that call them.   *)
(*                                                                         *)
(* The handlers of two connections run on different threads.  They share   *)
(* the files, and the name of the temp file a write goes through, which is *)
(* made of the file's name and the process id.  A blob is identified with  *)
(* its contents, as the store does by their hash; diffs, reasons, sources  *)
(* and risks are left out.                                                 *)
(***************************************************************************)
EXTENDS Integers, Sequences, FiniteSets

CONSTANTS Paths,        \* config files
          Contents,     \* what a file may hold
          Empty,        \* no bytes at all, what a missing file is read as
          Torn,         \* what a file holds that is created and not yet written
          Mixed,        \* the bytes of two contents, one written over the other
          NoFile,       \* there is no such file
          Clients,      \* who calls the daemon, one call at a time
          Managed,      \* those that use ManagedClient: the shell
          MaxEdits,     \* bound: rows of dotfile_edits
          MaxForeign,   \* bound: what the programs do that the files belong to
          MaxFaults     \* bound: store errors and crashes of the daemon

ASSUME DotfileAssumption ==
    /\ {Empty, Torn, Mixed} \subseteq Contents
    /\ Empty \notin {Torn, Mixed} /\ Torn # Mixed
    /\ NoFile \notin Contents
    /\ Paths # {}
    /\ Managed \subseteq Clients
    /\ {MaxEdits, MaxForeign, MaxFaults} \subseteq Nat

VARIABLES file,         \* the config files
          tmp,          \* the temp file of each, or NoFile
          blobs,        \* the blobs table
          edit,         \* the dotfile_edits table, in the order of insertion
          local,        \* the call of each client and the locals of its handler
          foreign,      \* what others did to the files so far
          faults,
          met,          \* files two writers were at work on at once (history)
          replaced,     \* what a lone writer has overwritten, and if it could read it (history)
          touched       \* files others wrote after the daemon (history)

tables == <<blobs, edit>>
history == <<replaced, met, touched>>
\* What a program or a caller means a file to hold.
Intended == Contents \ {Empty, Torn, Mixed}

vars == <<file, tmp, blobs, edit, local, foreign, faults, history>>

None == 0               \* no row

Row == [path : Paths, before : Contents, after : Contents,
        reverts : Nat, revertedBy : Nat]

\* target: the row a revert undoes, None for an apply.  value: what is written.
\* on: what the open temp file of the handler has become by now.  row: its own.
\* misread: the file was there and could not be read (history).
Local == [pc : {"idle", "begin", "create", "fill", "rename", "before", "after", "row", "mark"},
          path : Paths, target : Nat, row : Nat, value : Contents, before : Contents,
          on : {"none", "tmp", "file", "unlinked"}, resent : BOOLEAN,
          misread : BOOLEAN]

Idle == [pc |-> "idle", path |-> CHOOSE p \in Paths : TRUE, target |-> None,
         row |-> None, value |-> Empty, before |-> Empty, on |-> "none", resent |-> FALSE,
         misread |-> FALSE]

TypeOK ==
    /\ file \in [Paths -> Contents \cup {NoFile}]
    /\ tmp \in [Paths -> Contents \cup {NoFile}]
    /\ blobs \subseteq Contents
    /\ edit \in Seq(Row)
    /\ local \in [Clients -> Local]
    /\ \A c \in Clients : local[c].target \in {None} \cup DOMAIN edit
    /\ foreign \in 0 .. MaxForeign /\ faults \in 0 .. MaxFaults
    /\ replaced \subseteq Paths \X Contents \X BOOLEAN
    /\ met \subseteq Paths /\ touched \subseteq Paths

Init ==
    /\ file \in [Paths -> {NoFile} \cup Intended]
    /\ tmp = [p \in Paths |-> NoFile]
    /\ blobs = {}
    /\ edit = <<>>
    /\ local = [c \in Clients |-> Idle]
    /\ foreign = 0
    /\ faults = 0
    /\ replaced = {}
    /\ met = {}
    /\ touched = {}

At(c, step) == local[c].pc = step

InFlight(p) == {c \in Clients : ~At(c, "idle") /\ local[c].path = p}

\* Mutant: a missing file is not told from its contents.
ReadRaw(p) == file[p]

\* fs::read(..).unwrap_or_default()
Read(p) == IF file[p] = NoFile THEN Empty ELSE file[p]

-----------------------------------------------------------------------------
(* The calls, and what a ManagedClient makes of an error: it sends the     *)
(* request once more on a new connection, whatever the error was.          *)

Call(c, request) ==
    /\ At(c, "idle")
    /\ local' = [local EXCEPT ![c] = request]
    /\ met' = IF InFlight(request.path) = {} THEN met ELSE met \cup {request.path}
    /\ UNCHANGED <<file, tmp, tables, foreign, faults, replaced, touched>>

CallApply(c, p, v) ==
    Call(c, [Idle EXCEPT !.pc = "begin", !.path = p, !.value = v])

CallRevert(c, e) ==
    Call(c, [Idle EXCEPT !.pc = "begin", !.path = edit[e].path, !.target = e])

Resend(c) == [local[c] EXCEPT !.pc = "begin", !.row = None, !.before = Empty,
                              !.on = "none", !.resent = TRUE, !.misread = FALSE]

AfterError(c) ==
    IF c \in Managed /\ ~local[c].resent THEN Resend(c) ELSE Idle

-----------------------------------------------------------------------------
(* rat_dotfile::apply_atomic and revert: read, then write a temp file and  *)
(* rename it.                                                              *)

\* The contents do not validate, or the row is not there to be reverted.
Refused(c) ==
    /\ At(c, "begin")
    /\ local[c].target # None => edit[local[c].target].revertedBy # None
    /\ local' = [local EXCEPT ![c] = AfterError(c)]
    /\ UNCHANGED <<file, tmp, tables, foreign, faults, history>>

BeginApply(c) ==
    /\ At(c, "begin") /\ local[c].target = None
    /\ local' = [local EXCEPT ![c].pc = "create", ![c].before = Read(local[c].path)]
    /\ UNCHANGED <<file, tmp, tables, foreign, faults, history>>

\* Mutant: the row is not checked.
BeginRevertAgain(c) ==
    LET e == local[c].target IN
    /\ At(c, "begin") /\ e # None
    /\ {edit[e].before, edit[e].after} \subseteq blobs
    /\ local' = [local EXCEPT ![c].pc = "create", ![c].value = edit[e].before,
                              ![c].before = Read(local[c].path)]
    /\ UNCHANGED <<file, tmp, tables, foreign, faults, history>>

\* The row is read and checked; what it says of its contents does not change.
BeginRevert(c) ==
    LET e == local[c].target IN
    /\ At(c, "begin") /\ e # None
    /\ edit[e].revertedBy = None
    /\ {edit[e].before, edit[e].after} \subseteq blobs
    /\ local' = [local EXCEPT ![c].pc = "create", ![c].value = edit[e].before,
                              ![c].before = Read(local[c].path)]
    /\ UNCHANGED <<file, tmp, tables, foreign, faults, history>>

\* The file is there and others have made it unreadable, which is taken for a
\* file that is not there: nothing is refused, it is written over like any other.
BeginUnread(c) ==
    LET e == local[c].target IN
    /\ At(c, "begin") /\ file[local[c].path] # NoFile
    /\ foreign < MaxForeign                     \* bound
    /\ foreign' = foreign + 1
    /\ e # None => edit[e].revertedBy = None /\ {edit[e].before, edit[e].after} \subseteq blobs
    /\ local' = [local EXCEPT ![c].pc = "create", ![c].misread = TRUE,
                              ![c].value = IF e = None THEN @ ELSE edit[e].before]
    /\ UNCHANGED <<file, tmp, tables, faults, history>>

\* Mutant: the file itself is opened.
CreateInPlace(c) ==
    /\ At(c, "create")
    /\ file' = [file EXCEPT ![local[c].path] = Torn]
    /\ local' = [local EXCEPT ![c].pc = "fill", ![c].on = "file"]
    /\ UNCHANGED <<tmp, tables, foreign, faults, history>>

\* File::create truncates the temp file if another writer has it open.
CreateTmp(c) ==
    /\ At(c, "create")
    /\ tmp' = [tmp EXCEPT ![local[c].path] = Torn]
    /\ local' = [local EXCEPT ![c].pc = "fill", ![c].on = "tmp"]
    /\ UNCHANGED <<file, tables, foreign, faults, history>>

\* write_all from the first byte on: a longer tail of another writer stays.
WrittenOver(old, v) == IF old = Torn THEN {v} ELSE {v, Mixed}

\* The file this handler opened is written, wherever it is now.
FillTmp(c) ==
    LET p == local[c].path
        v == local[c].value
    IN  /\ At(c, "fill")
        /\ \/ /\ local[c].on = "tmp"
              /\ \E w \in WrittenOver(tmp[p], v) : tmp' = [tmp EXCEPT ![p] = w]
              /\ UNCHANGED file
           \/ /\ local[c].on = "file"
              /\ \E w \in WrittenOver(file[p], v) : file' = [file EXCEPT ![p] = w]
              /\ UNCHANGED tmp
           \/ /\ local[c].on = "unlinked"
              /\ UNCHANGED <<file, tmp>>
        /\ local' = [local EXCEPT ![c].pc = "rename"]
        /\ UNCHANGED <<tables, foreign, faults, history>>

\* The renamed file is still open for who opened it under its old name.
AfterRename(c, p) ==
    [d \in Clients |->
        IF d = c THEN [local[c] EXCEPT !.pc = "before", !.on = "none", !.misread = FALSE]
        ELSE IF local[d].path # p THEN local[d]
        ELSE CASE local[d].on = "tmp"  -> [local[d] EXCEPT !.on = "file"]
               [] local[d].on = "file" -> [local[d] EXCEPT !.on = "unlinked"]
               [] OTHER -> local[d]]

Rename(c) ==
    LET p == local[c].path IN
    /\ At(c, "rename") /\ tmp[p] # NoFile
    /\ file' = [file EXCEPT ![p] = tmp[p]]
    /\ tmp' = [tmp EXCEPT ![p] = NoFile]
    /\ local' = AfterRename(c, p)
    /\ replaced' = IF p \in met \/ file[p] = NoFile
                     THEN replaced
                     ELSE replaced \cup {<<p, file[p], ~local[c].misread>>}
    /\ touched' = touched \ {p}
    /\ UNCHANGED <<tables, foreign, faults, met>>

\* Another writer has renamed the temp file first.
RenameFails(c) ==
    /\ At(c, "rename") /\ tmp[local[c].path] = NoFile
    /\ local' = [local EXCEPT ![c] = AfterError(c)]
    /\ UNCHANGED <<file, tmp, tables, foreign, faults, history>>

Write(c) == CreateTmp(c) \/ FillTmp(c) \/ Rename(c) \/ RenameFails(c)

-----------------------------------------------------------------------------
(* apply_dotfile_edit and revert_dotfile_edit, after the write: one command*)
(* of the store thread per step.                                           *)

\* Mutant: nothing is stored for a file that was not there.
InsertBeforeOfFile(c) ==
    /\ At(c, "before")
    /\ blobs' = blobs \cup ({local[c].before} \ {Empty})
    /\ local' = [local EXCEPT ![c].pc = "after"]
    /\ UNCHANGED <<file, tmp, edit, foreign, faults, history>>

\* Mutant: the file is read when it is stored.
InsertBeforeLate(c) ==
    /\ At(c, "before")
    /\ blobs' = blobs \cup {Read(local[c].path)}
    /\ local' = [local EXCEPT ![c].pc = "after"]
    /\ UNCHANGED <<file, tmp, edit, foreign, faults, history>>

InsertBefore(c) ==
    /\ At(c, "before")
    /\ blobs' = blobs \cup {local[c].before}
    /\ local' = [local EXCEPT ![c].pc = "after"]
    /\ UNCHANGED <<file, tmp, edit, foreign, faults, history>>

InsertAfter(c) ==
    /\ At(c, "after")
    /\ blobs' = blobs \cup {local[c].value}
    /\ local' = [local EXCEPT ![c].pc = "row"]
    /\ UNCHANGED <<file, tmp, edit, foreign, faults, history>>

\* Mutant: the two contents are swapped.
InsertRowBackwards(c) ==
    LET l == local[c] IN
    /\ At(c, "row")
    /\ edit' = Append(edit, [path |-> l.path, before |-> l.value, after |-> l.before,
                             reverts |-> l.target, revertedBy |-> None])
    /\ local' = [local EXCEPT ![c] = IF l.target = None
                                       THEN Idle
                                       ELSE [l EXCEPT !.pc = "mark", !.row = Len(edit) + 1]]
    /\ UNCHANGED <<file, tmp, blobs, foreign, faults, history>>

\* An apply is done; the row of a revert is to be linked from the one it reverts.
InsertRow(c) ==
    LET l == local[c] IN
    /\ At(c, "row")
    /\ edit' = Append(edit, [path |-> l.path, before |-> l.before, after |-> l.value,
                             reverts |-> l.target, revertedBy |-> None])
    /\ local' = [local EXCEPT ![c] = IF l.target = None
                                       THEN Idle
                                       ELSE [l EXCEPT !.pc = "mark", !.row = Len(edit) + 1]]
    /\ UNCHANGED <<file, tmp, blobs, foreign, faults, history>>

MarkReverted(c) ==
    /\ At(c, "mark")
    /\ edit' = [edit EXCEPT ![local[c].target].revertedBy = local[c].row]
    /\ local' = [local EXCEPT ![c] = Idle]
    /\ UNCHANGED <<file, tmp, blobs, foreign, faults, history>>

Record(c) == InsertBefore(c) \/ InsertAfter(c) \/ InsertRow(c) \/ MarkReverted(c)

-----------------------------------------------------------------------------
(* What others do, and what fails.                                         *)

\* A program writes its own config file.
ForeignWrite(p, v) ==
    /\ foreign < MaxForeign                     \* bound
    /\ foreign' = foreign + 1
    /\ file' = [file EXCEPT ![p] = v]
    /\ local' = [c \in Clients |-> IF local[c].on = "file" /\ local[c].path = p
                                     THEN [local[c] EXCEPT !.on = "unlinked"]
                                     ELSE local[c]]
    /\ met' = IF InFlight(p) = {} THEN met ELSE met \cup {p}
    /\ touched' = touched \cup {p}
    /\ UNCHANGED <<tmp, tables, faults, replaced>>

\* A command of the store fails: the handler returns where it is.
StoreFails(c) ==
    /\ faults < MaxFaults                       \* bound
    /\ local[c].pc \in {"before", "after", "row", "mark"}
    /\ faults' = faults + 1
    /\ local' = [local EXCEPT ![c] = AfterError(c)]
    /\ UNCHANGED <<file, tmp, tables, foreign, history>>

\* A crash is an error to whoever waits, and the reconnection may fail as well.
\* The temp files of the old process are never looked at again.
Crash ==
    /\ faults < MaxFaults                       \* bound
    /\ faults' = faults + 1
    /\ tmp' = [p \in Paths |-> NoFile]
    /\ local' \in {f \in [Clients -> {Idle} \cup {Resend(c) : c \in Clients}] :
                     \A c \in Clients : f[c] \in IF At(c, "idle")
                                                  THEN {Idle}
                                                  ELSE {Idle, AfterError(c)}}
    /\ UNCHANGED <<file, tables, foreign, history>>

Next ==
    \/ \E c \in Clients :
          /\ Len(edit) + Cardinality({d \in Clients : ~At(d, "idle")}) < MaxEdits  \* bound
          /\ \/ \E p \in Paths, v \in Intended : CallApply(c, p, v)
             \/ \E e \in DOMAIN edit : CallRevert(c, e)
    \/ \E c \in Clients : Refused(c) \/ BeginApply(c) \/ BeginRevert(c)
    \/ \E c \in Clients : BeginUnread(c)
    \/ \E c \in Clients : Write(c) \/ Record(c) \/ StoreFails(c)
    \/ \E p \in Paths, v \in Intended : ForeignWrite(p, v)
    \/ Crash

Spec == Init /\ [][Next]_vars

-----------------------------------------------------------------------------
(* Properties                                                              *)

\* Whatever fails and whoever else writes, the contents a row names are in the
\* blobs table: what the feed shows as applied can be shown and reverted.
RowsHaveTheirBlobs ==
    \A e \in DOMAIN edit : {edit[e].before, edit[e].after} \subseteq blobs

\* A revert writes what the row it reverts had replaced, and a row marked as
\* reverted names a revert of itself, also after two reverts at once.
RevertsAreLinked ==
    \A e \in DOMAIN edit :
        /\ edit[e].reverts # None =>
              LET o == edit[e].reverts IN
              o < e /\ edit[o].path = edit[e].path /\ edit[e].after = edit[o].before
        /\ edit[e].revertedBy # None =>
              edit[e].revertedBy \in DOMAIN edit /\ edit[edit[e].revertedBy].reverts = e

\* A file that no two writers were at work on at once is never half written,
\* whatever the daemon dies of between the first byte and the rename.
LoneWritesAreAtomic == \A p \in Paths \ met : file[p] \notin {Torn, Mixed}

\* With no fault and no two writers at once, and once the handlers are done,
\* the newest row of a file says what the file holds, unless its owner has
\* written it since.
FeedMatchesFile ==
    faults = 0 =>
        \A p \in Paths \ (met \cup touched) : \A e \in DOMAIN edit :
            /\ InFlight(p) = {}
            /\ edit[e].path = p /\ \A f \in e + 1 .. Len(edit) : edit[f].path # p
            => file[p] = edit[e].after

\* With no fault, what a lone writer has overwritten is in the blobs table once
\* the handlers are done, the writes of the file's owner between two edits too,
\* unless the file could not be read: then it is lost.
ReplacedIsKept ==
    faults = 0 =>
        \A p \in Paths \ met, v \in Contents :
            <<p, v, TRUE>> \in replaced /\ InFlight(p) = {} => v \in blobs

\* With no fault and no two writers at once, a row is reverted once: a revert
\* that has answered is seen by the next, and one that failed wrote nothing.
RevertedOnce ==
    faults = 0 =>
        \A e, f \in DOMAIN edit :
            /\ e # f /\ edit[e].path \notin met
            /\ edit[e].reverts # None
            => edit[e].reverts # edit[f].reverts

-----------------------------------------------------------------------------
(* The inductive invariant of the proofs.                                  *)

\* What a handler has read of its row holds, and it records what is in blobs.
HandlerInv ==
    \A c \in Clients : LET l == local[c] IN
        /\ l.pc = "idle" => l.target = None /\ l.on = "none"
        /\ l.pc = "after" => l.before \in blobs
        /\ l.pc = "row" => {l.before, l.value} \subseteq blobs
        /\ l.target # None =>
              /\ edit[l.target].path = l.path
              /\ l.pc \notin {"begin", "mark"} => l.value = edit[l.target].before
        /\ l.pc = "mark" =>
              l.target # None /\ l.row \in DOMAIN edit /\ edit[l.row].reverts = l.target

\* No two writers were at work on file p at once: it is whole, and the handler
\* at work on it, if any, finds its temp file as it left it.
Alone(p) ==
    /\ file[p] \notin {Torn, Mixed}
    /\ \A e \in DOMAIN edit : edit[e].path = p => edit[e].before \notin {Torn, Mixed}
    /\ \A c \in InFlight(p) : LET l == local[c] IN
          /\ InFlight(p) = {c}
          /\ l.value \notin {Torn, Mixed} /\ l.before \notin {Torn, Mixed}
          /\ l.on = IF l.pc \in {"fill", "rename"} THEN "tmp" ELSE "none"
          /\ l.pc = "fill" => tmp[p] = Torn
          /\ l.pc = "rename" => tmp[p] = l.value
          /\ l.pc \in {"create", "fill", "rename"} /\ ~l.misread => l.before = Read(p)

\* What was overwritten in p, if it could be read, is in the blobs or about to be.
Kept(p) ==
    \A v \in Contents :
        <<p, v, TRUE>> \in replaced =>
            v \in blobs \/ \E c \in InFlight(p) : At(c, "before") /\ local[c].before = v

\* Handlers that have written p and not yet said so.
Unrecorded(p) == {c \in InFlight(p) : local[c].pc \in {"before", "after", "row"}}

NewestOf(p, e) == edit[e].path = p /\ \A f \in e + 1 .. Len(edit) : edit[f].path # p

\* p holds what its newest row says, or what the next row will say.
Told(p) ==
    p \notin touched =>
        /\ \A c \in Unrecorded(p) : file[p] = local[c].value
        /\ Unrecorded(p) = {} =>
              \A e \in DOMAIN edit : NewestOf(p, e) => file[p] = edit[e].after

PathInv ==
    \A p \in Paths \ met :
        /\ Alone(p)
        /\ faults = 0 => Kept(p) /\ Told(p)

Inv ==
    /\ TypeOK /\ HandlerInv
    /\ RowsHaveTheirBlobs /\ RevertsAreLinked
    /\ PathInv

-----------------------------------------------------------------------------
(* What the documents say, which the code does not keep.                   *)

\* ARCHITECTURE.md 16: the current content is read and stored as before_blob,
\* then the edit is applied.  The code applies it first, and takes a file it
\* cannot read for an empty one: what was there may be in no blob.
BeforeIsStored ==
    \A p \in Paths, v \in Contents, seen \in BOOLEAN :
        <<p, v, seen>> \in replaced /\ InFlight(p) = {} => v \in blobs

\* ARCHITECTURE.md 16: a revert is a new edit, linked by reverted_by.  With no
\* fault and nothing under way, the row it undoes names it.  The check and the
\* mark are far apart: two reverts of a row both pass, and one is named by none.
RevertsAreLinkedBack ==
    faults = 0 /\ (\A c \in Clients : At(c, "idle")) =>
        \A f \in DOMAIN edit :
            edit[f].reverts # None => edit[edit[f].reverts].revertedBy = f
=============================================================================
