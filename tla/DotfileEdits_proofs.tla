-------------------------- MODULE DotfileEdits_proofs --------------------------
(***************************************************************************)
(* Proofs about DotfileEdits, for any files, contents, clients, foreign    *)
(* writes and faults.  First the type, then what handlers and rows say of  *)
(* each other, then the handler that is alone with a file, and last what   *)
(* holds while nothing has failed.                                         *)
(***************************************************************************)
EXTENDS DotfileEdits, TLAPS

USE DEF None

-----------------------------------------------------------------------------
(* The table of edits                                                      *)

LEMMA IdleType ==
    Idle \in Local /\ Idle.pc = "idle" /\ Idle.target = None /\ Idle.on = "none"
<1>1. (CHOOSE p \in Paths : TRUE) \in Paths
  BY DotfileAssumption
<1> QED
  BY <1>1, DotfileAssumption DEF Idle, Local

LEMMA EditType ==
  ASSUME NEW s \in Seq(Row)
  PROVE  /\ Len(s) \in Nat /\ DOMAIN s = 1 .. Len(s)
         /\ \A e \in 1 .. Len(s) : s[e] \in Row
<1> DEFINE R == Row
<1> HIDE DEF R
<1>1. s \in Seq(R)
  BY DEF R
<1>2. \A e \in 1 .. Len(s) : s[e] \in R
  BY <1>1
<1> QED
  BY <1>1, <1>2 DEF R

LEMMA AppendedRow ==
  ASSUME NEW s \in Seq(Row), NEW r \in Row
  PROVE  /\ Append(s, r) \in Seq(Row)
         /\ DOMAIN Append(s, r) = DOMAIN s \cup {Len(s) + 1}
         /\ Len(Append(s, r)) = Len(s) + 1
         /\ Len(s) + 1 \notin DOMAIN s
         /\ \A e \in DOMAIN s : Append(s, r)[e] = s[e]
         /\ Append(s, r)[Len(s) + 1] = r
<1> DEFINE R == Row
<1> HIDE DEF R
<1>1. s \in Seq(R) /\ r \in R
  BY DEF R
<1>2. /\ Append(s, r) \in Seq(R)
      /\ DOMAIN Append(s, r) = DOMAIN s \cup {Len(s) + 1}
      /\ Len(Append(s, r)) = Len(s) + 1
      /\ Len(s) + 1 \notin DOMAIN s
      /\ \A e \in DOMAIN s : Append(s, r)[e] = s[e]
      /\ Append(s, r)[Len(s) + 1] = r
  BY <1>1
<1> QED
  BY <1>2 DEF R

LEMMA MarkedRow ==
  ASSUME NEW s \in Seq(Row), NEW t \in DOMAIN s, NEW n \in Nat
  PROVE  LET m == [s EXCEPT ![t].revertedBy = n] IN
         /\ m \in Seq(Row)
         /\ DOMAIN m = DOMAIN s /\ Len(m) = Len(s)
         /\ \A e \in DOMAIN s :
              /\ m[e].path = s[e].path /\ m[e].before = s[e].before
              /\ m[e].after = s[e].after /\ m[e].reverts = s[e].reverts
              /\ m[e].revertedBy = IF e = t THEN n ELSE s[e].revertedBy
<1> DEFINE m == [s EXCEPT ![t].revertedBy = n]
<1>1. /\ Len(s) \in Nat /\ DOMAIN s = 1 .. Len(s)
      /\ \A e \in DOMAIN s : s[e] \in Row
  BY EditType
<1>2. DOMAIN m = DOMAIN s
  OBVIOUS
<1>3. \A e \in DOMAIN s : m[e] = IF e = t THEN [s[e] EXCEPT !.revertedBy = n] ELSE s[e]
  OBVIOUS
<1>4. \A e \in DOMAIN s : m[e] \in Row
  BY <1>1, <1>3 DEF Row
<1> DEFINE R == Row
<1>5. m \in [1 .. Len(s) -> R]
  <2>1. m = [e \in DOMAIN s |-> m[e]]
    OBVIOUS
  <2> HIDE DEF m, R
  <2> QED
    BY <1>1, <1>2, <1>4, <2>1 DEF R
<1>6. m \in Seq(R) /\ Len(m) = Len(s)
  <2> HIDE DEF m, R
  <2> QED
    BY <1>1, <1>5
<1> QED
  BY <1>1, <1>2, <1>3, <1>6 DEF Row

-----------------------------------------------------------------------------
(* Types                                                                   *)

LEMMA ReadType ==
  ASSUME TypeOK, NEW p \in Paths
  PROVE  Read(p) \in Contents
BY DotfileAssumption DEF TypeOK, Read

LEMMA AfterErrorType ==
  ASSUME TypeOK, NEW c \in Clients
  PROVE  /\ Resend(c) \in Local /\ AfterError(c) \in Local
         /\ Resend(c).target = local[c].target
         /\ AfterError(c).target \in {None, local[c].target}
<1>1. Idle \in Local /\ Idle.target = None
  BY IdleType DEF Idle
<1>2. local[c] \in Local
  BY DEF TypeOK
<1>3. Resend(c) \in Local /\ Resend(c).target = local[c].target
  BY <1>2, DotfileAssumption DEF Resend, Local
<1> QED
  BY <1>1, <1>3 DEF AfterError

(* The part of TypeOK that most actions disturb: one handler moves on.     *)
LEMMA StepType ==
  ASSUME TypeOK, NEW c \in Clients, NEW l \in Local,
         l.target \in {None} \cup DOMAIN edit,
         local' = [local EXCEPT ![c] = l], UNCHANGED edit
  PROVE  /\ local' \in [Clients -> Local]
         /\ \A d \in Clients : local'[d].target \in {None} \cup DOMAIN edit'
BY DEF TypeOK

LEMMA CallType ==
  ASSUME TypeOK, NEW c \in Clients,
         \/ \E p \in Paths, v \in Intended : CallApply(c, p, v)
         \/ \E e \in DOMAIN edit : CallRevert(c, e)
  PROVE  TypeOK'
<1>1. PICK request \in Local : /\ Call(c, request)
                               /\ request.target \in {None} \cup DOMAIN edit
  <2>1. Idle \in Local
    BY IdleType
  <2>2. CASE \E p \in Paths, v \in Intended : CallApply(c, p, v)
    <3>1. PICK p \in Paths, v \in Intended : CallApply(c, p, v)
      BY <2>2
    <3> DEFINE request == [Idle EXCEPT !.pc = "begin", !.path = p, !.value = v]
    <3>2. request \in Local /\ request.target = None
      BY <2>1 DEF Local, Intended, Idle
    <3>3. Call(c, request)
      BY <3>1 DEF CallApply
    <3> QED
      BY <3>2, <3>3
  <2>3. CASE \E e \in DOMAIN edit : CallRevert(c, e)
    <3>1. PICK e \in DOMAIN edit : CallRevert(c, e)
      BY <2>3
    <3>2. e \in Nat /\ edit[e] \in Row
      BY EditType DEF TypeOK
    <3> DEFINE request == [Idle EXCEPT !.pc = "begin", !.path = edit[e].path, !.target = e]
    <3>3. request \in Local /\ request.target = e
      BY <2>1, <3>2 DEF Local, Row, Idle
    <3>4. Call(c, request)
      BY <3>1 DEF CallRevert
    <3> QED
      BY <3>3, <3>4
  <2> QED
    BY <2>2, <2>3
<1>2. /\ local' = [local EXCEPT ![c] = request]
      /\ UNCHANGED <<file, tmp, blobs, edit, foreign, faults, replaced, touched>>
      /\ met' \in {met, met \cup {request.path}}
  BY <1>1 DEF Call, tables
<1>3. request.path \in Paths
  BY DEF Local
<1>4. /\ local' \in [Clients -> Local]
      /\ \A d \in Clients : local'[d].target \in {None} \cup DOMAIN edit'
  BY <1>1, <1>2, StepType
<1> QED
  BY <1>2, <1>3, <1>4 DEF TypeOK

LEMMA BeginType ==
  ASSUME TypeOK, NEW c \in Clients, Refused(c) \/ BeginApply(c) \/ BeginRevert(c)
  PROVE  TypeOK'
<1>1. /\ UNCHANGED <<file, tmp, blobs, edit, foreign, faults, replaced, met, touched>>
  BY DEF Refused, BeginApply, BeginRevert, tables, history
<1>2. local[c] \in Local /\ local[c].target \in {None} \cup DOMAIN edit
  BY DEF TypeOK
<1>3. \E l \in Local : l.target \in {None} \cup DOMAIN edit /\ local' = [local EXCEPT ![c] = l]
  <2>1. CASE Refused(c)
    BY <2>1, <1>2, AfterErrorType DEF Refused
  <2>2. CASE BeginApply(c)
    <3> DEFINE l == [local[c] EXCEPT !.pc = "create", !.before = Read(local[c].path)]
    <3>1. l \in Local /\ l.target = local[c].target
      BY <1>2, ReadType DEF Local
    <3>2. local' = [local EXCEPT ![c] = l]
      BY <2>2 DEF BeginApply
    <3> QED
      BY <1>2, <3>1, <3>2
  <2>3. CASE BeginRevert(c)
    <3> DEFINE l == [local[c] EXCEPT !.pc = "create", !.value = edit[local[c].target].before,
                                     !.before = Read(local[c].path)]
    <3>1. edit[local[c].target] \in Row
      BY <1>2, <2>3, EditType DEF BeginRevert, TypeOK
    <3>2. l \in Local /\ l.target = local[c].target
      BY <1>2, <3>1, ReadType DEF Local, Row
    <3>3. local' = [local EXCEPT ![c] = l]
      BY <2>3 DEF BeginRevert
    <3> QED
      BY <1>2, <3>2, <3>3
  <2> QED
    BY <2>1, <2>2, <2>3
<1>4. /\ local' \in [Clients -> Local]
      /\ \A d \in Clients : local'[d].target \in {None} \cup DOMAIN edit'
  BY <1>1, <1>3, StepType
<1> QED
  BY <1>1, <1>4 DEF TypeOK

LEMMA UnreadType ==
  ASSUME TypeOK, NEW c \in Clients, BeginUnread(c)
  PROVE  TypeOK'
<1> DEFINE e == local[c].target
           l == [local[c] EXCEPT !.pc = "create", !.misread = TRUE,
                                 !.value = IF e = None THEN @ ELSE edit[e].before]
<1>1. /\ UNCHANGED <<file, tmp, blobs, edit, faults, replaced, met, touched>>
      /\ foreign < MaxForeign /\ foreign' = foreign + 1
      /\ local' = [local EXCEPT ![c] = l]
  BY DEF BeginUnread, tables, history
<1>2. local[c] \in Local /\ e \in {None} \cup DOMAIN edit
  BY DEF TypeOK
<1>3. e # None => edit[e] \in Row
  BY <1>2, EditType DEF TypeOK
<1>4. l \in Local /\ l.target = e
  BY <1>2, <1>3 DEF Local, Row
<1>5. /\ local' \in [Clients -> Local]
      /\ \A d \in Clients : local'[d].target \in {None} \cup DOMAIN edit'
  BY <1>1, <1>2, <1>4, StepType
<1>6. foreign' \in 0 .. MaxForeign
  BY <1>1, DotfileAssumption DEF TypeOK
<1> QED
  BY <1>1, <1>5, <1>6 DEF TypeOK

LEMMA WriteType ==
  ASSUME TypeOK, NEW c \in Clients, Write(c)
  PROVE  TypeOK'
<1> DEFINE p == local[c].path
<1>1. /\ UNCHANGED <<blobs, edit, foreign, faults, met>>
  BY DEF Write, CreateTmp, FillTmp, Rename, RenameFails, tables, history
<1>2. /\ local[c] \in Local /\ local[c].target \in {None} \cup DOMAIN edit
      /\ p \in Paths /\ local[c].value \in Contents /\ {Torn, Mixed} \subseteq Contents
  BY DotfileAssumption DEF TypeOK, Local
<1>3. CASE CreateTmp(c)
  <2> DEFINE l == [local[c] EXCEPT !.pc = "fill", !.on = "tmp"]
  <2>1. l \in Local /\ l.target = local[c].target
    BY <1>2 DEF Local
  <2>2. local' = [local EXCEPT ![c] = l]
    BY <1>3 DEF CreateTmp
  <2>3. /\ local' \in [Clients -> Local]
        /\ \A d \in Clients : local'[d].target \in {None} \cup DOMAIN edit'
    BY <1>1, <1>2, <2>1, <2>2, StepType
  <2>4. tmp' = [tmp EXCEPT ![p] = Torn] /\ UNCHANGED <<file, replaced, touched>>
    BY <1>3 DEF CreateTmp, history
  <2> QED
    BY <1>1, <1>2, <2>3, <2>4 DEF TypeOK
<1>4. CASE FillTmp(c)
  <2> DEFINE l == [local[c] EXCEPT !.pc = "rename"]
  <2>1. l \in Local /\ l.target = local[c].target
    BY <1>2 DEF Local
  <2>2. local' = [local EXCEPT ![c] = l]
    BY <1>4 DEF FillTmp
  <2>3. /\ local' \in [Clients -> Local]
        /\ \A d \in Clients : local'[d].target \in {None} \cup DOMAIN edit'
    BY <1>1, <1>2, <2>1, <2>2, StepType
  <2>4. /\ UNCHANGED <<replaced, touched>>
        /\ \E w \in Contents : \/ tmp' = [tmp EXCEPT ![p] = w] /\ UNCHANGED file
                               \/ file' = [file EXCEPT ![p] = w] /\ UNCHANGED tmp
                               \/ UNCHANGED <<file, tmp>>
    BY <1>2, <1>4 DEF FillTmp, history, WrittenOver
  <2> QED
    BY <1>1, <1>2, <2>3, <2>4 DEF TypeOK
<1>5. CASE Rename(c)
  <2>1. /\ file' = [file EXCEPT ![p] = tmp[p]] /\ tmp' = [tmp EXCEPT ![p] = NoFile]
        /\ tmp[p] \in Contents
        /\ touched' \subseteq touched
    BY <1>2, <1>5 DEF Rename, TypeOK
  <2>6. replaced' \subseteq Paths \X Contents \X BOOLEAN
    <3>1. replaced \subseteq Paths \X Contents \X BOOLEAN /\ file[p] \in Contents \cup {NoFile}
      BY <1>2 DEF TypeOK
    <3>2. (~local[c].misread) \in BOOLEAN
      OBVIOUS
    <3>3. file[p] # NoFile => <<p, file[p], ~local[c].misread>> \in Paths \X Contents \X BOOLEAN
      BY <1>2, <3>1, <3>2
    <3>4. \/ replaced' = replaced
          \/ /\ file[p] # NoFile
             /\ replaced' = replaced \cup {<<p, file[p], ~local[c].misread>>}
      BY <1>5 DEF Rename
    <3> QED
      BY <3>1, <3>3, <3>4
  <2>2. local' = AfterRename(c, p)
    BY <1>5 DEF Rename
  <2>3. \A d \in Clients : local'[d] \in Local /\ local'[d].target = local[d].target
    <3> TAKE d \in Clients
    <3>1. local[d] \in Local
      BY DEF TypeOK
    <3>2. \/ local'[d] = [local[c] EXCEPT !.pc = "before", !.on = "none", !.misread = FALSE] /\ d = c
          \/ local'[d] = local[d]
          \/ local'[d] = [local[d] EXCEPT !.on = "file"]
          \/ local'[d] = [local[d] EXCEPT !.on = "unlinked"]
      BY <2>2 DEF AfterRename
    <3>3. CASE local'[d] = [local[c] EXCEPT !.pc = "before", !.on = "none", !.misread = FALSE] /\ d = c
      BY <3>1, <3>3 DEF Local
    <3>4. CASE \E on \in {"file", "unlinked"} : local'[d] = [local[d] EXCEPT !.on = on]
      BY <3>1, <3>4 DEF Local
    <3> QED
      BY <3>1, <3>2, <3>3, <3>4
  <2>4. local' \in [Clients -> Local]
    BY <2>2, <2>3 DEF AfterRename
  <2> QED
    BY <1>1, <1>2, <2>1, <2>3, <2>4, <2>6 DEF TypeOK
<1>6. CASE RenameFails(c)
  <2>1. local' = [local EXCEPT ![c] = AfterError(c)] /\ UNCHANGED <<file, tmp, replaced, touched>>
    BY <1>6 DEF RenameFails, history
  <2>2. AfterError(c) \in Local /\ AfterError(c).target \in {None} \cup DOMAIN edit
    BY <1>2, AfterErrorType
  <2>3. /\ local' \in [Clients -> Local]
        /\ \A d \in Clients : local'[d].target \in {None} \cup DOMAIN edit'
    BY <1>1, <2>1, <2>2, StepType
  <2> QED
    BY <1>1, <2>1, <2>3 DEF TypeOK
<1> QED
  BY <1>3, <1>4, <1>5, <1>6 DEF Write

LEMMA RecordType ==
  ASSUME TypeOK, NEW c \in Clients, Record(c)
  PROVE  TypeOK'
<1>1. UNCHANGED <<file, tmp, foreign, faults, replaced, met, touched>>
  BY DEF Record, InsertBefore, InsertAfter, InsertRow, MarkReverted, history
<1>2. /\ local[c] \in Local /\ local[c].target \in {None} \cup DOMAIN edit
      /\ edit \in Seq(Row) /\ Len(edit) \in Nat
  BY EditType DEF TypeOK
<1>3. CASE InsertBefore(c) \/ InsertAfter(c)
  <2>1. PICK pc \in {"after", "row"} : local' = [local EXCEPT ![c].pc = pc]
    BY <1>3 DEF InsertBefore, InsertAfter
  <2> DEFINE l == [local[c] EXCEPT !.pc = pc]
  <2>2. l \in Local /\ l.target = local[c].target
    BY <1>2 DEF Local
  <2>3. UNCHANGED edit /\ blobs' \in {blobs \cup {local[c].before}, blobs \cup {local[c].value}}
    BY <1>3 DEF InsertBefore, InsertAfter
  <2>4. /\ local' \in [Clients -> Local]
        /\ \A d \in Clients : local'[d].target \in {None} \cup DOMAIN edit'
    BY <1>2, <2>1, <2>2, <2>3, StepType
  <2>5. local[c].before \in Contents /\ local[c].value \in Contents
    BY <1>2 DEF Local
  <2> QED
    BY <1>1, <2>3, <2>4, <2>5 DEF TypeOK
<1>4. CASE InsertRow(c)
  <2> DEFINE r == [path |-> local[c].path, before |-> local[c].before,
                   after |-> local[c].value, reverts |-> local[c].target, revertedBy |-> None]
             l == IF local[c].target = None
                    THEN Idle
                    ELSE [local[c] EXCEPT !.pc = "mark", !.row = Len(edit) + 1]
  <2>1. r \in Row
    BY <1>2 DEF Local, Row
  <2>2. edit' = Append(edit, r) /\ local' = [local EXCEPT ![c] = l] /\ UNCHANGED blobs
    BY <1>4 DEF InsertRow
  <2> HIDE DEF r
  <2>3. edit' \in Seq(Row) /\ DOMAIN edit \subseteq DOMAIN edit'
    BY <1>2, <2>1, <2>2, AppendedRow
  <2>4. l \in Local /\ l.target \in {None} \cup DOMAIN edit
    <3>1. Idle \in Local /\ Idle.target = None
      BY IdleType
    <3>2. [local[c] EXCEPT !.pc = "mark", !.row = Len(edit) + 1] \in Local
      <4>1. Len(edit) + 1 \in Nat /\ local[c] \in Local
        BY <1>2
      <4> DEFINE n == Len(edit) + 1
      <4> HIDE DEF n
      <4> QED
        BY <4>1 DEF n, Local
    <3>3. [local[c] EXCEPT !.pc = "mark", !.row = Len(edit) + 1].target = local[c].target
      BY <1>2 DEF Local
    <3> QED
      BY <1>2, <3>1, <3>2, <3>3
  <2> HIDE DEF l
  <2>5. local' \in [Clients -> Local] /\ \A d \in Clients : local'[d].target \in {None} \cup DOMAIN edit
    BY <2>2, <2>4 DEF TypeOK
  <2> QED
    BY <1>1, <2>2, <2>3, <2>5 DEF TypeOK
<1>5. CASE MarkReverted(c) /\ local[c].target # None
  <2>1. local[c].row \in Nat /\ local[c].target \in DOMAIN edit
    BY <1>2, <1>5 DEF Local
  <2>2. edit' \in Seq(Row) /\ DOMAIN edit' = DOMAIN edit
    BY <1>2, <1>5, <2>1, MarkedRow DEF MarkReverted
  <2>3. local' = [local EXCEPT ![c] = Idle] /\ UNCHANGED blobs
    BY <1>5 DEF MarkReverted
  <2>4. local' \in [Clients -> Local] /\ \A d \in Clients : local'[d].target \in {None} \cup DOMAIN edit
    BY <2>3, IdleType DEF Idle, TypeOK
  <2> QED
    BY <1>1, <2>2, <2>3, <2>4 DEF TypeOK
<1>6. CASE MarkReverted(c) /\ local[c].target = None
  <2>1. 0 \notin DOMAIN edit
    BY <1>2, EditType
  <2>2. edit' = edit
    <3> DEFINE R == Row
    <3>1. edit \in [1 .. Len(edit) -> R]
      <4> HIDE DEF R
      <4> QED
        BY <1>2 DEF R
    <3> HIDE DEF R
    <3> QED
      BY <1>6, <2>1, <3>1 DEF MarkReverted
  <2>3. local' = [local EXCEPT ![c] = Idle] /\ UNCHANGED blobs
    BY <1>6 DEF MarkReverted
  <2>4. local' \in [Clients -> Local] /\ \A d \in Clients : local'[d].target \in {None} \cup DOMAIN edit
    BY <2>3, IdleType DEF Idle, TypeOK
  <2> QED
    BY <1>1, <2>2, <2>3, <2>4 DEF TypeOK
<1> QED
  BY <1>3, <1>4, <1>5, <1>6 DEF Record

LEMMA OthersType ==
  ASSUME TypeOK,
         \/ \E c \in Clients : StoreFails(c)
         \/ \E p \in Paths, v \in Intended : ForeignWrite(p, v)
         \/ Crash
  PROVE  TypeOK'
<1>1. UNCHANGED <<blobs, edit, replaced>>
  BY DEF StoreFails, ForeignWrite, Crash, tables, history
<1>2. local \in [Clients -> Local]
  BY DEF TypeOK
<1>3. ASSUME NEW c \in Clients, StoreFails(c)
      PROVE  TypeOK'
  <2>1. local' = [local EXCEPT ![c] = AfterError(c)] /\ UNCHANGED <<file, tmp, foreign, met, touched>>
    BY <1>3 DEF StoreFails, history
  <2>2. faults' \in 0 .. MaxFaults
    BY <1>3, DotfileAssumption DEF StoreFails, TypeOK
  <2>3. AfterError(c) \in Local /\ AfterError(c).target \in {None} \cup DOMAIN edit
    BY AfterErrorType DEF TypeOK
  <2>4. /\ local' \in [Clients -> Local]
        /\ \A d \in Clients : local'[d].target \in {None} \cup DOMAIN edit'
    BY <1>1, <2>1, <2>3, StepType
  <2> QED
    BY <1>1, <2>1, <2>2, <2>4 DEF TypeOK
<1>4. ASSUME NEW p \in Paths, NEW v \in Intended, ForeignWrite(p, v)
      PROVE  TypeOK'
  <2>1. /\ file' = [file EXCEPT ![p] = v] /\ v \in Contents
        /\ met' \in {met, met \cup {p}} /\ touched' = touched \cup {p}
        /\ UNCHANGED <<tmp, faults>>
    BY <1>4 DEF ForeignWrite, Intended
  <2>2. foreign' \in 0 .. MaxForeign
    BY <1>4, DotfileAssumption DEF ForeignWrite, TypeOK
  <2>3. local' = [c \in Clients |-> IF local[c].on = "file" /\ local[c].path = p
                                      THEN [local[c] EXCEPT !.on = "unlinked"]
                                      ELSE local[c]]
    BY <1>4 DEF ForeignWrite
  <2>4. \A c \in Clients : local'[c] \in Local /\ local'[c].target = local[c].target
    <3> TAKE c \in Clients
    <3>1. [local[c] EXCEPT !.on = "unlinked"] \in Local
      BY <1>2 DEF Local
    <3> QED
      BY <1>2, <2>3, <3>1 DEF Local
  <2>5. local' \in [Clients -> Local]
    BY <2>3, <2>4
  <2> QED
    BY <1>1, <2>1, <2>2, <2>4, <2>5 DEF TypeOK
<1>5. CASE Crash
  <2>1. tmp' = [p \in Paths |-> NoFile] /\ UNCHANGED <<file, foreign, met, touched>>
    BY <1>5 DEF Crash, history
  <2>2. faults' \in 0 .. MaxFaults
    BY <1>5, DotfileAssumption DEF Crash, TypeOK
  <2>3. /\ local' \in [Clients -> {Idle} \cup {Resend(c) : c \in Clients}]
        /\ \A c \in Clients : local'[c] \in {Idle, AfterError(c)}
    BY <1>5 DEF Crash
  <2>4. \A c \in Clients : local'[c] \in Local /\ local'[c].target \in {None} \cup DOMAIN edit
    <3>1. ASSUME NEW c \in Clients
          PROVE  /\ AfterError(c) \in Local /\ AfterError(c).target \in {None} \cup DOMAIN edit
                 /\ Idle \in Local /\ Idle.target = None
      BY IdleType, AfterErrorType DEF TypeOK
    <3> QED
      BY <2>3, <3>1
  <2> QED
    BY <1>1, <2>1, <2>2, <2>3, <2>4 DEF TypeOK
<1> QED
  BY <1>3, <1>4, <1>5

LEMMA InitType == Init => TypeOK
<1> SUFFICES ASSUME Init PROVE TypeOK
  OBVIOUS
<1>1. Idle \in Local /\ Idle.target = None
  BY IdleType DEF Idle
<1>2. edit \in Seq(Row)
  BY DEF Init
<1>3. 0 \in 0 .. MaxForeign /\ 0 \in 0 .. MaxFaults
  BY DotfileAssumption
<1> QED
  BY <1>1, <1>2, <1>3 DEF Init, TypeOK, Intended

(* The actions, for the proofs that follow.                                *)
LEMMA NextCases ==
  ASSUME Next
  PROVE  \/ \E c \in Clients :
              \/ \E p \in Paths, v \in Intended : CallApply(c, p, v)
              \/ \E e \in DOMAIN edit : CallRevert(c, e)
              \/ Refused(c) \/ BeginApply(c) \/ BeginRevert(c) \/ BeginUnread(c)
              \/ Write(c) \/ Record(c) \/ StoreFails(c)
         \/ \E p \in Paths, v \in Intended : ForeignWrite(p, v)
         \/ Crash
BY DEF Next

LEMMA NextType ==
  ASSUME TypeOK, [Next]_vars
  PROVE  TypeOK'
<1>1. CASE Next
  BY <1>1, NextCases, CallType, BeginType, UnreadType, WriteType, RecordType, OthersType
<1>2. CASE UNCHANGED vars
  BY <1>2 DEF vars, history, TypeOK
<1> QED
  BY <1>1, <1>2

(* The variables keep their types; a handler that reverts has a row to.    *)
THEOREM TypeCorrect == Spec => []TypeOK
<1> QED
  BY InitType, NextType, PTL DEF Spec

-----------------------------------------------------------------------------
(* Rows, blobs and what handlers hold of them                              *)

RowsInv == HandlerInv /\ RowsHaveTheirBlobs /\ RevertsAreLinked

LEMMA TypeFacts ==
  ASSUME TypeOK
  PROVE  /\ edit \in Seq(Row) /\ Len(edit) \in Nat /\ DOMAIN edit = 1 .. Len(edit)
         /\ \A e \in DOMAIN edit : edit[e] \in Row
         /\ local \in [Clients -> Local]
         /\ \A c \in Clients : local[c].target \in {None} \cup DOMAIN edit
BY EditType DEF TypeOK

(* While the table of edits is as it was, a handler may forget what it has *)
(* read and begin again, and blobs may come.                               *)
LEMMA HandlersKept ==
  ASSUME TypeOK, RowsInv, UNCHANGED edit, blobs \subseteq blobs',
         \A c \in Clients :
            \/ /\ local'[c].pc = local[c].pc /\ local'[c].path = local[c].path
               /\ local'[c].target = local[c].target /\ local'[c].row = local[c].row
               /\ local'[c].value = local[c].value /\ local'[c].before = local[c].before
               /\ local'[c].pc = "idle" => local'[c].on = "none"
            \/ local'[c] = Idle
            \/ /\ local'[c].pc = "begin" /\ local'[c].path = local[c].path
               /\ local'[c].target = local[c].target
  PROVE  RowsInv'
<1>1. RowsHaveTheirBlobs' /\ RevertsAreLinked'
  BY DEF RowsInv, RowsHaveTheirBlobs, RevertsAreLinked
<1>2. ASSUME NEW c \in Clients
      PROVE  LET l == local'[c] IN
               /\ l.pc = "idle" => l.target = None /\ l.on = "none"
               /\ l.pc = "after" => l.before \in blobs'
               /\ l.pc = "row" => {l.before, l.value} \subseteq blobs'
               /\ l.target # None =>
                     /\ edit'[l.target].path = l.path
                     /\ l.pc \notin {"begin", "mark"} => l.value = edit'[l.target].before
               /\ l.pc = "mark" =>
                     l.target # None /\ l.row \in DOMAIN edit' /\ edit'[l.row].reverts = l.target
  <2>1. CASE local'[c] = Idle
    BY <2>1, IdleType
  <2>2. CASE local'[c] # Idle
    BY <2>2 DEF RowsInv, HandlerInv
  <2> QED
    BY <2>1, <2>2
<1> QED
  BY <1>1, <1>2 DEF RowsInv, HandlerInv

(* A call begins: the request is for the file of the row it names.         *)
LEMMA CallFacts ==
  ASSUME TypeOK, NEW c \in Clients,
         \/ \E p \in Paths, v \in Intended : CallApply(c, p, v)
         \/ \E e \in DOMAIN edit : CallRevert(c, e)
  PROVE  /\ UNCHANGED <<file, tmp, blobs, edit, foreign, faults, replaced, touched>>
         /\ local[c].pc = "idle"
         /\ local' = [local EXCEPT ![c] = local'[c]]
         /\ local'[c].pc = "begin" /\ local'[c].on = "none"
         /\ local'[c].path \in Paths
         /\ local'[c].value \in Intended \cup {Empty} /\ local'[c].before = Empty
         /\ local'[c].target # None => edit[local'[c].target].path = local'[c].path
         /\ met' = IF InFlight(local'[c].path) = {} THEN met ELSE met \cup {local'[c].path}
<1>1. local \in [Clients -> Local]
  BY DEF TypeOK
<1>2. ASSUME NEW p \in Paths, NEW v \in Intended, CallApply(c, p, v)
      PROVE  /\ Call(c, local'[c]) /\ local'[c] = [Idle EXCEPT !.pc = "begin", !.path = p, !.value = v]
  BY <1>1, <1>2 DEF CallApply, Call
<1>3. ASSUME NEW e \in DOMAIN edit, CallRevert(c, e)
      PROVE  /\ Call(c, local'[c]) /\ edit[e] \in Row
             /\ local'[c] = [Idle EXCEPT !.pc = "begin", !.path = edit[e].path, !.target = e]
  BY <1>1, <1>3, EditType DEF CallRevert, Call, TypeOK
<1>4. Call(c, local'[c])
  BY <1>2, <1>3
<1>5. /\ local'[c].pc = "begin" /\ local'[c].on = "none" /\ local'[c].path \in Paths
      /\ local'[c].value \in Intended \cup {Empty} /\ local'[c].before = Empty
      /\ local'[c].target # None => edit[local'[c].target].path = local'[c].path
  <2>1. CASE \E p \in Paths, v \in Intended : CallApply(c, p, v)
    <3>1. PICK p \in Paths, v \in Intended : CallApply(c, p, v)
      BY <2>1
    <3>2. local'[c] = [Idle EXCEPT !.pc = "begin", !.path = p, !.value = v]
      BY <1>2, <3>1
    <3> QED
      BY <3>2 DEF Idle
  <2>2. CASE \E e \in DOMAIN edit : CallRevert(c, e)
    <3>1. PICK e \in DOMAIN edit : CallRevert(c, e)
      BY <2>2
    <3>2. /\ local'[c] = [Idle EXCEPT !.pc = "begin", !.path = edit[e].path, !.target = e]
          /\ edit[e].path \in Paths
      BY <1>3, <3>1 DEF Row
    <3> QED
      BY <3>2 DEF Idle
  <2> QED
    BY <2>1, <2>2
<1> QED
  BY <1>1, <1>4, <1>5 DEF Call, At, tables

LEMMA CallRows ==
  ASSUME TypeOK, RowsInv, NEW c \in Clients,
         \/ \E p \in Paths, v \in Intended : CallApply(c, p, v)
         \/ \E e \in DOMAIN edit : CallRevert(c, e)
  PROVE  RowsInv'
<1>1. /\ UNCHANGED <<edit, blobs>> /\ \A d \in Clients : d # c => local'[d] = local[d]
      /\ local'[c].pc = "begin"
      /\ local'[c].target # None => edit[local'[c].target].path = local'[c].path
  BY CallFacts, TypeFacts
<1> QED
  BY <1>1 DEF RowsInv, HandlerInv, RowsHaveTheirBlobs, RevertsAreLinked

LEMMA ResentFacts ==
  ASSUME TypeOK, NEW c \in Clients
  PROVE  \/ AfterError(c) = Idle
         \/ /\ AfterError(c).pc = "begin" /\ AfterError(c).path = local[c].path
            /\ AfterError(c).target = local[c].target
<1>1. local[c] \in Local
  BY DEF TypeOK
<1> QED
  BY <1>1 DEF AfterError, Resend, Local

LEMMA BeginRows ==
  ASSUME TypeOK, RowsInv, NEW c \in Clients, Refused(c) \/ BeginApply(c) \/ BeginRevert(c)
  PROVE  RowsInv'
<1>1. UNCHANGED <<edit, blobs>>
  BY DEF Refused, BeginApply, BeginRevert, tables
<1>2. CASE Refused(c)
  <2>1. local' = [local EXCEPT ![c] = AfterError(c)]
    BY <1>2 DEF Refused
  <2> QED
    BY <1>1, <2>1, ResentFacts, TypeFacts, HandlersKept
       DEF RowsInv, HandlerInv
<1>3. CASE BeginApply(c) \/ BeginRevert(c)
  <2>1. /\ local[c] \in Local
        /\ \A d \in Clients : d # c => local'[d] = local[d]
        /\ local'[c].pc = "create" /\ local'[c].path = local[c].path
        /\ local'[c].target = local[c].target
        /\ local'[c].target # None => local'[c].value = edit[local'[c].target].before
    BY <1>3, TypeFacts DEF BeginApply, BeginRevert, Local
  <2> QED
    BY <1>1, <2>1 DEF RowsInv, HandlerInv, RowsHaveTheirBlobs, RevertsAreLinked
<1> QED
  BY <1>2, <1>3

LEMMA UnreadFacts ==
  ASSUME TypeOK, NEW c \in Clients, BeginUnread(c)
  PROVE  /\ UNCHANGED <<file, tmp, blobs, edit, faults, replaced, met, touched>>
         /\ \A d \in Clients : d # c => local'[d] = local[d]
         /\ local[c].pc = "begin" /\ local'[c].pc = "create" /\ local'[c].misread
         /\ local'[c].path = local[c].path /\ local'[c].target = local[c].target
         /\ local'[c].on = local[c].on /\ local'[c].before = local[c].before
         /\ local'[c].value = IF local[c].target = None THEN local[c].value
                                                        ELSE edit[local[c].target].before
<1>1. local \in [Clients -> Local]
  BY TypeFacts
<1> QED
  BY <1>1 DEF BeginUnread, At, tables, history, Local

LEMMA UnreadRows ==
  ASSUME TypeOK, RowsInv, NEW c \in Clients, BeginUnread(c)
  PROVE  RowsInv'
BY UnreadFacts DEF RowsInv, HandlerInv, RowsHaveTheirBlobs, RevertsAreLinked

LEMMA WriteRows ==
  ASSUME TypeOK, RowsInv, NEW c \in Clients, Write(c)
  PROVE  RowsInv'
<1>1. UNCHANGED <<edit, blobs>>
  BY DEF Write, CreateTmp, FillTmp, Rename, RenameFails, tables
<1>2. local \in [Clients -> Local]
  BY TypeFacts
<1>3. CASE RenameFails(c)
  <2>1. local' = [local EXCEPT ![c] = AfterError(c)]
    BY <1>3 DEF RenameFails
  <2> QED
    BY <1>1, <2>1, ResentFacts, TypeFacts, HandlersKept
       DEF RowsInv, HandlerInv
<1>4. CASE CreateTmp(c) \/ FillTmp(c) \/ Rename(c)
  <2>1. ASSUME NEW d \in Clients
        PROVE  /\ local'[d].path = local[d].path
               /\ local'[d].target = local[d].target /\ local'[d].row = local[d].row
               /\ local'[d].value = local[d].value /\ local'[d].before = local[d].before
    <3>1. CASE CreateTmp(c) \/ FillTmp(c)
      BY <1>2, <3>1 DEF CreateTmp, FillTmp, Local
    <3>2. CASE Rename(c)
      <4>1. local'[d] \in {[local[d] EXCEPT !.pc = "before", !.on = "none", !.misread = FALSE], local[d],
                           [local[d] EXCEPT !.on = "file"], [local[d] EXCEPT !.on = "unlinked"]}
        BY <3>2 DEF Rename, AfterRename
      <4> QED
        BY <1>2, <4>1 DEF Local
    <3> QED
      BY <1>4, <3>1, <3>2
  <2>2. \A d \in Clients : d # c => local'[d].pc = local[d].pc
    BY <1>2, <1>4 DEF CreateTmp, FillTmp, Rename, AfterRename, Local
  <2>3. /\ local'[c].pc \in {"fill", "rename", "before"}
        /\ local[c].pc \in {"create", "fill", "rename"}
    <3>1. CASE CreateTmp(c) \/ FillTmp(c)
      BY <1>2, <3>1 DEF CreateTmp, FillTmp, At, Local
    <3>2. CASE Rename(c)
      <4>1. local'[c] = [local[c] EXCEPT !.pc = "before", !.on = "none", !.misread = FALSE]
        BY <3>2 DEF Rename, AfterRename
      <4> QED
        BY <1>2, <3>2, <4>1 DEF Rename, At, Local
    <3> QED
      BY <1>4, <3>1, <3>2
  <2>4. \A d \in Clients : local[d].on = "none" /\ d # c => local'[d].on = "none"
    BY <1>2, <1>4 DEF CreateTmp, FillTmp, Rename, AfterRename, Local
  <2> QED
    BY <1>1, <2>1, <2>2, <2>3, <2>4 DEF RowsInv, HandlerInv, RowsHaveTheirBlobs, RevertsAreLinked
<1> QED
  BY <1>3, <1>4 DEF Write

LEMMA RecordRows ==
  ASSUME TypeOK, RowsInv, NEW c \in Clients, Record(c)
  PROVE  RowsInv'
<1>1. /\ edit \in Seq(Row) /\ Len(edit) \in Nat /\ DOMAIN edit = 1 .. Len(edit)
      /\ \A e \in DOMAIN edit : edit[e] \in Row
      /\ local \in [Clients -> Local] /\ local[c].target \in {None} \cup DOMAIN edit
  BY TypeFacts
<1>2. CASE InsertBefore(c) \/ InsertAfter(c)
  <2>1. /\ UNCHANGED edit /\ blobs \subseteq blobs'
        /\ \A d \in Clients : d # c => local'[d] = local[d]
        /\ local'[c].path = local[c].path /\ local'[c].target = local[c].target
        /\ local'[c].value = local[c].value /\ local'[c].before = local[c].before
        /\ \/ local'[c].pc = "after" /\ local[c].pc = "before" /\ local[c].before \in blobs'
           \/ local'[c].pc = "row" /\ local[c].pc = "after" /\ local[c].value \in blobs'
    BY <1>1, <1>2 DEF InsertBefore, InsertAfter, At, Local
  <2> QED
    BY <2>1 DEF RowsInv, HandlerInv, RowsHaveTheirBlobs, RevertsAreLinked
<1>3. CASE InsertRow(c)
  <2> DEFINE n == Len(edit) + 1
             r == [path |-> local[c].path, before |-> local[c].before,
                   after |-> local[c].value, reverts |-> local[c].target, revertedBy |-> None]
  <2>1. r \in Row
    BY <1>1 DEF Local, Row
  <2>2. edit' = Append(edit, r) /\ UNCHANGED blobs
    BY <1>3 DEF InsertRow
  <2>3. /\ local[c].pc = "row"
        /\ \A d \in Clients : d # c => local'[d] = local[d]
        /\ \/ local'[c] = Idle
           \/ /\ local'[c].pc = "mark" /\ local'[c].target = local[c].target
              /\ local'[c].path = local[c].path
              /\ local[c].target # None /\ local'[c].row = n
    BY <1>1, <1>3 DEF InsertRow, At, Local
  <2>4. /\ r.path = local[c].path /\ r.before = local[c].before /\ r.after = local[c].value
        /\ r.reverts = local[c].target /\ r.revertedBy = None
    OBVIOUS
  <2> HIDE DEF r
  <2>5. /\ DOMAIN edit' = DOMAIN edit \cup {n} /\ n \notin DOMAIN edit
        /\ \A e \in DOMAIN edit : edit'[e] = edit[e]
        /\ edit'[n] = r
    BY <1>1, <2>1, <2>2, AppendedRow
  <2>6. n > 0 /\ \A e \in DOMAIN edit : e < n /\ e # 0
    BY <1>1
  <2> HIDE DEF n
  <2>7. RowsHaveTheirBlobs'
    BY <2>2, <2>3, <2>4, <2>5 DEF RowsInv, HandlerInv, RowsHaveTheirBlobs
  <2>8. RevertsAreLinked'
    <3>1. ASSUME NEW e \in DOMAIN edit
          PROVE  /\ edit[e].reverts # None =>
                       /\ edit[e].reverts \in DOMAIN edit
                       /\ LET o == edit[e].reverts IN
                          o < e /\ edit[o].path = edit[e].path /\ edit[e].after = edit[o].before
                 /\ edit[e].revertedBy # None =>
                       edit[e].revertedBy \in DOMAIN edit /\ edit[edit[e].revertedBy].reverts = e
      BY <1>1 DEF RowsInv, RevertsAreLinked, Row
    <3>2. local[c].target # None =>
            /\ local[c].target \in DOMAIN edit
            /\ edit[local[c].target].path = r.path /\ r.after = edit[local[c].target].before
      BY <1>1, <2>3, <2>4 DEF RowsInv, HandlerInv
    <3> QED
      BY <2>4, <2>5, <2>6, <3>1, <3>2 DEF RevertsAreLinked
  <2>9. HandlerInv'
    <3>1. \A d \in Clients : local[d].pc = "mark" => local[d].row \in DOMAIN edit
      BY DEF RowsInv, HandlerInv
    <3>2. ASSUME NEW d \in Clients, d # c
          PROVE  local[d].target # None => local[d].target \in DOMAIN edit
      BY TypeFacts
    <3> QED
      BY <1>1, <2>2, <2>3, <2>4, <2>5, <2>6, <3>1, <3>2, IdleType DEF RowsInv, HandlerInv
  <2> QED
    BY <2>7, <2>8, <2>9 DEF RowsInv
<1>4. CASE MarkReverted(c)
  <2>1. /\ local[c].target \in DOMAIN edit /\ local[c].row \in DOMAIN edit
        /\ local[c].row \in Nat /\ edit[local[c].row].reverts = local[c].target
    BY <1>1, <1>4 DEF MarkReverted, At, RowsInv, HandlerInv, Local
  <2>2. /\ UNCHANGED blobs /\ local' = [local EXCEPT ![c] = Idle]
        /\ edit' = [edit EXCEPT ![local[c].target].revertedBy = local[c].row]
    BY <1>4 DEF MarkReverted
  <2>3. /\ DOMAIN edit' = DOMAIN edit
        /\ \A e \in DOMAIN edit :
             /\ edit'[e].path = edit[e].path /\ edit'[e].before = edit[e].before
             /\ edit'[e].after = edit[e].after /\ edit'[e].reverts = edit[e].reverts
             /\ edit'[e].revertedBy = IF e = local[c].target THEN local[c].row
                                                             ELSE edit[e].revertedBy
    BY <1>1, <2>1, <2>2, MarkedRow
  <2>4. RowsHaveTheirBlobs'
    BY <2>2, <2>3 DEF RowsInv, RowsHaveTheirBlobs
  <2>5. RevertsAreLinked'
    <3>1. ASSUME NEW e \in DOMAIN edit, edit[e].reverts # None
          PROVE  edit[e].reverts \in DOMAIN edit
      BY <1>1, <3>1 DEF RowsInv, RevertsAreLinked, Row
    <3> QED
      BY <2>1, <2>3, <3>1 DEF RowsInv, RevertsAreLinked
  <2>6. HandlerInv'
    BY <1>1, <2>2, <2>3, IdleType, TypeFacts DEF RowsInv, HandlerInv
  <2> QED
    BY <2>4, <2>5, <2>6 DEF RowsInv
<1> QED
  BY <1>2, <1>3, <1>4 DEF Record

LEMMA OthersRows ==
  ASSUME TypeOK, RowsInv,
         \/ \E c \in Clients : StoreFails(c)
         \/ \E p \in Paths, v \in Intended : ForeignWrite(p, v)
         \/ Crash
  PROVE  RowsInv'
<1>1. UNCHANGED <<blobs, edit>>
  BY DEF StoreFails, ForeignWrite, Crash, tables
<1>2. local \in [Clients -> Local]
  BY TypeFacts
<1>3. ASSUME NEW c \in Clients, StoreFails(c)
      PROVE  RowsInv'
  <2>1. local' = [local EXCEPT ![c] = AfterError(c)]
    BY <1>3 DEF StoreFails
  <2> QED
    BY <1>1, <2>1, ResentFacts, TypeFacts, HandlersKept DEF RowsInv, HandlerInv
<1>4. ASSUME NEW p \in Paths, NEW v \in Intended, ForeignWrite(p, v)
      PROVE  RowsInv'
  <2>1. \A c \in Clients : local'[c] \in {local[c], [local[c] EXCEPT !.on = "unlinked"]}
                           /\ (local[c].on # "file" => local'[c] = local[c])
    BY <1>4 DEF ForeignWrite
  <2>2. ASSUME NEW c \in Clients
        PROVE  /\ local'[c].pc = local[c].pc /\ local'[c].path = local[c].path
               /\ local'[c].target = local[c].target /\ local'[c].row = local[c].row
               /\ local'[c].value = local[c].value /\ local'[c].before = local[c].before
               /\ local'[c].pc = "idle" => local'[c].on = "none"
    BY <1>2, <2>1 DEF Local, RowsInv, HandlerInv
  <2> QED
    BY <1>1, <2>2, HandlersKept
<1>5. CASE Crash
  <2>1. \A c \in Clients : local'[c] \in {Idle, AfterError(c)}
    BY <1>5 DEF Crash
  <2> QED
    BY <1>1, <2>1, ResentFacts, HandlersKept
<1> QED
  BY <1>3, <1>4, <1>5

LEMMA NextRows ==
  ASSUME TypeOK, RowsInv, [Next]_vars
  PROVE  RowsInv'
<1>1. CASE Next
  BY <1>1, NextCases, CallRows, BeginRows, UnreadRows, WriteRows, RecordRows, OthersRows
<1>2. CASE UNCHANGED vars
  BY <1>2 DEF vars, RowsInv, HandlerInv, RowsHaveTheirBlobs, RevertsAreLinked
<1> QED
  BY <1>1, <1>2

-----------------------------------------------------------------------------
(* A file at most one handler was at work on at a time                     *)

PathOK(p) == Alone(p) /\ (faults = 0 => Kept(p) /\ Told(p))

(* Nothing that PathOK(p) speaks of has changed.                           *)
Apart(p) ==
    /\ InFlight(p)' = InFlight(p)
    /\ \A c \in InFlight(p) : local'[c] = local[c]
    /\ file'[p] = file[p] /\ tmp'[p] = tmp[p]
    /\ DOMAIN edit \subseteq DOMAIN edit'
    /\ \A e \in DOMAIN edit : edit'[e].path = edit[e].path
    /\ \A e \in DOMAIN edit : edit[e].path = p => edit'[e] = edit[e]
    /\ \A e \in DOMAIN edit' \ DOMAIN edit : edit'[e].path # p
    /\ blobs \subseteq blobs'
    /\ p \in touched' <=> p \in touched
    /\ \A v \in Contents : <<p, v, TRUE>> \in replaced' => <<p, v, TRUE>> \in replaced
    /\ faults' = 0 => faults = 0

LEMMA ApartIsKept ==
  ASSUME TypeOK, TypeOK', RowsInv, NEW p \in Paths, PathOK(p), Apart(p)
  PROVE  PathOK(p)'
<1>1. /\ DOMAIN edit = 1 .. Len(edit) /\ DOMAIN edit' = 1 .. Len(edit')
      /\ Len(edit) \in Nat /\ Len(edit') \in Nat
  BY EditType DEF TypeOK
<1>2. \A c \in InFlight(p) :
         local[c].target # None => /\ local[c].target \in DOMAIN edit
                                   /\ edit[local[c].target].path = p
  BY TypeFacts DEF RowsInv, HandlerInv, InFlight
<1>4. Alone(p)'
  BY <1>2 DEF Alone, PathOK, Apart, Read
<1>5. ASSUME faults' = 0 PROVE Kept(p)'
  <2>1. Kept(p)
    BY <1>5 DEF PathOK, Apart
  <2>2. blobs \subseteq blobs' /\ InFlight(p)' = InFlight(p)
    BY DEF Apart
  <2>3. \A c \in InFlight(p) : local'[c] = local[c]
    BY DEF Apart
  <2>4. SUFFICES ASSUME NEW v \in Contents, <<p, v, TRUE>> \in replaced'
                 PROVE  \/ v \in blobs'
                        \/ \E c \in InFlight(p) : local'[c].pc = "before" /\ local'[c].before = v
    BY <2>2 DEF Kept, At
  <2>5. <<p, v, TRUE>> \in replaced
    BY <2>4 DEF Apart
  <2>6. v \in blobs \/ \E c \in InFlight(p) : local[c].pc = "before" /\ local[c].before = v
    BY <2>1, <2>4, <2>5 DEF Kept, At
  <2> QED
    BY <2>2, <2>3, <2>6
<1>6. ASSUME faults' = 0 PROVE Told(p)'
  <2>1. Unrecorded(p)' = Unrecorded(p)
    BY DEF Unrecorded, Apart
  <2>2. \A e \in DOMAIN edit' : NewestOf(p, e)' => e \in DOMAIN edit /\ NewestOf(p, e)
    BY <1>1 DEF NewestOf, Apart
  <2>3. \A c \in Unrecorded(p) : local'[c] = local[c]
    BY DEF Unrecorded, Apart
  <2>4. Told(p)
    BY <1>6 DEF PathOK, Apart
  <2>5. \A e \in DOMAIN edit : NewestOf(p, e) => edit'[e] = edit[e]
    BY DEF NewestOf, Apart
  <2>6. file'[p] = file[p] /\ (p \in touched' <=> p \in touched)
    BY DEF Apart
  <2> QED
    BY <2>1, <2>2, <2>3, <2>4, <2>5, <2>6 DEF Told
<1> QED
  BY <1>4, <1>5, <1>6 DEF PathOK

(* What a handler does with its own file leaves every other file apart.    *)
LEMMA Elsewhere ==
  ASSUME TypeOK, RowsInv, NEW c \in Clients, NEW p \in Paths, local[c].path # p,
         Refused(c) \/ BeginApply(c) \/ BeginRevert(c) \/ Write(c) \/ Record(c) \/ StoreFails(c)
  PROVE  Apart(p)
<1>1. local \in [Clients -> Local] /\ local[c] \in Local /\ local[c].path \in Paths
  BY TypeFacts DEF Local
<1>2. local[c].target \in DOMAIN edit => edit[local[c].target].path # p
  BY <1>1, TypeFacts, EditType DEF RowsInv, HandlerInv, TypeOK
<1>3. ASSUME Refused(c) \/ RenameFails(c) \/ StoreFails(c)
      PROVE  /\ UNCHANGED <<file, tmp, blobs, edit, replaced, touched>>
             /\ local' = [local EXCEPT ![c] = AfterError(c)]
             /\ faults' = 0 => faults = 0
  BY <1>3, DotfileAssumption DEF Refused, RenameFails, StoreFails, tables, history, TypeOK
<1>4. ASSUME BeginApply(c) \/ BeginRevert(c) \/ CreateTmp(c) \/ FillTmp(c) \/ Rename(c)
      PROVE  /\ UNCHANGED <<blobs, edit, faults>>
             /\ local'[c].path # p
             /\ \A d \in Clients : d # c =>
                   /\ local[d].path = p => local'[d] = local[d]
                   /\ local'[d].path = local[d].path
  <2>1. CASE BeginApply(c) \/ BeginRevert(c) \/ CreateTmp(c) \/ FillTmp(c)
    BY <1>1, <2>1 DEF BeginApply, BeginRevert, CreateTmp, FillTmp, tables, Local
  <2>2. CASE Rename(c)
    <3>1. UNCHANGED <<blobs, edit, faults>> /\ local' = AfterRename(c, local[c].path)
      BY <2>2 DEF Rename, tables
    <3>2. local'[c] = [local[c] EXCEPT !.pc = "before", !.on = "none", !.misread = FALSE]
      BY <3>1 DEF AfterRename
    <3>3. ASSUME NEW d \in Clients, d # c
          PROVE  /\ local'[d] \in {local[d], [local[d] EXCEPT !.on = "file"],
                                   [local[d] EXCEPT !.on = "unlinked"]}
                 /\ local[d].path = p => local'[d] = local[d]
      BY <3>1, <3>3 DEF AfterRename
    <3> QED
      BY <1>1, <3>1, <3>2, <3>3 DEF Local
  <2> QED
    BY <1>4, <2>1, <2>2
<1>5. ASSUME BeginApply(c) \/ BeginRevert(c) \/ CreateTmp(c) \/ FillTmp(c) \/ Rename(c)
      PROVE  /\ file'[p] = file[p] /\ tmp'[p] = tmp[p]
             /\ p \in touched' <=> p \in touched
             /\ \A v \in Contents : <<p, v, TRUE>> \in replaced' => <<p, v, TRUE>> \in replaced
  BY <1>1, <1>5 DEF BeginApply, BeginRevert, CreateTmp, FillTmp, Rename, history, TypeOK
<1>6. ASSUME Record(c)
      PROVE  /\ UNCHANGED <<file, tmp, faults, replaced, touched>> /\ blobs \subseteq blobs'
             /\ local'[c] = Idle \/ local'[c].path # p
             /\ \A d \in Clients : d # c => local'[d] = local[d]
  <2>1. /\ UNCHANGED <<file, tmp, faults, replaced, touched>> /\ blobs \subseteq blobs'
    BY <1>6 DEF Record, InsertBefore, InsertAfter, InsertRow, MarkReverted, history
  <2>2. CASE InsertBefore(c) \/ InsertAfter(c) \/ MarkReverted(c)
    BY <1>1, <2>1, <2>2 DEF InsertBefore, InsertAfter, MarkReverted, Local
  <2>3. CASE InsertRow(c)
    <3>1. local' = [local EXCEPT ![c] = IF local[c].target = None
                       THEN Idle
                       ELSE [local[c] EXCEPT !.pc = "mark", !.row = Len(edit) + 1]]
      BY <2>3 DEF InsertRow
    <3> QED
      BY <1>1, <2>1, <3>1 DEF Local
  <2> QED
    BY <1>6, <2>2, <2>3 DEF Record
<1>7. ASSUME Record(c)
      PROVE  /\ DOMAIN edit \subseteq DOMAIN edit'
             /\ \A e \in DOMAIN edit : edit'[e].path = edit[e].path
             /\ \A e \in DOMAIN edit : edit[e].path = p => edit'[e] = edit[e]
             /\ \A e \in DOMAIN edit' \ DOMAIN edit : edit'[e].path # p
  <2>1. CASE InsertBefore(c) \/ InsertAfter(c)
    BY <2>1 DEF InsertBefore, InsertAfter
  <2>2. CASE InsertRow(c)
    <3> DEFINE r == [path |-> local[c].path, before |-> local[c].before,
                     after |-> local[c].value, reverts |-> local[c].target, revertedBy |-> None]
    <3>1. edit' = Append(edit, r) /\ r \in Row /\ r.path # p
      BY <1>1, <2>2 DEF InsertRow, Local, Row
    <3> HIDE DEF r
    <3> QED
      BY <3>1, AppendedRow, TypeFacts
  <2>3. CASE MarkReverted(c)
    <3>1. local[c].target \in DOMAIN edit /\ local[c].row \in Nat
      BY <1>1, <2>3, TypeFacts DEF MarkReverted, At, RowsInv, HandlerInv, Local
    <3>2. edit' = [edit EXCEPT ![local[c].target].revertedBy = local[c].row]
      BY <2>3 DEF MarkReverted
    <3>3. \A e \in DOMAIN edit : e # local[c].target => edit'[e] = edit[e]
      BY <3>2
    <3> QED
      BY <1>2, <3>1, <3>2, <3>3, MarkedRow, TypeFacts
  <2> QED
    BY <1>7, <2>1, <2>2, <2>3 DEF Record
<1>8. CASE Refused(c) \/ RenameFails(c) \/ StoreFails(c)
  <2>1. local'[c].pc = "idle" \/ local'[c].path # p
    BY <1>1, <1>3, <1>8, ResentFacts, IdleType
  <2>2. InFlight(p)' = InFlight(p) /\ \A d \in InFlight(p) : local'[d] = local[d]
    BY <1>1, <1>3, <1>8, <2>1 DEF InFlight, At
  <2> QED
    BY <1>3, <1>8, <2>2 DEF Apart
<1>9. CASE BeginApply(c) \/ BeginRevert(c) \/ CreateTmp(c) \/ FillTmp(c) \/ Rename(c)
  <2>1. InFlight(p)' = InFlight(p) /\ \A d \in InFlight(p) : local'[d] = local[d]
    BY <1>1, <1>4, <1>9 DEF InFlight, At
  <2> QED
    BY <1>4, <1>5, <1>9, <2>1 DEF Apart
<1>10. CASE Record(c)
  <2>1. InFlight(p)' = InFlight(p) /\ \A d \in InFlight(p) : local'[d] = local[d]
    BY <1>1, <1>6, <1>10, IdleType DEF InFlight, At
  <2> QED
    BY <1>6, <1>7, <1>10, <2>1 DEF Apart
<1> QED
  BY <1>8, <1>9, <1>10 DEF Write

LEMMA UnreadElsewhere ==
  ASSUME TypeOK, NEW c \in Clients, NEW p \in Paths, local[c].path # p, BeginUnread(c)
  PROVE  Apart(p)
<1>1. InFlight(p)' = InFlight(p) /\ \A d \in InFlight(p) : local'[d] = local[d]
  BY UnreadFacts DEF InFlight, At
<1> QED
  BY <1>1, UnreadFacts DEF Apart

(* The handler c at work on a file that it is alone with, before it acts.  *)
LEMMA AloneFacts ==
  ASSUME TypeOK, RowsInv, NEW c \in Clients, NEW p \in Paths, PathOK(p),
         local[c].path = p, local[c].pc # "idle"
  PROVE  /\ local[c] \in Local /\ InFlight(p) = {c}
         /\ \A d \in Clients : d # c => local[d].pc = "idle" \/ local[d].path # p
         /\ file[p] \notin {Torn, Mixed}
         /\ \A e \in DOMAIN edit : edit[e].path = p => edit[e].before \notin {Torn, Mixed}
         /\ local[c].value \notin {Torn, Mixed} /\ local[c].before \notin {Torn, Mixed}
         /\ local[c].on = IF local[c].pc \in {"fill", "rename"} THEN "tmp" ELSE "none"
         /\ local[c].pc = "fill" => tmp[p] = Torn
         /\ local[c].pc = "rename" => tmp[p] = local[c].value
         /\ local[c].pc \in {"create", "fill", "rename"} /\ ~local[c].misread =>
              local[c].before = Read(p)
         /\ local[c].target # None =>
              local[c].target \in DOMAIN edit /\ edit[local[c].target].path = p
<1>1. c \in InFlight(p)
  BY DEF InFlight, At
<1>2. local[c].target # None => local[c].target \in DOMAIN edit /\ edit[local[c].target].path = p
  BY TypeFacts DEF RowsInv, HandlerInv
<1>3. InFlight(p) = {c}
  BY <1>1 DEF PathOK, Alone
<1>4. local[c] \in Local
  BY TypeFacts
<1>5. \A d \in Clients : d # c => local[d].pc = "idle" \/ local[d].path # p
  BY <1>3 DEF InFlight, At
<1> QED
  BY <1>1, <1>2, <1>3, <1>4, <1>5 DEF PathOK, Alone

(* ... and after it: it is alone still, or done.                           *)
LEMMA StillAlone ==
  ASSUME TypeOK, NEW c \in Clients, NEW p \in Paths, InFlight(p) \subseteq {c},
         \A d \in Clients : d # c => local'[d].pc = local[d].pc /\ local'[d].path = local[d].path,
         local'[c].pc = "idle" \/ local'[c].path = p
  PROVE  InFlight(p)' = IF local'[c].pc = "idle" THEN {} ELSE {c}
BY DEF InFlight, At

LEMMA BeginAlone ==
  ASSUME TypeOK, RowsInv, NEW c \in Clients, NEW p \in Paths, PathOK(p),
         local[c].path = p, Refused(c) \/ BeginApply(c) \/ BeginRevert(c)
  PROVE  PathOK(p)'
<1>1. local[c].pc = "begin"
  BY DEF Refused, BeginApply, BeginRevert, At
<1>2. /\ UNCHANGED <<file, tmp, blobs, edit, faults, replaced, met, touched>>
      /\ \A d \in Clients : d # c => local'[d] = local[d]
  BY TypeFacts DEF Refused, BeginApply, BeginRevert, tables, history
<1>3. /\ local[c] \in Local /\ InFlight(p) = {c} /\ file[p] \notin {Torn, Mixed}
      /\ \A e \in DOMAIN edit : edit[e].path = p => edit[e].before \notin {Torn, Mixed}
      /\ local[c].value \notin {Torn, Mixed} /\ local[c].before \notin {Torn, Mixed}
      /\ local[c].on = "none"
      /\ local[c].target # None => local[c].target \in DOMAIN edit /\ edit[local[c].target].path = p
  BY <1>1, AloneFacts
<1>4. Empty \notin {Torn, Mixed} /\ Read(p) \notin {Torn, Mixed}
  BY <1>3, DotfileAssumption DEF Read
<1>5. CASE Refused(c)
  <2>1. local'[c] = Idle
          \/ /\ local'[c].pc = "begin" /\ local'[c].path = p /\ local'[c].on = "none"
             /\ local'[c].value = local[c].value /\ local'[c].before = Empty
    BY <1>3, <1>5, TypeFacts DEF Refused, AfterError, Resend, Local
  <2>2. InFlight(p)' = IF local'[c].pc = "idle" THEN {} ELSE {c}
    BY <1>2, <1>3, <2>1, IdleType, StillAlone
  <2>3. local'[c].pc \in {"idle", "begin"}
    BY <2>1, IdleType
  <2>4. Alone(p)'
    BY <1>2, <1>3, <1>4, <2>1, <2>2, <2>3, IdleType DEF Alone
  <2>5. faults' = 0 => Kept(p)'
    BY <1>1, <1>2, <1>3 DEF PathOK, Kept, At
  <2>6. Unrecorded(p) = {} /\ Unrecorded(p)' = {}
    BY <1>1, <1>3, <2>2, <2>3 DEF Unrecorded
  <2>7. faults' = 0 => Told(p)'
    BY <1>2, <2>6 DEF PathOK, Told, NewestOf
  <2> QED
    BY <2>4, <2>5, <2>7 DEF PathOK
<1>6. CASE BeginApply(c) \/ BeginRevert(c)
  <2>1. /\ local'[c].pc = "create" /\ local'[c].path = p /\ local'[c].on = "none"
        /\ local'[c].target = local[c].target /\ local'[c].before = Read(p)
        /\ local'[c].target # None =>
             local'[c].value = edit[local'[c].target].before
        /\ local'[c].target = None => local'[c].value = local[c].value
    BY <1>3, <1>6, TypeFacts DEF BeginApply, BeginRevert, Local
  <2>2. InFlight(p)' = {c}
    BY <1>2, <1>3, <2>1, StillAlone
  <2>3. local'[c].value \notin {Torn, Mixed}
    BY <1>3, <2>1
  <2> QED
    BY <1>1, <1>2, <1>3, <1>4, <2>1, <2>2, <2>3
       DEF PathOK, Alone, Kept, Told, Unrecorded, NewestOf, At, Read
<1> QED
  BY <1>5, <1>6

LEMMA UnreadAlone ==
  ASSUME TypeOK, RowsInv, NEW c \in Clients, NEW p \in Paths, PathOK(p),
         local[c].path = p, BeginUnread(c)
  PROVE  PathOK(p)'
<1>1. /\ UNCHANGED <<file, tmp, blobs, edit, faults, replaced, touched>>
      /\ \A d \in Clients : d # c => local'[d] = local[d]
      /\ local[c].pc = "begin" /\ local'[c].pc = "create" /\ local'[c].misread
      /\ local'[c].path = p /\ local'[c].target = local[c].target
      /\ local'[c].on = local[c].on /\ local'[c].before = local[c].before
      /\ local'[c].value = IF local[c].target = None THEN local[c].value
                                                     ELSE edit[local[c].target].before
  BY UnreadFacts
<1>2. /\ InFlight(p) = {c} /\ file[p] \notin {Torn, Mixed}
      /\ \A e \in DOMAIN edit : edit[e].path = p => edit[e].before \notin {Torn, Mixed}
      /\ local[c].value \notin {Torn, Mixed} /\ local[c].before \notin {Torn, Mixed}
      /\ local[c].on = "none"
      /\ local[c].target # None => local[c].target \in DOMAIN edit /\ edit[local[c].target].path = p
  BY <1>1, AloneFacts
<1>3. InFlight(p)' = {c}
  BY <1>1, <1>2, StillAlone
<1>4. local'[c].value \notin {Torn, Mixed}
  BY <1>1, <1>2
<1>5. Alone(p)'
  BY <1>1, <1>2, <1>3, <1>4 DEF Alone
<1> QED
  BY <1>1, <1>2, <1>3, <1>5 DEF PathOK, Kept, Told, Unrecorded, NewestOf, At

LEMMA WriteAlone ==
  ASSUME TypeOK, RowsInv, NEW c \in Clients, NEW p \in Paths, p \notin met, PathOK(p),
         local[c].path = p, Write(c)
  PROVE  PathOK(p)'
<1>1. local[c].pc \in {"create", "fill", "rename"}
  BY DEF Write, CreateTmp, FillTmp, Rename, RenameFails, At
<1>2. /\ local[c] \in Local /\ InFlight(p) = {c} /\ file[p] \notin {Torn, Mixed}
      /\ \A d \in Clients : d # c => local[d].pc = "idle" \/ local[d].path # p
      /\ \A e \in DOMAIN edit : edit[e].path = p => edit[e].before \notin {Torn, Mixed}
      /\ local[c].value \notin {Torn, Mixed} /\ local[c].before \notin {Torn, Mixed}
      /\ local[c].on = IF local[c].pc \in {"fill", "rename"} THEN "tmp" ELSE "none"
      /\ local[c].pc = "fill" => tmp[p] = Torn
      /\ local[c].pc = "rename" => tmp[p] = local[c].value
      /\ ~local[c].misread => local[c].before = Read(p)
  BY <1>1, AloneFacts
<1>3. CASE CreateTmp(c) \/ FillTmp(c)
  <2>1. /\ UNCHANGED <<blobs, edit, faults, replaced, touched>>
        /\ \A d \in Clients : d # c => local'[d] = local[d]
        /\ local'[c].path = p /\ local'[c].value = local[c].value
        /\ local'[c].before = local[c].before /\ local'[c].target = local[c].target
        /\ local'[c].on = "tmp" /\ local'[c].misread = local[c].misread
        /\ \/ local'[c].pc = "fill" /\ tmp'[p] = Torn /\ file' = file
           \/ local'[c].pc = "rename" /\ tmp'[p] = local[c].value /\ file' = file
    <3>1. CASE CreateTmp(c)
      BY <1>2, <3>1, TypeFacts DEF CreateTmp, tables, history, Local, TypeOK
    <3>2. CASE FillTmp(c)
      <4>1. local[c].on = "tmp" /\ tmp[p] = Torn
        BY <1>2, <3>2 DEF FillTmp, At
      <4>2. tmp' = [tmp EXCEPT ![p] = local[c].value] /\ file' = file
        BY <3>2, <4>1 DEF FillTmp, WrittenOver
      <4> QED
        BY <1>2, <3>2, <4>1, <4>2, TypeFacts DEF FillTmp, tables, history, Local, TypeOK
    <3> QED
      BY <1>3, <3>1, <3>2
  <2>2. InFlight(p)' = {c}
    BY <1>2, <2>1, StillAlone
  <2>3. Read(p)' = Read(p)
    BY <2>1 DEF Read
  <2>4. Alone(p)'
    BY <1>1, <1>2, <2>1, <2>2, <2>3 DEF Alone
  <2>5. faults' = 0 => Kept(p)'
    BY <1>1, <1>2, <2>1 DEF PathOK, Kept, At
  <2>6. Unrecorded(p) = {} /\ Unrecorded(p)' = {}
    BY <1>1, <1>2, <2>1, <2>2 DEF Unrecorded
  <2>7. faults' = 0 => Told(p)'
    BY <2>1, <2>6 DEF PathOK, Told, NewestOf
  <2> QED
    BY <2>4, <2>5, <2>7 DEF PathOK
<1>4. CASE Rename(c)
  <2>1. /\ UNCHANGED <<blobs, edit, faults>>
        /\ file'[p] = local[c].value /\ tmp[p] = local[c].value
        /\ p \notin touched'
        /\ \A v \in Contents : <<p, v, TRUE>> \in replaced' =>
             <<p, v, TRUE>> \in replaced \/ (v = file[p] /\ ~local[c].misread)
    BY <1>2, <1>4 DEF Rename, At, tables, TypeOK
  <2>2. local' = AfterRename(c, p)
    BY <1>4 DEF Rename
  <2>3. local'[c].path = p /\ local'[c].pc = "before" /\ local'[c].on = "none"
        /\ local'[c].value = local[c].value /\ local'[c].before = local[c].before
        /\ local'[c].target = local[c].target
    BY <1>2, <2>2 DEF AfterRename, Local
  <2>4. \A d \in Clients : d # c => local'[d].pc = local[d].pc /\ local'[d].path = local[d].path
    <3> TAKE d \in Clients
    <3>1. d # c => local'[d] \in {local[d], [local[d] EXCEPT !.on = "file"],
                                  [local[d] EXCEPT !.on = "unlinked"]}
      BY <2>2 DEF AfterRename
    <3> QED
      BY <3>1, TypeFacts DEF Local
  <2>5. InFlight(p)' = {c}
    BY <1>2, <2>3, <2>4, StillAlone
  <2>6. \A v \in Contents : v = file[p] /\ ~local[c].misread => v = local[c].before
    BY <1>2, DotfileAssumption DEF Read
  <2>7. Alone(p)'
    BY <1>2, <2>1, <2>3, <2>5 DEF PathOK, Alone
  <2>8. faults' = 0 => Kept(p)'
    BY <1>1, <1>2, <2>1, <2>3, <2>5, <2>6 DEF PathOK, Kept, At
  <2>9. faults' = 0 => Told(p)'
    BY <2>1, <2>3, <2>5 DEF Told, Unrecorded
  <2> QED
    BY <2>7, <2>8, <2>9 DEF PathOK
<1>5. CASE RenameFails(c)
  BY <1>2, <1>5, DotfileAssumption DEF RenameFails, At, Local
<1> QED
  BY <1>3, <1>4, <1>5 DEF Write

LEMMA RecordAlone ==
  ASSUME TypeOK, RowsInv, NEW c \in Clients, NEW p \in Paths, PathOK(p),
         local[c].path = p, Record(c)
  PROVE  PathOK(p)'
<1>1. local[c].pc \in {"before", "after", "row", "mark"}
  BY DEF Record, InsertBefore, InsertAfter, InsertRow, MarkReverted, At
<1>2. /\ local[c] \in Local /\ InFlight(p) = {c} /\ file[p] \notin {Torn, Mixed}
      /\ \A e \in DOMAIN edit : edit[e].path = p => edit[e].before \notin {Torn, Mixed}
      /\ local[c].value \notin {Torn, Mixed} /\ local[c].before \notin {Torn, Mixed}
      /\ local[c].on = "none"
      /\ local[c].target # None =>
           local[c].target \in DOMAIN edit /\ edit[local[c].target].path = p
  BY <1>1, AloneFacts
<1>3. UNCHANGED <<file, tmp, faults, replaced, touched>>
  BY DEF Record, InsertBefore, InsertAfter, InsertRow, MarkReverted, history
<1>4. local \in [Clients -> Local]
  BY TypeFacts
<1>5. CASE InsertBefore(c) \/ InsertAfter(c)
  <2>1. /\ UNCHANGED edit /\ blobs \subseteq blobs'
        /\ \A d \in Clients : d # c => local'[d] = local[d]
        /\ local'[c].path = p /\ local'[c].target = local[c].target
        /\ local'[c].value = local[c].value /\ local'[c].before = local[c].before
        /\ local'[c].on = "none"
        /\ \/ local[c].pc = "before" /\ local'[c].pc = "after" /\ local[c].before \in blobs'
           \/ local[c].pc = "after" /\ local'[c].pc = "row"
    BY <1>2, <1>4, <1>5 DEF InsertBefore, InsertAfter, At, Local
  <2>2. InFlight(p)' = {c}
    BY <1>2, <2>1, StillAlone
  <2>3. Alone(p)'
    BY <1>1, <1>2, <1>3, <2>1, <2>2 DEF PathOK, Alone
  <2>4. faults' = 0 => Kept(p)'
    BY <1>2, <1>3, <2>1 DEF PathOK, Kept, At
  <2>5. faults' = 0 => Told(p)'
    BY <1>1, <1>2, <1>3, <2>1, <2>2 DEF PathOK, Told, Unrecorded
  <2> QED
    BY <2>3, <2>4, <2>5 DEF PathOK
<1>6. CASE InsertRow(c)
  <2> DEFINE n == Len(edit) + 1
             r == [path |-> local[c].path, before |-> local[c].before,
                   after |-> local[c].value, reverts |-> local[c].target, revertedBy |-> None]
  <2>1. r \in Row
    BY <1>2 DEF Local, Row
  <2>2. edit' = Append(edit, r) /\ UNCHANGED blobs /\ local[c].pc = "row"
    BY <1>6 DEF InsertRow, At
  <2>3. /\ r.path = p /\ r.before = local[c].before /\ r.after = local[c].value
        /\ r.reverts = local[c].target
    OBVIOUS
  <2> HIDE DEF r
  <2>4. /\ DOMAIN edit' = DOMAIN edit \cup {n} /\ n \notin DOMAIN edit /\ n # None
        /\ \A e \in DOMAIN edit : edit'[e] = edit[e] /\ e < n
        /\ edit'[n] = r /\ Len(edit') = n /\ n \in Nat
    BY <2>1, <2>2, AppendedRow, TypeFacts
  <2> HIDE DEF n
  <2>5. /\ \A d \in Clients : d # c => local'[d] = local[d]
        /\ \/ local'[c] = Idle /\ local[c].target = None
           \/ /\ local'[c].pc = "mark" /\ local'[c].path = p /\ local'[c].on = "none"
              /\ local'[c].target = local[c].target
              /\ local'[c].value = local[c].value /\ local'[c].before = local[c].before
    <3>1. local' = [local EXCEPT ![c] = IF local[c].target = None
                       THEN Idle
                       ELSE [local[c] EXCEPT !.pc = "mark", !.row = Len(edit) + 1]]
      BY <1>6 DEF InsertRow
    <3> QED
      BY <1>2, <1>4, <3>1 DEF Local
  <2>6. InFlight(p)' = IF local'[c].pc = "idle" THEN {} ELSE {c}
    BY <1>2, <2>5, IdleType, StillAlone
  <2>7. local'[c].pc \in {"idle", "mark"}
    BY <2>5, IdleType
  <2>8. Alone(p)'
    BY <1>2, <1>3, <2>3, <2>4, <2>5, <2>6, <2>7, IdleType DEF Alone
  <2>9. ASSUME faults' = 0 PROVE Kept(p)'
    BY <1>2, <1>3, <2>2, <2>9 DEF PathOK, Kept, At
  <2>10. ASSUME faults' = 0 PROVE Told(p)'
    <3>1. Unrecorded(p)' = {}
      BY <2>6, <2>7 DEF Unrecorded
    <3>2. \A e \in DOMAIN edit' : NewestOf(p, e)' => e = n
      BY <2>3, <2>4, TypeFacts DEF NewestOf
    <3>3. p \notin touched => file[p] = local[c].value
      BY <1>2, <1>3, <2>2, <2>10 DEF PathOK, Told, Unrecorded
    <3> QED
      BY <1>3, <2>3, <2>4, <3>1, <3>2, <3>3 DEF Told
  <2> QED
    BY <2>8, <2>9, <2>10 DEF PathOK
<1>7. CASE MarkReverted(c)
  <2>1. /\ local[c].pc = "mark" /\ UNCHANGED blobs /\ local' = [local EXCEPT ![c] = Idle]
        /\ edit' = [edit EXCEPT ![local[c].target].revertedBy = local[c].row]
    BY <1>7 DEF MarkReverted, At
  <2>2. /\ local[c].target \in DOMAIN edit /\ local[c].row \in Nat /\ local[c].row # None
    <3>1. local[c].target \in DOMAIN edit /\ local[c].row \in DOMAIN edit
      BY <1>2, <2>1 DEF RowsInv, HandlerInv
    <3> QED
      BY <1>2, <3>1, TypeFacts DEF Local
  <2>3. /\ DOMAIN edit' = DOMAIN edit /\ Len(edit') = Len(edit)
        /\ \A e \in DOMAIN edit :
             /\ edit'[e].path = edit[e].path /\ edit'[e].before = edit[e].before
             /\ edit'[e].after = edit[e].after /\ edit'[e].reverts = edit[e].reverts
             /\ edit'[e].revertedBy = IF e = local[c].target THEN local[c].row
                                                             ELSE edit[e].revertedBy
    BY <2>1, <2>2, MarkedRow, TypeFacts
  <2>4. /\ \A d \in Clients : d # c => local'[d] = local[d]
        /\ local'[c] = Idle
    BY <1>4, <2>1
  <2>5. InFlight(p)' = {}
    BY <1>2, <2>4, IdleType, StillAlone
  <2>6. Alone(p)'
    BY <1>2, <1>3, <2>3, <2>5 DEF Alone
  <2>7. faults' = 0 => Kept(p)'
    BY <1>2, <1>3, <2>1 DEF PathOK, Kept, At
  <2>8. ASSUME faults' = 0 PROVE Told(p)'
    <3>1. Unrecorded(p) = {} /\ Unrecorded(p)' = {}
      BY <1>2, <2>1, <2>5 DEF Unrecorded
    <3>2. \A e \in DOMAIN edit : NewestOf(p, e)' => NewestOf(p, e)
      <4>1. \A e \in DOMAIN edit : \A f \in e + 1 .. Len(edit) : f \in DOMAIN edit
        BY TypeFacts
      <4> QED
        BY <2>3, <4>1 DEF NewestOf
    <3> QED
      BY <1>3, <2>3, <2>8, <3>1, <3>2 DEF PathOK, Told
  <2> QED
    BY <2>6, <2>7, <2>8 DEF PathOK
<1> QED
  BY <1>5, <1>6, <1>7 DEF Record

LEMMA CallAlone ==
  ASSUME TypeOK, TypeOK', RowsInv, NEW c \in Clients, NEW p \in Paths, p \notin met', PathOK(p),
         \/ \E q \in Paths, v \in Intended : CallApply(c, q, v)
         \/ \E e \in DOMAIN edit : CallRevert(c, e)
  PROVE  PathOK(p)'
<1>1. /\ UNCHANGED <<file, tmp, blobs, edit, faults, replaced, touched>>
      /\ local[c].pc = "idle" /\ \A d \in Clients : d # c => local'[d] = local[d]
      /\ local'[c].pc = "begin" /\ local'[c].on = "none"
      /\ local'[c].value \in Intended \cup {Empty} /\ local'[c].before = Empty
      /\ met' = IF InFlight(local'[c].path) = {} THEN met ELSE met \cup {local'[c].path}
  BY CallFacts, TypeFacts
<1>2. CASE local'[c].path # p
  <2>1. InFlight(p)' = InFlight(p) /\ \A d \in InFlight(p) : local'[d] = local[d]
    BY <1>1, <1>2 DEF InFlight, At
  <2>2. Apart(p)
    BY <1>1, <2>1 DEF Apart
  <2> QED
    BY <2>2, ApartIsKept
<1>3. CASE local'[c].path = p
  <2>1. InFlight(p) = {}
    BY <1>1, <1>3
  <2>2. InFlight(p)' = {c}
    BY <1>1, <1>3, <2>1, StillAlone
  <2>3. local'[c].value \notin {Torn, Mixed} /\ local'[c].before \notin {Torn, Mixed}
    BY <1>1, DotfileAssumption DEF Intended
  <2> QED
    BY <1>1, <2>1, <2>2, <2>3
       DEF PathOK, Alone, Kept, Told, Unrecorded, NewestOf, At
<1> QED
  BY <1>2, <1>3

(* After a fault the handler of a file is gone, or begins again, and       *)
(* nothing is promised any more but that the file is whole.                *)
LEMMA FaultAlone ==
  ASSUME TypeOK, NEW p \in Paths, PathOK(p), UNCHANGED <<file, edit>>, faults' # 0,
         \A c \in Clients : \/ local'[c] = Idle
                            \/ local'[c] = local[c]
                            \/ local'[c] = AfterError(c) /\ local[c].pc # "idle"
  PROVE  UNCHANGED tmp \/ (\A c \in Clients : local'[c].pc \in {"idle", "begin"}) => PathOK(p)'
<1> SUFFICES ASSUME UNCHANGED tmp \/ (\A c \in Clients : local'[c].pc \in {"idle", "begin"})
             PROVE  Alone(p)'
  BY DEF PathOK
<1>1. \A c \in Clients :
         \/ local'[c] = Idle
         \/ local'[c] = local[c]
         \/ /\ local'[c].pc = "begin" /\ local'[c].path = local[c].path /\ local'[c].on = "none"
            /\ local'[c].value = local[c].value /\ local'[c].before = Empty
            /\ local'[c].target = local[c].target /\ local[c].pc # "idle"
  <2> TAKE c \in Clients
  <2>1. local[c] \in Local
    BY TypeFacts
  <2>2. /\ Resend(c).pc = "begin" /\ Resend(c).path = local[c].path /\ Resend(c).on = "none"
        /\ Resend(c).value = local[c].value /\ Resend(c).before = Empty
        /\ Resend(c).target = local[c].target
    BY <2>1 DEF Resend, Local
  <2> QED
    BY <2>2 DEF AfterError
<1>2. InFlight(p)' \subseteq InFlight(p)
  BY <1>1, IdleType DEF InFlight, At
<1>3. Empty \notin {Torn, Mixed} /\ Read(p)' = Read(p)
  BY DotfileAssumption DEF Read
<1> QED
  BY <1>1, <1>2, <1>3, IdleType DEF PathOK, Alone, InFlight, At

LEMMA OthersAlone ==
  ASSUME TypeOK, TypeOK', RowsInv, NEW p \in Paths, p \notin met', PathOK(p),
         \/ \E c \in Clients : StoreFails(c)
         \/ \E q \in Paths, v \in Intended : ForeignWrite(q, v)
         \/ Crash
  PROVE  PathOK(p)'
<1>1. ASSUME NEW c \in Clients, StoreFails(c)
      PROVE  PathOK(p)'
  <2>1. /\ UNCHANGED <<file, tmp, edit>> /\ faults' # 0 /\ local[c].pc # "idle"
        /\ local' = [local EXCEPT ![c] = AfterError(c)]
    BY <1>1, DotfileAssumption DEF StoreFails, tables, TypeOK
  <2> QED
    BY <2>1, FaultAlone, TypeFacts
<1>2. ASSUME NEW q \in Paths, NEW v \in Intended, ForeignWrite(q, v)
      PROVE  PathOK(p)'
  <2>1. /\ UNCHANGED <<tmp, blobs, edit, faults, replaced>>
        /\ file' = [file EXCEPT ![q] = v] /\ v \notin {Torn, Mixed}
        /\ touched' = touched \cup {q}
        /\ InFlight(q) # {} => q \in met'
        /\ \A c \in Clients : local'[c] = IF local[c].on = "file" /\ local[c].path = q
                                            THEN [local[c] EXCEPT !.on = "unlinked"]
                                            ELSE local[c]
    BY <1>2 DEF ForeignWrite, tables, Intended
  <2>2. \A c \in Clients : local'[c].pc = local[c].pc /\ local'[c].path = local[c].path
    BY <2>1, TypeFacts DEF Local
  <2>3. InFlight(p)' = InFlight(p)
    BY <2>2 DEF InFlight, At
  <2>4. CASE q # p
    <3>1. \A c \in InFlight(p) : local'[c] = local[c]
      BY <2>1, <2>4 DEF InFlight
    <3>2. Apart(p)
      BY <2>1, <2>3, <2>4, <3>1 DEF Apart, TypeOK
    <3> QED
      BY <3>2, ApartIsKept
  <2>5. CASE q = p
    <3>1. InFlight(p) = {} /\ file'[p] \notin {Torn, Mixed} /\ p \in touched'
      BY <2>1, <2>5 DEF TypeOK
    <3> QED
      BY <2>1, <2>3, <3>1
         DEF PathOK, Alone, Kept, Told
  <2> QED
    BY <2>4, <2>5
<1>3. CASE Crash
  <2>1. /\ UNCHANGED <<file, edit>> /\ faults' # 0
        /\ \A c \in Clients : local'[c] = Idle \/ (local'[c] = AfterError(c) /\ local[c].pc # "idle")
    BY <1>3, DotfileAssumption DEF Crash, tables, TypeOK, At
  <2>2. \A c \in Clients : AfterError(c).pc \in {"idle", "begin"}
    BY ResentFacts, IdleType
  <2>3. \A c \in Clients : local'[c].pc \in {"idle", "begin"}
    BY <2>1, <2>2, IdleType
  <2> QED
    BY <2>1, <2>3, FaultAlone
<1> QED
  BY <1>1, <1>2, <1>3

LEMMA NextPaths ==
  ASSUME TypeOK, TypeOK', RowsInv, PathInv, [Next]_vars
  PROVE  PathInv'
<1> SUFFICES ASSUME NEW p \in Paths, p \notin met' PROVE PathOK(p)'
  BY DEF PathInv, PathOK
<1>1. p \notin met
  BY NextCases DEF CallApply, CallRevert, Call, Refused, BeginApply, BeginRevert, Write, CreateTmp,
     FillTmp, Rename, RenameFails, Record, InsertBefore, InsertAfter, InsertRow, MarkReverted,
     StoreFails, ForeignWrite, Crash, BeginUnread, history, vars
<1>2. PathOK(p)
  BY <1>1 DEF PathInv, PathOK
<1>3. ASSUME NEW c \in Clients,
             Refused(c) \/ BeginApply(c) \/ BeginRevert(c) \/ Write(c) \/ Record(c)
      PROVE  PathOK(p)'
  <2>1. CASE local[c].path # p
    BY <1>2, <1>3, <2>1, Elsewhere, ApartIsKept
  <2>2. CASE local[c].path = p
    BY <1>1, <1>2, <1>3, <2>2, BeginAlone, WriteAlone, RecordAlone
  <2> QED
    BY <2>1, <2>2
<1>4. ASSUME NEW c \in Clients, BeginUnread(c)
      PROVE  PathOK(p)'
  BY <1>2, <1>4, UnreadElsewhere, ApartIsKept, UnreadAlone
<1>5. CASE Next
  BY <1>2, <1>3, <1>4, <1>5, NextCases, CallAlone, OthersAlone
<1>6. CASE UNCHANGED vars
  BY <1>2, <1>6 DEF vars, history, PathOK, Alone, Kept, Told, Unrecorded, NewestOf,
     InFlight, At, Read
<1> QED
  BY <1>5, <1>6

-----------------------------------------------------------------------------
(* The theorems                                                            *)

LEMMA InitInv == Init => Inv
<1> SUFFICES ASSUME Init PROVE Inv
  OBVIOUS
<1>1. /\ \A c \in Clients : local[c] = Idle
      /\ DOMAIN edit = {} /\ replaced = {}
      /\ \A p \in Paths : file[p] \notin {Torn, Mixed}
  BY DotfileAssumption DEF Init, Intended
<1>2. HandlerInv /\ RowsHaveTheirBlobs /\ RevertsAreLinked
  BY <1>1, IdleType DEF HandlerInv, RowsHaveTheirBlobs, RevertsAreLinked
<1>3. \A p \in Paths : InFlight(p) = {}
  BY <1>1, IdleType DEF InFlight, At
<1>4. PathInv
  BY <1>1, <1>3 DEF PathInv, Alone, Kept, Told, Unrecorded
<1> QED
  BY <1>2, <1>4, InitType DEF Inv

LEMMA NextInv == Inv /\ [Next]_vars => Inv'
<1> SUFFICES ASSUME Inv, [Next]_vars PROVE Inv'
  OBVIOUS
<1>1. TypeOK'
  BY NextType DEF Inv
<1>2. RowsInv'
  BY NextRows DEF Inv, RowsInv
<1>3. PathInv'
  BY <1>1, NextPaths DEF Inv, RowsInv
<1> QED
  BY <1>1, <1>2, <1>3 DEF Inv, RowsInv

THEOREM Invariant == Spec => []Inv
<1> QED
  BY InitInv, NextInv, PTL DEF Spec

(* What the feed shows as applied can be shown and reverted, whatever      *)
(* fails: the contents of every row are in the blobs table.                *)
THEOREM BlobsAreThere == Spec => []RowsHaveTheirBlobs
<1>1. Inv => RowsHaveTheirBlobs
  BY DEF Inv
<1> QED
  BY <1>1, Invariant, PTL

(* A revert restores what its row had replaced, and marks are mutual.      *)
THEOREM LinkedReverts == Spec => []RevertsAreLinked
<1>1. Inv => RevertsAreLinked
  BY DEF Inv
<1> QED
  BY <1>1, Invariant, PTL

(* A file with one writer at a time is whole, wherever the daemon crashes. *)
THEOREM AtomicWhenAlone == Spec => []LoneWritesAreAtomic
<1>1. Inv => LoneWritesAreAtomic
  BY DEF Inv, PathInv, Alone, LoneWritesAreAtomic
<1> QED
  BY <1>1, Invariant, PTL

(* The newest row of a file says what the file holds.                      *)
THEOREM FeedIsTrue == Spec => []FeedMatchesFile
<1>1. ASSUME Inv PROVE FeedMatchesFile
  <2> SUFFICES ASSUME faults = 0, NEW p \in Paths \ (met \cup touched), NEW e \in DOMAIN edit,
                      InFlight(p) = {}, edit[e].path = p,
                      \A f \in e + 1 .. Len(edit) : edit[f].path # p
               PROVE  file[p] = edit[e].after
    BY DEF FeedMatchesFile
  <2>1. Told(p)
    BY <1>1 DEF Inv, PathInv
  <2> QED
    BY <2>1 DEF Told, Unrecorded, NewestOf
<1> QED
  BY <1>1, Invariant, PTL

(* What the daemon has read and overwritten is in the blobs table.         *)
THEOREM NothingIsLost == Spec => []ReplacedIsKept
<1>1. Inv => ReplacedIsKept
  BY DEF Inv, PathInv, Kept, ReplacedIsKept
<1> QED
  BY <1>1, Invariant, PTL
=============================================================================
