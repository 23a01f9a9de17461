--------------------------- MODULE Sessions_proofs ---------------------------
(***************************************************************************)
(* Proofs about Sessions, for any projects, callers, gap and delay.        *)
(*                                                                         *)
(* The clock decides: a session is given up after a gap without activity,  *)
(* and a caller writes within MaxDelay of its event, so no session is      *)
(* given up while a Touch or the Open of it is on its way.  Hence what is  *)
(* on its way is about the session in memory, and a Close about one that   *)
(* nobody writes any more.                                                 *)
(***************************************************************************)
EXTENDS Sessions, TLAPS

Held(s) == \E p \in Projects : open[p].id = s

\* A caller between its event and its last write has only MaxDelay for it.
InTime ==
    /\ \A c \in Callers : local[c].since <= now
    /\ \A c \in Callers : local[c].pc # "idle" => now <= local[c].since + MaxDelay
    /\ \A c \in Callers : local[c].pc # "write" => local[c].close = {} /\ local[c].then = "none"

\* An Open or a Touch on its way is about the session in memory.
PendingIsHeld ==
    \A c \in Callers : local[c].then # "none" =>
        LET p == local[c].project IN
        /\ local[c].entry.id # NoSession
        /\ local[c].entry.at = local[c].since
        /\ open[p].id = local[c].entry.id
        /\ local[c].entry.at <= open[p].at + MaxDelay

\* Each session is opened by one caller, and has no row before.
OpensOnce ==
    /\ \A s \in Rows : s \in used
    /\ \A c \in Callers : local[c].then = "open" => local[c].entry.id \notin Rows
    /\ \A c, d \in Callers :
          local[c].then = "open" /\ local[d].then = "open"
            /\ local[c].entry.id = local[d].entry.id => c = d

\* The session in memory has an open row, or its Open is on its way, or was lost.
HeldIsOpen ==
    \A p \in Projects : open[p].id # NoSession =>
        /\ open[p].id \in used
        /\ \/ row[open[p].id].state = "open" /\ row[open[p].id].project = p
           \/ \E c \in Callers : /\ local[c].then = "open" /\ local[c].project = p
                                 /\ local[c].entry.id = open[p].id
           \/ open[p].id \notin Rows /\ open[p].id \in unwritten

\* Projects do not share a session.
HeldOnce ==
    \A p, q \in Projects : open[p].id = open[q].id /\ open[p].id # NoSession => p = q

EmptyEntry == \A p \in Projects : open[p].id = NoSession => open[p] = NoEntry

\* A Close on its way is the only one of its session, whose row is open, or absent
\* because its Open was lost.
CloseIsOfOpen ==
    /\ \A c \in Callers : \A e \in local[c].close :
          /\ e.id \in Sessions /\ e.id \in used /\ ~Held(e.id)
          /\ e.id \in Rows => e.id \in OpenRows
          /\ e.id \notin Rows => e.id \in unwritten
    /\ \A c, d \in Callers : \A e \in local[c].close, f \in local[d].close :
          e.id = f.id => c = d /\ e = f

\* What holds whatever crashes.
SafeInv ==
    /\ TypeOK /\ InTime /\ PendingIsHeld /\ OpensOnce /\ HeldIsOpen /\ HeldOnce /\ EmptyEntry
    /\ CloseIsOfOpen

\* Without a crash nothing is left open that nobody closes, but for an error.
NoneIsLost ==
    \A s \in OpenRows \ unwritten : Held(s) \/ \E c \in Callers : \E e \in local[c].close : e.id = s

\* Whatever is not in memory was silent for a gap, but for a delay.
LongSilent ==
    /\ \A s \in Rows : row[s].last <= now
    /\ \A p \in Projects : open[p].id \in Rows => row[open[p].id].last <= open[p].at + MaxDelay
    /\ \A s \in Rows : ~Held(s) => LastSeen(s) + Gap < now + MaxDelay
    /\ \A c \in Callers : \A e \in local[c].close : e.at + Gap < now

\* The session s is over, and was so for long, at time t.
OverBefore(s, t) ==
    /\ ~Held(s)
    /\ t - LastSeen(s) > Gap - 2 * MaxDelay
    /\ \A c \in Callers : \A e \in local[c].close : e.id = s => t - e.at > Gap - 2 * MaxDelay

Apart ==
    /\ \A s, t \in Rows : s # t /\ row[s].project = row[t].project =>
          OverBefore(s, row[t].started) \/ OverBefore(t, row[s].started)
    /\ \A c \in Callers : local[c].then = "open" =>
          \A s \in Rows : row[s].project = local[c].project => OverBefore(s, local[c].entry.at)

QuietInv == NoneIsLost /\ LongSilent /\ Apart

Inv == SafeInv /\ (crashes = 0 => QuietInv)

-----------------------------------------------------------------------------
(* Types.                                                                   *)

LEMMA ConstantsType ==
    /\ Gap \in Nat /\ MaxDelay \in Nat /\ MaxTime \in Nat /\ MaxCrashes \in Nat /\ MaxFaults \in Nat
    /\ 2 * MaxDelay <= Gap
    /\ NoSession \notin Sessions /\ Ticker \notin Emitters /\ Emitters \subseteq Callers
    /\ Ticker \in Callers
BY SessionsAssumption, DelayAssumption DEF Callers

LEMMA IdleType ==
    /\ Idle \in Local /\ Idle.pc = "idle" /\ Idle.close = {} /\ Idle.then = "none"
    /\ Idle.since = 0 /\ NoEntry \in Entry /\ NoEntry.id = NoSession /\ AbsentRow.state = "absent"
    /\ AbsentRow \in [state : {"absent", "open", "closed"}, project : Projects,
                      started : Nat, last : Nat, ended : Nat]
<1>1. AbsentRow.project \in Projects
  BY SessionsAssumption DEF AbsentRow
<1> QED
  BY <1>1 DEF Idle, Local, NoEntry, Entry, AbsentRow

\* What the types say of one row, one project and one caller.
LEMMA Types ==
  ASSUME TypeOK
  PROVE  /\ now \in Nat
         /\ \A s \in Sessions : /\ row[s].state \in {"absent", "open", "closed"}
                                /\ row[s].project \in Projects
                                /\ row[s].started \in Nat /\ row[s].last \in Nat
                                /\ row[s].ended \in Nat
         /\ \A p \in Projects : open[p].id \in Sessions \cup {NoSession} /\ open[p].at \in Nat
         /\ \A c \in Callers : /\ local[c] \in Local
                               /\ local[c].pc \in {"idle", "group", "write"}
                               /\ local[c].project \in Projects /\ local[c].since \in Nat
                               /\ local[c].then \in {"none", "open", "touch"}
                               /\ local[c].entry.id \in Sessions \cup {NoSession}
                               /\ local[c].entry.at \in Nat
                               /\ local[c].close \subseteq Entry
                               /\ \A e \in local[c].close : e.id \in Sessions \cup {NoSession}
                                                            /\ e.at \in Nat
BY ConstantsType DEF TypeOK, Entry, Local

\* A step that changes what one caller holds.
LEMMA LocalType ==
  ASSUME TypeOK, NEW c \in Callers, NEW X \in Local, local' = [local EXCEPT ![c] = X]
  PROVE  /\ local' \in [Callers -> Local] /\ local'[c] = X
         /\ \A d \in Callers : d # c => local'[d] = local[d]
BY DEF TypeOK

\* A session that was silent for a gap has an open row or lost its Open, and nothing of
\* it is on its way.
LEMMA SilentIsQuiet ==
  ASSUME SafeInv, NEW p \in Projects, open[p].id # NoSession, open[p].at + Gap < now
  PROVE  /\ open[p].id \in Sessions /\ open[p].id \in used
         /\ open[p].id \in Rows => open[p].id \in OpenRows /\ row[open[p].id].project = p
         /\ open[p].id \notin Rows => open[p].id \in unwritten
         /\ \A c \in Callers : local[c].then # "none" =>
                local[c].project # p /\ local[c].entry.id # open[p].id
<1> USE ConstantsType, Types DEF SafeInv
<1>1. ASSUME NEW c \in Callers, local[c].then # "none", local[c].project = p PROVE FALSE
  <2>1. local[c].pc # "idle" /\ now <= local[c].since + MaxDelay
    BY <1>1 DEF InTime
  <2>2. local[c].since <= open[p].at + MaxDelay
    BY <1>1 DEF PendingIsHeld
  <2> QED
    BY <2>1, <2>2
<1>2. /\ open[p].id \in Sessions /\ open[p].id \in used
      /\ open[p].id \in Rows => open[p].id \in OpenRows /\ row[open[p].id].project = p
      /\ open[p].id \notin Rows => open[p].id \in unwritten
  BY <1>1 DEF HeldIsOpen, OpenRows, Rows
<1>3. ASSUME NEW c \in Callers, local[c].then # "none", local[c].entry.id = open[p].id PROVE FALSE
  <2>1. open[local[c].project].id = open[p].id
    BY <1>3 DEF PendingIsHeld
  <2>2. local[c].project = p
    BY <2>1 DEF HeldOnce
  <2> QED
    BY <1>1, <1>3, <2>2
<1> QED
  BY <1>1, <1>2, <1>3

-----------------------------------------------------------------------------
(* The steps.                                                               *)

LEMMA AppendInv ==
  ASSUME Inv, NEW c \in Emitters, NEW p \in Projects, Append(c, p) PROVE Inv'
<1> USE ConstantsType, IdleType, Types DEF Inv, SafeInv
<1> DEFINE X == [Idle EXCEPT !.pc = "group", !.project = p, !.since = now]
<1>1. X \in Local /\ X.pc = "group" /\ X.close = {} /\ X.then = "none" /\ X.since = now
  BY DEF Local, Idle
<1>2. local' = [local EXCEPT ![c] = X] /\ UNCHANGED <<now, row, open, used, crashes, faults, unwritten>>
  BY DEF Append
<1> HIDE DEF X
<1>3. /\ local' \in [Callers -> Local] /\ local'[c] = X
      /\ \A d \in Callers : d # c => local'[d] = local[d]
  BY <1>1, <1>2, LocalType
<1>4. /\ \A d \in Callers : local'[d].then = local[d].then \/ local'[d].then = "none"
      /\ \A d \in Callers : local'[d].then # "none" => local'[d] = local[d]
      /\ \A d \in Callers : local'[d].close = local[d].close
  <2>1. local[c].close = {} /\ local[c].then = "none"
    BY DEF Append, At, InTime
  <2> QED
    BY <1>1, <1>3, <2>1
<1>5. TypeOK' /\ InTime'
  BY <1>1, <1>2, <1>3, <1>4 DEF TypeOK, InTime
<1>6. PendingIsHeld' /\ OpensOnce' /\ HeldOnce' /\ EmptyEntry' /\ CloseIsOfOpen'
  BY <1>2, <1>4 DEF HeldOnce, PendingIsHeld, EmptyEntry, OpensOnce, CloseIsOfOpen, Rows, OpenRows, Held
<1>7. HeldIsOpen'
  <2>1. \A d \in Callers : local[d].then = "open" => d # c
    BY DEF Append, At, InTime
  <2> QED
    BY <1>2, <1>3, <2>1 DEF HeldIsOpen, Rows
<1>8. QuietInv => QuietInv'
  BY <1>2, <1>4 DEF QuietInv, NoneIsLost, LongSilent, Apart, OverBefore, Rows, OpenRows, Held,
     LastSeen, Closed
<1> QED
  BY <1>2, <1>5, <1>6, <1>7, <1>8

LEMMA TickInv == ASSUME Inv, Tick PROVE Inv'
<1> USE ConstantsType, Types DEF Inv, SafeInv
<1>1. now' = now + 1 /\ now' \in 0 .. MaxTime /\ UNCHANGED <<row, open, local, used, crashes, faults, unwritten>>
  BY DEF Tick, TypeOK
<1>2. /\ TypeOK' /\ PendingIsHeld' /\ OpensOnce' /\ HeldIsOpen' /\ HeldOnce' /\ EmptyEntry'
      /\ CloseIsOfOpen'
  BY <1>1 DEF TypeOK, HeldOnce, EmptyEntry, PendingIsHeld, OpensOnce, HeldIsOpen, CloseIsOfOpen, Rows, OpenRows, Held
<1>3. InTime'
  BY <1>1 DEF InTime, Tick, At
<1>4. NoneIsLost /\ Apart => NoneIsLost' /\ Apart'
  BY <1>1 DEF NoneIsLost, Apart, OverBefore, Rows, OpenRows, Held, LastSeen, Closed
<1>5. LongSilent => LongSilent'
  BY <1>1 DEF LongSilent, Rows, Held, LastSeen, Closed
<1> QED
  BY <1>1, <1>2, <1>3, <1>4, <1>5 DEF QuietInv

LEMMA TouchInv == ASSUME Inv, NEW c \in Emitters, Touch(c) PROVE Inv'
<1> USE ConstantsType, Types DEF Inv, SafeInv
<1> DEFINE p == local[c].project
           t == local[c].since
           X == [local[c] EXCEPT !.pc = "write", !.then = "touch",
                                 !.entry = [id |-> open[p].id, at |-> t]]
<1>1. /\ X \in Local /\ X.pc = "write" /\ X.close = {} /\ X.then = "touch"
      /\ X.since = t /\ X.project = p /\ X.entry.id = open[p].id /\ X.entry.at = t
      /\ open[p].id # NoSession /\ p \in Projects /\ t \in Nat
      /\ t <= now /\ now <= t + MaxDelay /\ local[c].then = "none" /\ local[c].close = {}
  BY DEF Touch, Local, At, InTime, Entry
<1>2. /\ local' = [local EXCEPT ![c] = X] /\ UNCHANGED <<now, row, used, crashes, faults, unwritten>>
      /\ open' = [open EXCEPT ![p].at = t]
  BY DEF Touch
<1> HIDE DEF X
<1>3. /\ local' \in [Callers -> Local] /\ local'[c] = X
      /\ \A d \in Callers : d # c => local'[d] = local[d]
  BY <1>1, <1>2, LocalType
<1>4. /\ open' \in [Projects -> Entry]
      /\ \A q \in Projects : open'[q].id = open[q].id
      /\ open'[p].at = t /\ \A q \in Projects : q # p => open'[q].at = open[q].at
  <2>1. [open[p] EXCEPT !.at = t] \in Entry /\ [open[p] EXCEPT !.at = t].at = t
        /\ [open[p] EXCEPT !.at = t].id = open[p].id
    <3>1. \A e \in Entry, n \in Nat : /\ [e EXCEPT !.at = n] \in Entry
                                    /\ [e EXCEPT !.at = n].at = n /\ [e EXCEPT !.at = n].id = e.id
      BY DEF Entry
    <3>2. open[p] \in Entry
      BY <1>1 DEF TypeOK
    <3> QED
      BY <1>1, <3>1, <3>2
  <2>2. open' = [open EXCEPT ![p] = [open[p] EXCEPT !.at = t]]
    BY <1>2
  <2> HIDE DEF p, t
  <2> QED
    BY <1>1, <2>1, <2>2 DEF TypeOK
<1> HIDE DEF p, t
<1>5. TypeOK' /\ InTime'
  BY <1>1, <1>2, <1>3, <1>4 DEF TypeOK, InTime, HeldIsOpen
<1>6. PendingIsHeld'
  <2>1. \A d \in Callers : local[d].then # "none" => local[d].entry.at <= t + MaxDelay
    BY <1>1 DEF PendingIsHeld, InTime
  <2> QED
    BY <1>1, <1>3, <1>4, <2>1 DEF PendingIsHeld
<1>7. OpensOnce'
  BY <1>1, <1>2, <1>3 DEF OpensOnce, Rows
<1>8. HeldIsOpen' /\ HeldOnce' /\ EmptyEntry'
  BY <1>1, <1>2, <1>3, <1>4 DEF HeldIsOpen, HeldOnce, EmptyEntry, Rows
<1>9. \A d \in Callers : local'[d].close = local[d].close
  BY <1>1, <1>3
<1>10. \A s : (Held(s))' <=> Held(s)
  BY <1>4 DEF Held
<1>11. CloseIsOfOpen'
  BY <1>2, <1>9, <1>10 DEF CloseIsOfOpen, OpenRows, Rows
<1>12. NoneIsLost => NoneIsLost'
  BY <1>2, <1>9, <1>10 DEF NoneIsLost, OpenRows
<1>13. LongSilent => LongSilent'
  <2> SUFFICES ASSUME LongSilent PROVE LongSilent'
    OBVIOUS
  <2>1. \A q \in Projects : open'[q].id \in Rows => row[open'[q].id].last <= open'[q].at + MaxDelay
    BY <1>1, <1>4 DEF LongSilent, Rows
  <2> QED
    BY <1>2, <1>9, <1>10, <2>1 DEF LongSilent, Rows, LastSeen, Closed
<1>14. Apart => Apart'
  <2>1. \A s, b : OverBefore(s, b) => (OverBefore(s, b))'
    BY <1>2, <1>9, <1>10 DEF OverBefore, LastSeen, Closed
  <2>2. \A d \in Callers : local'[d].then = "open" => local'[d] = local[d]
    BY <1>1, <1>3
  <2> QED
    BY <1>2, <2>1, <2>2 DEF Apart, Rows
<1> QED
  BY <1>2, <1>5, <1>6, <1>7, <1>8, <1>11, <1>12, <1>13, <1>14 DEF QuietInv

LEMMA BeginInv ==
  ASSUME Inv, NEW c \in Emitters, NEW s \in Sessions, Begin(c, s) PROVE Inv'
<1> USE ConstantsType, Types, IdleType DEF Inv, SafeInv
<1> DEFINE p == local[c].project
           t == local[c].since
           X == [local[c] EXCEPT !.pc = "write", !.then = "open",
                                 !.close = {open[p]} \ {NoEntry},
                                 !.entry = [id |-> s, at |-> t]]
<1>1. /\ X \in Local /\ X.pc = "write" /\ X.close = {open[p]} \ {NoEntry} /\ X.then = "open"
      /\ X.since = t /\ X.project = p /\ X.entry.id = s /\ X.entry.at = t
      /\ s \notin used /\ s # NoSession /\ p \in Projects /\ t \in Nat
      /\ t <= now /\ now <= t + MaxDelay /\ local[c].then = "none" /\ local[c].close = {}
  <2>1. local[c] \in Local /\ open[p] \in Entry /\ t \in Nat /\ [id |-> s, at |-> t] \in Entry
    BY DEF TypeOK, Entry
  <2>2. X \in Local /\ X.close = {open[p]} \ {NoEntry}
    BY <2>1 DEF Local
  <2> QED
    BY <2>1, <2>2 DEF Begin, Local, At, InTime
<1>2. /\ local' = [local EXCEPT ![c] = X] /\ UNCHANGED <<now, row, crashes, faults, unwritten>>
      /\ open' = [open EXCEPT ![p] = [id |-> s, at |-> t]] /\ used' = used \cup {s}
  BY DEF Begin
<1>21. open[p].id # NoSession => t - open[p].at > Gap
  BY DEF Begin
<1> HIDE DEF X
<1>3. /\ local' \in [Callers -> Local] /\ local'[c] = X
      /\ \A d \in Callers : d # c => local'[d] = local[d]
  BY <1>1, <1>2, LocalType
<1> HIDE DEF p, t
<1>4. /\ open' \in [Projects -> Entry] /\ open'[p].id = s /\ open'[p].at = t
      /\ \A q \in Projects : q # p => open'[q] = open[q]
  <2>1. [id |-> s, at |-> t] \in Entry
    BY <1>1 DEF Entry
  <2> QED
    BY <1>1, <1>2, <2>1 DEF TypeOK
<1>5. TypeOK' /\ InTime' /\ EmptyEntry'
  BY <1>1, <1>2, <1>3, <1>4 DEF TypeOK, InTime, EmptyEntry
\* The session before, if any, was silent.
<1>6. /\ open[p].id = NoSession \/ open[p].at + Gap < now
      /\ \A d \in Callers : local[d].then # "none" => local[d].project # p
      /\ open[p].id # NoSession =>
            /\ open[p].id \in Sessions /\ open[p].id \in used
            /\ open[p].id \in Rows => open[p].id \in OpenRows /\ row[open[p].id].project = p
            /\ open[p].id \notin Rows => open[p].id \in unwritten
  <2>1. CASE open[p].id = NoSession
    BY <2>1 DEF PendingIsHeld
  <2>2. CASE open[p].id # NoSession
    <3>1. open[p].at + Gap < now
      BY <1>1, <1>21, <2>2
    <3> QED
      BY <1>1, <2>2, <3>1, SilentIsQuiet
  <2> QED
    BY <2>1, <2>2
<1>7. PendingIsHeld'
  BY <1>1, <1>3, <1>4, <1>6 DEF PendingIsHeld
<1>8. s \notin Rows /\ \A d \in Callers : local[d].then # "none" => local[d].entry.id # s
  BY <1>1 DEF OpensOnce, TypeOK
<1>9. OpensOnce'
  BY <1>1, <1>2, <1>3, <1>8 DEF OpensOnce, Rows
<1>10. HeldIsOpen'
  <2> SUFFICES ASSUME NEW q \in Projects, open'[q].id # NoSession
               PROVE  /\ open'[q].id \in used'
                      /\ \/ row[open'[q].id].state = "open" /\ row[open'[q].id].project = q
                         \/ \E d \in Callers : /\ local'[d].then = "open" /\ local'[d].project = q
                                               /\ local'[d].entry.id = open'[q].id
                         \/ open'[q].id \notin Rows /\ open'[q].id \in unwritten
    BY <1>2 DEF HeldIsOpen, Rows
  <2>1. CASE q = p
    BY <1>1, <1>2, <1>3, <1>4, <2>1
  <2>2. CASE q # p
    BY <1>1, <1>2, <1>3, <1>4, <2>2 DEF HeldIsOpen
  <2> QED
    BY <2>1, <2>2
<1>101. HeldOnce'
  <2>1. \A q \in Projects : q # p => open[q].id # s
    BY <1>1 DEF HeldIsOpen
  <2> QED
    BY <1>4, <2>1 DEF HeldOnce
<1>11. /\ \A d \in Callers : d # c => local'[d].close = local[d].close
       /\ \A e \in local'[c].close : e = open[p] /\ open[p].id # NoSession
  <2>1. \A e \in local'[c].close : e = open[p] /\ open[p] # NoEntry
    BY <1>1, <1>3
  <2>2. open[p].id = NoSession => open[p] = NoEntry
    BY <1>1 DEF TypeOK, EmptyEntry
  <2> QED
    BY <1>3, <2>1, <2>2
<1>12. \A r \in Sessions : r # s => ((Held(r))' <=> Held(r) /\ r # open[p].id)
  <2>1. \A q \in Projects : open[q].id = open[p].id /\ open[p].id # NoSession => q = p
    BY <1>1 DEF HeldOnce
  <2> QED
    BY <1>1, <1>4, <2>1 DEF Held
<1>13. CloseIsOfOpen'
  <2>1. Held(open[p].id)
    BY <1>1 DEF Held
  <2>2. \A d \in Callers : \A e \in local'[d].close :
          /\ e.id \in Sessions /\ e.id \in used /\ ~(Held(e.id))'
          /\ e.id \in Rows => e.id \in OpenRows
          /\ e.id \notin Rows => e.id \in unwritten
    BY <1>1, <1>3, <1>6, <1>11, <1>12, <2>1 DEF CloseIsOfOpen
  <2>3. \A d \in Callers : \A e \in local[d].close : e.id # open[p].id
    BY <2>1 DEF CloseIsOfOpen
  <2>4. \A d, b \in Callers : \A e \in local'[d].close, f \in local'[b].close :
            e.id = f.id => d = b /\ e = f
    BY <1>11, <2>3 DEF CloseIsOfOpen
  <2> QED
    BY <1>2, <2>2, <2>4 DEF CloseIsOfOpen, OpenRows, Rows
<1>14. NoneIsLost => NoneIsLost'
  <2> SUFFICES ASSUME NoneIsLost, NEW r \in OpenRows \ unwritten
               PROVE  (Held(r))' \/ \E d \in Callers : \E e \in local'[d].close : e.id = r
    BY <1>2 DEF NoneIsLost, OpenRows
  <2>1. r # s /\ r \in Sessions /\ r # NoSession
    BY <1>8 DEF Rows, OpenRows
  <2>2. CASE r = open[p].id
    <3>1. open[p] # NoEntry
      BY <2>1, <2>2
    <3>2. open[p] \in local'[c].close
      BY <1>1, <1>3, <3>1
    <3> QED
      BY <2>2, <3>2
  <2>3. CASE r # open[p].id /\ Held(r)
    BY <1>12, <2>1, <2>3
  <2>4. CASE \E d \in Callers : \E e \in local[d].close : e.id = r
    BY <1>1, <1>11, <2>4
  <2> QED
    BY <2>2, <2>3, <2>4 DEF NoneIsLost
<1>15. LongSilent => LongSilent'
  <2> SUFFICES ASSUME LongSilent PROVE LongSilent'
    OBVIOUS
  <2>1. \A q \in Projects : open'[q].id \in Rows => row[open'[q].id].last <= open'[q].at + MaxDelay
    BY <1>4, <1>8 DEF LongSilent
  <2>2. \A r \in Rows : ~(Held(r))' => LastSeen(r) + Gap < now + MaxDelay
    <3>1. ASSUME NEW r \in Rows, r = open[p].id PROVE LastSeen(r) + Gap < now + MaxDelay
      <4>1. row[r].last <= open[p].at + MaxDelay /\ open[p].at + Gap < now /\ r \in OpenRows
        BY <1>1, <1>6, <3>1 DEF LongSilent, Rows
      <4> QED
        BY <1>1, <3>1, <4>1 DEF LastSeen, Closed, OpenRows
    <3>2. \A r \in Rows : r \in Sessions /\ r # s
      BY <1>8 DEF Rows
    <3> QED
      BY <1>12, <3>1, <3>2 DEF LongSilent
  <2>3. \A d \in Callers : \A e \in local'[d].close : e.at + Gap < now
    BY <1>3, <1>6, <1>11 DEF LongSilent
  <2> QED
    BY <1>2, <2>1, <2>2, <2>3 DEF LongSilent, Rows, LastSeen, Closed
<1>16. LongSilent' /\ Apart => Apart'
  <2> SUFFICES ASSUME LongSilent', Apart PROVE Apart'
    OBVIOUS
  <2>0. Rows' = Rows /\ \A r \in Rows : r \in Sessions /\ r # s
    BY <1>2, <1>8 DEF Rows
  <2>1. ASSUME NEW r \in Rows, NEW b \in Nat, OverBefore(r, b) PROVE (OverBefore(r, b))'
    <3>1. r # open[p].id
      BY <1>1, <2>1 DEF OverBefore, Held
    <3>2. \A d \in Callers : \A e \in local'[d].close : e.id = r => e \in local[d].close
      BY <1>11, <3>1
    <3> QED
      BY <1>2, <1>12, <2>0, <2>1, <3>2 DEF OverBefore, LastSeen, Closed
  <2>2. ASSUME NEW r \in Rows, row[r].project = p PROVE (OverBefore(r, local[c].since))'
    <3>1. ~(Held(r))'
      <4>1. Held(r) => r = open[p].id
        BY <2>0, <2>2 DEF Held, HeldIsOpen, PendingIsHeld, OpensOnce, Rows
      <4> QED
        BY <1>12, <2>0, <4>1
    <3>2. LastSeen(r) + Gap < now + MaxDelay
      BY <1>2, <2>0, <3>1 DEF LongSilent, LastSeen, Closed
    <3>3. \A d \in Callers : \A e \in local'[d].close : e.at + Gap < now /\ e.at \in Nat
      <4>1. \A d \in Callers : local'[d].close \subseteq Entry
        BY <1>3 DEF Local
      <4> QED
        BY <1>2, <4>1 DEF LongSilent, Entry
    <3>4. LastSeen(r) \in Nat
      BY <2>0 DEF LastSeen
    <3>5. local'[c].since = t
      BY <1>1, <1>3
    <3> QED
      BY <1>1, <1>2, <3>1, <3>2, <3>3, <3>4, <3>5 DEF OverBefore, LastSeen, Closed
  <2>3. \A r, u \in Rows : r # u /\ row[r].project = row[u].project =>
            (OverBefore(r, row[u].started))' \/ (OverBefore(u, row[r].started))'
    BY <1>2, <2>0, <2>1 DEF Apart, OverBefore, LastSeen, Closed
  <2>4. ASSUME NEW d \in Callers, local'[d].then = "open",
               NEW r \in Rows, row[r].project = local'[d].project
        PROVE  (OverBefore(r, local[d].entry.at))'
    <3>1. CASE d = c
      BY <1>1, <1>3, <2>2, <2>4, <3>1 DEF OverBefore
    <3>2. CASE d # c
      BY <1>3, <2>1, <2>4, <3>2 DEF Apart, OverBefore, LastSeen, Closed
    <3> QED
      BY <3>1, <3>2
  <2> QED
    BY <1>2, <2>0, <2>3, <2>4 DEF Apart
<1> QED
  BY <1>2, <1>5, <1>7, <1>9, <1>10, <1>101, <1>13, <1>14, <1>15, <1>16 DEF QuietInv

LEMMA CloseSilentInv == ASSUME Inv, CloseSilent PROVE Inv'
<1> USE ConstantsType, Types, IdleType DEF Inv, SafeInv
<1> DEFINE Given == {open[p] : p \in {q \in Projects : Silent(q)}}
           X == [Idle EXCEPT !.pc = "write", !.since = now, !.close = Given]
<1>1. /\ X \in Local /\ X.pc = "write" /\ X.close = Given /\ X.then = "none" /\ X.since = now
      /\ local[Ticker].pc = "idle" /\ local[Ticker].then = "none" /\ local[Ticker].close = {}
  <2>1. Given \subseteq Entry
    BY DEF TypeOK
  <2> HIDE DEF Given
  <2>2. X \in Local
    BY <2>1 DEF Idle, Local
  <2> QED
    BY <2>1, <2>2 DEF CloseSilent, Idle, At, InTime
<1>2. /\ local' = [local EXCEPT ![Ticker] = X] /\ UNCHANGED <<now, row, used, crashes, faults, unwritten>>
      /\ open' = [p \in Projects |-> IF Silent(p) THEN NoEntry ELSE open[p]]
  BY DEF CloseSilent
<1> HIDE DEF X
<1>3. /\ local' \in [Callers -> Local] /\ local'[Ticker] = X
      /\ \A d \in Callers : d # Ticker => local'[d] = local[d]
  BY <1>1, <1>2, LocalType
<1>4. /\ open' \in [Projects -> Entry]
      /\ \A p \in Projects : Silent(p) => open'[p] = NoEntry
      /\ \A p \in Projects : ~Silent(p) => open'[p] = open[p]
  BY <1>2 DEF TypeOK
<1>5. TypeOK' /\ InTime' /\ EmptyEntry'
  BY <1>1, <1>2, <1>3, <1>4 DEF TypeOK, InTime, EmptyEntry
<1>6. ASSUME NEW p \in Projects, Silent(p)
      PROVE  /\ open[p].id # NoSession /\ open[p].at + Gap < now
             /\ open[p].id \in Sessions /\ open[p].id \in used
             /\ open[p].id \in Rows => open[p].id \in OpenRows /\ row[open[p].id].project = p
             /\ open[p].id \notin Rows => open[p].id \in unwritten
             /\ \A c \in Callers : local[c].then # "none" =>
                    local[c].project # p /\ local[c].entry.id # open[p].id
  <2>1. open[p].id # NoSession /\ open[p].at + Gap < now
    BY <1>6 DEF Silent
  <2> QED
    BY <2>1, SilentIsQuiet
<1>7. PendingIsHeld' /\ OpensOnce' /\ HeldIsOpen' /\ HeldOnce'
  <2>1. \A d \in Callers : local'[d].then # "none" => d # Ticker /\ local'[d] = local[d]
    BY <1>1, <1>3
  <2>2. \A d \in Callers : local'[d].then # "none" => ~Silent(local[d].project)
    BY <1>6, <2>1
  <2>3. PendingIsHeld'
    BY <1>4, <2>1, <2>2 DEF PendingIsHeld
  <2>4. OpensOnce'
    BY <1>2, <2>1 DEF OpensOnce, Rows
  <2>5. \A d \in Callers : local[d].then = "open" => local'[d] = local[d]
    BY <1>1, <1>3
  <2>6. HeldIsOpen'
    BY <1>2, <1>4, <2>5 DEF HeldIsOpen, Rows
  <2>7. HeldOnce'
    BY <1>4 DEF HeldOnce, NoEntry
  <2> QED
    BY <2>3, <2>4, <2>6, <2>7
<1>8. /\ \A d \in Callers : d # Ticker => local'[d].close = local[d].close
      /\ local'[Ticker].close = Given
  BY <1>1, <1>3
<1>9. \A r : r # NoSession =>
        ((Held(r))' <=> Held(r) /\ \A p \in Projects : Silent(p) => open[p].id # r)
  <2>1. \A p, q \in Projects : open[q].id = open[p].id /\ open[p].id # NoSession => q = p
    BY DEF HeldOnce
  <2> QED
    BY <1>4, <2>1 DEF Held
<1>10. CloseIsOfOpen'
  <2>2. \A d \in Callers : \A e \in local[d].close : e.id \in Sessions /\ ~Held(e.id)
    BY DEF CloseIsOfOpen
  <2>3. \A d \in Callers : \A e \in local'[d].close :
          /\ e.id \in Sessions /\ e.id \in used /\ ~(Held(e.id))'
          /\ e.id \in Rows => e.id \in OpenRows
          /\ e.id \notin Rows => e.id \in unwritten
    BY <1>6, <1>8, <1>9, <2>2 DEF CloseIsOfOpen
  <2>4. \A e \in Given : Held(e.id) /\ e.id # NoSession
    BY <1>6 DEF Held
  <2>5. \A e, f \in Given : e.id = f.id => e = f
    BY <1>6 DEF HeldOnce
  <2>6. \A d, b \in Callers : \A e \in local'[d].close, f \in local'[b].close :
            e.id = f.id => d = b /\ e = f
    BY <1>8, <2>2, <2>4, <2>5 DEF CloseIsOfOpen
  <2> QED
    BY <1>2, <2>3, <2>6 DEF CloseIsOfOpen, OpenRows, Rows
<1>11. NoneIsLost => NoneIsLost'
  <2> SUFFICES ASSUME NoneIsLost, NEW r \in OpenRows \ unwritten
               PROVE  (Held(r))' \/ \E d \in Callers : \E e \in local'[d].close : e.id = r
    BY <1>2 DEF NoneIsLost, OpenRows
  <2>1. r # NoSession
    BY DEF OpenRows
  <2>2. CASE \E p \in Projects : Silent(p) /\ open[p].id = r
    BY <1>8, <2>2
  <2>3. CASE Held(r) /\ \A p \in Projects : Silent(p) => open[p].id # r
    BY <1>9, <2>1, <2>3
  <2>4. CASE \E d \in Callers : \E e \in local[d].close : e.id = r
    BY <1>1, <1>8, <2>4
  <2> QED
    BY <2>2, <2>3, <2>4 DEF NoneIsLost
<1>12. LongSilent => LongSilent'
  <2> SUFFICES ASSUME LongSilent PROVE LongSilent'
    OBVIOUS
  <2>1. \A q \in Projects : open'[q].id \in Rows => row[open'[q].id].last <= open'[q].at + MaxDelay
    BY <1>4 DEF LongSilent, Rows
  <2>2. ASSUME NEW r \in Rows, ~(Held(r))' PROVE LastSeen(r) + Gap < now + MaxDelay
    <3>1. CASE ~Held(r)
      BY <3>1 DEF LongSilent
    <3>2. ASSUME NEW p \in Projects, Silent(p), open[p].id = r PROVE LastSeen(r) + Gap < now + MaxDelay
      <4>1. row[r].last <= open[p].at + MaxDelay /\ open[p].at + Gap < now /\ r \in OpenRows
        BY <1>6, <3>2 DEF LongSilent
      <4> QED
        BY <3>2, <4>1 DEF LastSeen, Closed, OpenRows
    <3> QED
      BY <1>9, <2>2, <3>1, <3>2 DEF Rows
  <2>3. \A d \in Callers : \A e \in local'[d].close : e.at + Gap < now
    BY <1>6, <1>8 DEF LongSilent
  <2> QED
    BY <1>2, <2>1, <2>2, <2>3 DEF LongSilent, Rows, LastSeen, Closed
<1>13. Apart => Apart'
  <2> SUFFICES ASSUME Apart PROVE Apart'
    OBVIOUS
  <2>1. ASSUME NEW r \in Rows, NEW b \in Nat, OverBefore(r, b) PROVE (OverBefore(r, b))'
    <3>1. ~Held(r) /\ r # NoSession
      BY <2>1 DEF OverBefore, Rows
    <3>2. \A e \in Given : e.id # r
      BY <3>1 DEF Held
    <3>3. \A d \in Callers : \A e \in local'[d].close : e.id = r => e \in local[d].close
      BY <1>8, <3>2
    <3> QED
      BY <1>2, <1>9, <2>1, <3>1, <3>3 DEF OverBefore, LastSeen, Closed
  <2>2. Rows' = Rows /\ \A r \in Rows : r \in Sessions
    BY <1>2 DEF Rows
  <2>3. \A r, u \in Rows : r # u /\ row[r].project = row[u].project =>
            (OverBefore(r, row[u].started))' \/ (OverBefore(u, row[r].started))'
    BY <1>2, <2>1, <2>2 DEF Apart, OverBefore, LastSeen, Closed
  <2>4. ASSUME NEW d \in Callers, local'[d].then = "open",
               NEW r \in Rows, row[r].project = local'[d].project
        PROVE  (OverBefore(r, local[d].entry.at))'
    <3>1. local'[d] = local[d]
      BY <1>1, <1>3, <2>4
    <3> QED
      BY <2>1, <2>4, <3>1 DEF Apart, OverBefore, LastSeen, Closed
  <2> QED
    BY <1>2, <2>2, <2>3, <2>4 DEF Apart
<1> QED
  BY <1>2, <1>5, <1>7, <1>10, <1>11, <1>12, <1>13 DEF QuietInv

\* What is left of a list.
LEMMA RestType ==
  ASSUME TypeOK, InTime, NEW c \in Callers, local[c].pc = "write", NEW X \in Local,
         X.pc = "write", X.since = local[c].since, X.project = local[c].project,
         X.entry = local[c].entry, X.then \in {"none", local[c].then},
         X.close \subseteq local[c].close, Rest(c, X)
  PROVE  /\ local' \in [Callers -> Local]
         /\ \A d \in Callers : d # c => local'[d] = local[d]
         /\ local'[c].close = X.close /\ local'[c].then = X.then
         /\ \A d \in Callers : local'[d].then # "none" =>
               /\ local'[d].then = local[d].then /\ local'[d].entry = local[d].entry
               /\ local'[d].since = local[d].since /\ local'[d].project = local[d].project
         /\ \A d \in Callers : local'[d].pc # "write" =>
               local'[d].close = {} /\ local'[d].then = "none"
         /\ \A d \in Callers : /\ local'[d].since \in {local[d].since, 0}
                               /\ local'[d].pc # "idle" => /\ local'[d].since = local[d].since
                                                           /\ local[d].pc # "idle"
<1> DEFINE Y == IF X.close = {} /\ X.then = "none" THEN Idle ELSE X
<1>1. Y \in Local /\ local' = [local EXCEPT ![c] = Y]
  BY IdleType DEF Rest
<1>2. /\ Y.close = X.close /\ Y.then = X.then
      /\ Y.then # "none" => Y = X
      /\ Y.pc # "write" => Y.close = {} /\ Y.then = "none"
      /\ Y = X \/ Y = Idle
  BY IdleType
<1> HIDE DEF Y
<1>3. local'[c] = Y /\ local' \in [Callers -> Local] /\ \A d \in Callers : d # c => local'[d] = local[d]
  BY <1>1, LocalType
<1> QED
  BY <1>2, <1>3, IdleType DEF InTime

LEMMA WriteCloseInv ==
  ASSUME Inv, NEW c \in Callers, NEW e \in local[c].close, WriteClose(c, e) PROVE Inv'
<1> USE ConstantsType, Types DEF Inv, SafeInv
<1> DEFINE X == [local[c] EXCEPT !.close = @ \ {e}]
           R == [row[e.id] EXCEPT !.state = "closed", !.ended = e.at]
<1>1. /\ X \in Local /\ X.pc = "write" /\ X.since = local[c].since /\ X.project = local[c].project
      /\ X.entry = local[c].entry /\ X.then = local[c].then /\ X.close = local[c].close \ {e}
      /\ local[c].pc = "write" /\ Rest(c, X)
  BY DEF WriteClose, At, Local
<1>2. /\ ~Held(e.id) /\ e.id \in Sessions
      /\ e.id \in Rows => e.id \in OpenRows
      /\ e.id \notin Rows => e.id \in unwritten /\ row[e.id].state = "absent"
  BY DEF CloseIsOfOpen, Rows
<1>3. /\ row' = [row EXCEPT ![e.id] = IF e.id \in Rows THEN R ELSE row[e.id]]
      /\ UNCHANGED <<now, open, used, crashes, faults, unwritten>>
  BY DEF WriteClose, Update
<1> HIDE DEF X
<1>4. /\ local' \in [Callers -> Local]
      /\ \A d \in Callers : d # c => local'[d] = local[d]
      /\ local'[c].close = local[c].close \ {e} /\ local'[c].then = local[c].then
      /\ \A d \in Callers : local'[d].then # "none" =>
            /\ local'[d].then = local[d].then /\ local'[d].entry = local[d].entry
            /\ local'[d].since = local[d].since /\ local'[d].project = local[d].project
      /\ InTime'
  BY <1>1, <1>3, RestType DEF InTime
<1>5. /\ row' \in [Sessions -> [state : {"absent", "open", "closed"}, project : Projects,
                                started : Nat, last : Nat, ended : Nat]]
      /\ \A s \in Sessions : s # e.id => row'[s] = row[s]
      /\ e.id \notin Rows => row'[e.id] = row[e.id]
      /\ e.id \in Rows => row'[e.id].state = "closed" /\ row'[e.id].ended = e.at
      /\ row'[e.id].started = row[e.id].started /\ row'[e.id].last = row[e.id].last
      /\ row'[e.id].project = row[e.id].project
  <2>1. R \in [state : {"absent", "open", "closed"}, project : Projects,
               started : Nat, last : Nat, ended : Nat]
        /\ R.state = "closed" /\ R.ended = e.at
        /\ R.started = row[e.id].started /\ R.last = row[e.id].last /\ R.project = row[e.id].project
    <3>1. row[e.id] \in [state : {"absent", "open", "closed"}, project : Projects,
                         started : Nat, last : Nat, ended : Nat] /\ e.at \in Nat
      BY <1>2 DEF TypeOK
    <3> QED
      BY <3>1
  <2> HIDE DEF R
  <2> QED
    BY <1>2, <1>3, <2>1 DEF TypeOK
<1> HIDE DEF R
<1>6. Rows' = Rows /\ OpenRows' = OpenRows \ {e.id} /\ \A s : (Held(s))' <=> Held(s)
  BY <1>2, <1>3, <1>5 DEF Rows, OpenRows, Held
<1>7. TypeOK' /\ EmptyEntry' /\ HeldOnce'
  BY <1>3, <1>4, <1>5 DEF TypeOK, EmptyEntry, HeldOnce
<1>8. PendingIsHeld'
  BY <1>3, <1>4 DEF PendingIsHeld
<1>9. OpensOnce'
  BY <1>3, <1>4, <1>6 DEF OpensOnce
<1>10. HeldIsOpen'
  <2>1. \A p \in Projects : open[p].id # e.id
    BY <1>2 DEF Held
  <2>2. \A d \in Callers : local[d].then = "open" => local'[d].then = "open"
            /\ local'[d].project = local[d].project /\ local'[d].entry = local[d].entry
    BY <1>4
  <2> QED
    BY <1>3, <1>5, <1>6, <2>1, <2>2 DEF HeldIsOpen
<1>11. /\ \A d \in Callers : \A f \in local'[d].close : f \in local[d].close /\ f.id # e.id
       /\ \A d \in Callers : \A f \in local[d].close : f.id # e.id => f \in local'[d].close
  BY <1>4 DEF CloseIsOfOpen
<1>12. CloseIsOfOpen'
  BY <1>3, <1>6, <1>11 DEF CloseIsOfOpen
<1>13. NoneIsLost => NoneIsLost'
  BY <1>3, <1>6, <1>11 DEF NoneIsLost
<1>14. \A s \in Rows : /\ s # e.id => (LastSeen(s))' = LastSeen(s)
                       /\ s = e.id => (LastSeen(s))' = e.at
  BY <1>5 DEF LastSeen, Closed, Rows
<1>15. LongSilent => LongSilent'
  <2> SUFFICES ASSUME LongSilent PROVE LongSilent'
    OBVIOUS
  <2>1. \A s \in Rows : row'[s].last <= now
    BY <1>5 DEF LongSilent, Rows
  <2>2. \A p \in Projects : open[p].id \in Rows => row'[open[p].id].last <= open[p].at + MaxDelay
    BY <1>5 DEF LongSilent, Rows
  <2>3. \A s \in Rows : ~Held(s) => (LastSeen(s))' + Gap < now + MaxDelay
    <3>1. e.at + Gap < now
      BY DEF LongSilent
    <3> QED
      BY <1>14, <3>1 DEF LongSilent
  <2> QED
    BY <1>3, <1>6, <1>11, <2>1, <2>2, <2>3 DEF LongSilent
<1>16. Apart => Apart'
  <2> SUFFICES ASSUME Apart PROVE Apart'
    OBVIOUS
  <2>1. ASSUME NEW r \in Rows, NEW b \in Nat, OverBefore(r, b) PROVE (OverBefore(r, b))'
    BY <1>6, <1>11, <1>14, <2>1 DEF OverBefore
  <2>2. \A r \in Rows : r \in Sessions /\ row'[r].project = row[r].project
                        /\ row'[r].started = row[r].started /\ row[r].started \in Nat
    BY <1>5 DEF Rows
  <2>3. \A r, u \in Rows : r # u /\ row[r].project = row[u].project =>
            (OverBefore(r, row[u].started))' \/ (OverBefore(u, row[r].started))'
    BY <2>1, <2>2 DEF Apart, OverBefore
  <2>4. ASSUME NEW d \in Callers, local'[d].then = "open",
               NEW r \in Rows, row[r].project = local'[d].project
        PROVE  (OverBefore(r, local[d].entry.at))'
    <3>1. local'[d].entry = local[d].entry /\ local[d].then = "open"
          /\ local'[d].project = local[d].project
      BY <1>4, <2>4
    <3> QED
      BY <2>1, <2>4, <3>1 DEF Apart, OverBefore
  <2> QED
    BY <1>6, <2>2, <2>3, <2>4 DEF Apart
<1> QED
  BY <1>3, <1>4, <1>7, <1>8, <1>9, <1>10, <1>12, <1>13, <1>15, <1>16 DEF QuietInv

LEMMA WriteOpenInv == ASSUME Inv, NEW c \in Callers, WriteOpen(c) PROVE Inv'
<1> USE ConstantsType, Types DEF Inv, SafeInv
<1> DEFINE X == [local[c] EXCEPT !.then = "none"]
           s == local[c].entry.id
           t == local[c].entry.at
           p == local[c].project
           R == [state |-> "open", project |-> p, started |-> t, last |-> t, ended |-> 0]
<1>1. /\ X \in Local /\ X.pc = "write" /\ X.since = local[c].since /\ X.project = p
      /\ X.entry = local[c].entry /\ X.then = "none" /\ X.close = local[c].close
      /\ local[c].pc = "write" /\ local[c].then = "open" /\ local[c].close = {} /\ Rest(c, X)
  BY DEF WriteOpen, At, Local
<1>2. /\ s \in Sessions /\ s # NoSession /\ s \notin Rows /\ s \in used
      /\ p \in Projects /\ t \in Nat /\ open[p].id = s /\ t <= open[p].at + MaxDelay
      /\ t <= now
  BY <1>1 DEF PendingIsHeld, OpensOnce, TypeOK, InTime
<1>3. /\ row' = [row EXCEPT ![s] = R] /\ UNCHANGED <<now, open, used, crashes, faults, unwritten>>
  BY DEF WriteOpen
<1> HIDE DEF X
<1>4. /\ local' \in [Callers -> Local]
      /\ \A d \in Callers : local'[d].close = local[d].close
      /\ \A d \in Callers : d # c => local'[d] = local[d]
      /\ local'[c].then = "none"
      /\ \A d \in Callers : local'[d].then # "none" => d # c
      /\ InTime'
  <2>1. /\ local' \in [Callers -> Local]
        /\ \A d \in Callers : d # c => local'[d] = local[d]
        /\ local'[c].close = local[c].close /\ local'[c].then = "none"
    BY <1>1, RestType
  <2>2. InTime'
    BY <1>1, <1>3, RestType DEF InTime
  <2> QED
    BY <2>1, <2>2
<1>5. /\ row' \in [Sessions -> [state : {"absent", "open", "closed"}, project : Projects,
                                started : Nat, last : Nat, ended : Nat]]
      /\ \A r \in Sessions : r # s => row'[r] = row[r]
      /\ row'[s].state = "open" /\ row'[s].project = p
      /\ row'[s].started = t /\ row'[s].last = t
  BY <1>2, <1>3 DEF TypeOK
<1> HIDE DEF s, t, p, R
<1>6. Rows' = Rows \cup {s} /\ OpenRows' = OpenRows \cup {s} /\ \A r : (Held(r))' <=> Held(r)
  BY <1>2, <1>3, <1>5 DEF Rows, OpenRows, Held
<1>7. TypeOK' /\ EmptyEntry' /\ HeldOnce'
  BY <1>3, <1>4, <1>5 DEF TypeOK, EmptyEntry, HeldOnce
<1>8. PendingIsHeld'
  BY <1>3, <1>4 DEF PendingIsHeld
<1>81. \A d \in Callers : local[d].then = "open" /\ local[d].entry.id = s => d = c
  BY <1>1 DEF OpensOnce, s
<1>9. OpensOnce'
  BY <1>2, <1>3, <1>4, <1>6, <1>81 DEF OpensOnce
<1>10. HeldIsOpen'
  <2> SUFFICES ASSUME NEW q \in Projects, open[q].id # NoSession
               PROVE  /\ open[q].id \in used
                      /\ \/ row'[open[q].id].state = "open" /\ row'[open[q].id].project = q
                         \/ \E d \in Callers : /\ local'[d].then = "open" /\ local'[d].project = q
                                               /\ local'[d].entry.id = open[q].id
                         \/ open[q].id \notin Rows' /\ open[q].id \in unwritten
    BY <1>3 DEF HeldIsOpen
  <2>1. CASE open[q].id = s
    <3>1. q = p
      BY <1>2, <2>1 DEF HeldOnce
    <3> QED
      BY <1>2, <1>5, <2>1, <3>1
  <2>2. CASE open[q].id # s
    <3>1. \A d \in Callers : local[d].then = "open" /\ local[d].entry.id = open[q].id
            => d # c
      BY <2>2 DEF s
    <3> QED
      BY <1>4, <1>5, <1>6, <2>2, <3>1 DEF HeldIsOpen
  <2> QED
    BY <2>1, <2>2
<1>12. CloseIsOfOpen'
  BY <1>3, <1>4, <1>6 DEF CloseIsOfOpen
<1>13. NoneIsLost => NoneIsLost'
  <2>1. \A r : r = s => (Held(r))'
    BY <1>2, <1>6 DEF Held
  <2> QED
    BY <1>3, <1>4, <1>6, <2>1 DEF NoneIsLost
<1>14. \A r \in Rows : r # s /\ (LastSeen(r))' = LastSeen(r)
  BY <1>2, <1>5 DEF LastSeen, Closed, Rows
<1>15. LongSilent => LongSilent'
  <2> SUFFICES ASSUME LongSilent PROVE LongSilent'
    OBVIOUS
  <2>1. \A r \in Rows' : row'[r].last <= now
    BY <1>2, <1>5, <1>6 DEF LongSilent, Rows
  <2>2. \A q \in Projects : open[q].id \in Rows' => row'[open[q].id].last <= open[q].at + MaxDelay
    <3>1. \A q \in Projects : open[q].id = s => q = p
      BY <1>2 DEF HeldOnce
    <3> QED
      BY <1>2, <1>5, <1>6, <3>1 DEF LongSilent, Rows
  <2>3. \A r \in Rows' : ~Held(r) => (LastSeen(r))' + Gap < now + MaxDelay
    BY <1>2, <1>6, <1>14 DEF LongSilent, Held
  <2> QED
    BY <1>3, <1>4, <1>6, <2>1, <2>2, <2>3 DEF LongSilent
<1>16. Apart => Apart'
  <2> SUFFICES ASSUME Apart PROVE Apart'
    OBVIOUS
  <2>1. ASSUME NEW r \in Rows, NEW b \in Nat, OverBefore(r, b) PROVE (OverBefore(r, b))'
    BY <1>4, <1>6, <1>14, <2>1 DEF OverBefore
  <2>2. \A r \in Rows : r # s /\ r \in Sessions /\ row'[r] = row[r] /\ row[r].started \in Nat
    BY <1>2, <1>5 DEF Rows
  <2>3. ASSUME NEW r \in Rows, NEW u \in Rows, r # u, row[r].project = row[u].project
        PROVE  (OverBefore(r, row[u].started))' \/ (OverBefore(u, row[r].started))'
    BY <2>1, <2>2, <2>3 DEF Apart, OverBefore
  <2>4. ASSUME NEW r \in Rows, row[r].project = p, NEW z, z = s
        PROVE  (OverBefore(r, row[z].started))'
    <3>1. OverBefore(r, t)
      BY <1>1, <2>4 DEF Apart, t, p
    <3> QED
      BY <1>2, <1>5, <2>1, <2>4, <3>1 DEF OverBefore
  <2>5. \A r, u \in Rows' : r # u /\ row'[r].project = row'[u].project =>
            (OverBefore(r, row[u].started))' \/ (OverBefore(u, row[r].started))'
    BY <1>5, <1>6, <2>2, <2>3, <2>4
  <2>6. ASSUME NEW d \in Callers, local'[d].then = "open",
               NEW r \in Rows', row'[r].project = local'[d].project
        PROVE  (OverBefore(r, local[d].entry.at))'
    <3>1. local'[d] = local[d] /\ d # c
      BY <1>4, <2>6
    <3>2. CASE r = s
      <4>1. local[d].project = p /\ local[d].entry.id = s
        BY <1>2, <1>5, <2>6, <3>1, <3>2 DEF PendingIsHeld
      <4> QED
        BY <1>81, <2>6, <3>1, <4>1
    <3>3. CASE r \in Rows
      BY <2>1, <2>2, <2>6, <3>1, <3>3 DEF Apart, OverBefore
    <3> QED
      BY <1>6, <3>2, <3>3
  <2> QED
    BY <2>5, <2>6 DEF Apart
<1> QED
  BY <1>3, <1>4, <1>7, <1>8, <1>9, <1>10, <1>12, <1>13, <1>15, <1>16 DEF QuietInv

LEMMA WriteTouchInv == ASSUME Inv, NEW c \in Callers, WriteTouch(c) PROVE Inv'
<1> USE ConstantsType, Types DEF Inv, SafeInv
<1> DEFINE X == [local[c] EXCEPT !.then = "none"]
           s == local[c].entry.id
           t == local[c].entry.at
           R == [row[s] EXCEPT !.last = t]
<1>1. /\ X \in Local /\ X.pc = "write" /\ X.since = local[c].since
      /\ X.project = local[c].project
      /\ X.entry = local[c].entry /\ X.then = "none" /\ X.close = local[c].close
      /\ local[c].pc = "write" /\ local[c].then = "touch" /\ Rest(c, X)
  BY DEF WriteTouch, At, Local
<1>2. /\ s \in Sessions /\ s # NoSession /\ Held(s) /\ t \in Nat /\ t <= now
      /\ \A q \in Projects : open[q].id = s => t <= open[q].at + MaxDelay
  <2>1. open[local[c].project].id = s /\ t <= open[local[c].project].at + MaxDelay /\ s # NoSession
        /\ t = local[c].since
    BY <1>1 DEF PendingIsHeld
  <2>2. \A q \in Projects : open[q].id = s => q = local[c].project
    BY <2>1 DEF HeldOnce
  <2> QED
    BY <2>1, <2>2 DEF Held, InTime
<1>3. /\ row' = [row EXCEPT ![s] = IF s \in Rows THEN R ELSE row[s]]
      /\ UNCHANGED <<now, open, used, crashes, faults, unwritten>>
  BY DEF WriteTouch, Update
<1> HIDE DEF X
<1>4. /\ local' \in [Callers -> Local]
      /\ \A d \in Callers : local'[d].close = local[d].close
      /\ \A d \in Callers : d # c => local'[d] = local[d]
      /\ local'[c].then = "none"
      /\ \A d \in Callers : local'[d].then # "none" => d # c
      /\ InTime'
  <2>1. /\ local' \in [Callers -> Local]
        /\ \A d \in Callers : d # c => local'[d] = local[d]
        /\ local'[c].close = local[c].close /\ local'[c].then = "none"
    BY <1>1, RestType
  <2>2. InTime'
    BY <1>1, <1>3, RestType DEF InTime
  <2> QED
    BY <2>1, <2>2
<1>5. /\ row' \in [Sessions -> [state : {"absent", "open", "closed"}, project : Projects,
                                started : Nat, last : Nat, ended : Nat]]
      /\ \A r \in Sessions : r # s => row'[r] = row[r]
      /\ \A r \in Sessions : /\ row'[r].state = row[r].state /\ row'[r].ended = row[r].ended
                             /\ row'[r].project = row[r].project
                             /\ row'[r].started = row[r].started
      /\ row'[s].last = IF s \in Rows THEN t ELSE row[s].last
  <2>1. R \in [state : {"absent", "open", "closed"}, project : Projects,
               started : Nat, last : Nat, ended : Nat]
        /\ R.last = t /\ R.state = row[s].state /\ R.ended = row[s].ended
        /\ R.started = row[s].started /\ R.project = row[s].project
    <3>1. row[s] \in [state : {"absent", "open", "closed"}, project : Projects,
                      started : Nat, last : Nat, ended : Nat]
      BY <1>2 DEF TypeOK
    <3> QED
      BY <1>2, <3>1
  <2> HIDE DEF R, s, t
  <2> QED
    BY <1>2, <1>3, <2>1 DEF TypeOK
<1> HIDE DEF s, t, R
<1>51. UNCHANGED <<now, open, used, crashes, faults, unwritten>>
  BY <1>3
<1>6. Rows' = Rows /\ OpenRows' = OpenRows /\ \A r : (Held(r))' <=> Held(r)
  BY <1>3, <1>5 DEF Rows, OpenRows, Held
<1>7. TypeOK' /\ EmptyEntry' /\ HeldOnce'
  BY <1>4, <1>5, <1>51 DEF TypeOK, EmptyEntry, HeldOnce
<1>8. PendingIsHeld' /\ OpensOnce' /\ CloseIsOfOpen'
  BY <1>3, <1>4, <1>6 DEF PendingIsHeld, OpensOnce, CloseIsOfOpen
<1>10. HeldIsOpen'
  <2>1. \A d \in Callers : local[d].then = "open" => local'[d] = local[d]
    BY <1>1, <1>4
  <2> QED
    BY <1>3, <1>5, <1>6, <2>1 DEF HeldIsOpen
<1>13. NoneIsLost => NoneIsLost'
  BY <1>3, <1>4, <1>6 DEF NoneIsLost
<1>14. \A r \in Rows : r # s => (LastSeen(r))' = LastSeen(r)
  BY <1>5 DEF LastSeen, Closed, Rows
<1>15. LongSilent => LongSilent'
  <2> SUFFICES ASSUME LongSilent PROVE LongSilent'
    OBVIOUS
  <2>1. \A r \in Rows : row'[r].last <= now
    BY <1>2, <1>5 DEF LongSilent, Rows
  <2>2. \A q \in Projects : open[q].id \in Rows => row'[open[q].id].last <= open[q].at + MaxDelay
    BY <1>2, <1>5 DEF LongSilent, Rows
  <2>3. \A r \in Rows : ~Held(r) => (LastSeen(r))' + Gap < now + MaxDelay
    BY <1>2, <1>14 DEF LongSilent
  <2> QED
    BY <1>3, <1>4, <1>6, <2>1, <2>2, <2>3 DEF LongSilent
<1>16. Apart => Apart'
  <2> SUFFICES ASSUME Apart PROVE Apart'
    OBVIOUS
  <2>1. ASSUME NEW r \in Rows, NEW b \in Nat, OverBefore(r, b) PROVE (OverBefore(r, b))'
    <3>1. r # s
      BY <1>2, <2>1 DEF OverBefore
    <3> QED
      BY <1>4, <1>6, <1>14, <2>1, <3>1 DEF OverBefore
  <2>2. \A r \in Rows : r \in Sessions /\ row'[r].started = row[r].started
                        /\ row'[r].project = row[r].project /\ row[r].started \in Nat
    BY <1>5 DEF Rows
  <2>3. \A r, u \in Rows : r # u /\ row[r].project = row[u].project =>
            (OverBefore(r, row[u].started))' \/ (OverBefore(u, row[r].started))'
    BY <2>1, <2>2 DEF Apart, OverBefore
  <2>4. ASSUME NEW d \in Callers, local'[d].then = "open",
               NEW r \in Rows, row[r].project = local'[d].project
        PROVE  (OverBefore(r, local[d].entry.at))'
    <3>1. local'[d] = local[d]
      BY <1>4, <2>4
    <3> QED
      BY <2>1, <2>4, <3>1 DEF Apart, OverBefore
  <2> QED
    BY <1>6, <2>2, <2>3, <2>4 DEF Apart
<1> QED
  BY <1>3, <1>4, <1>7, <1>8, <1>10, <1>13, <1>15, <1>16 DEF QuietInv

LEMMA StoreFailsInv == ASSUME Inv, NEW c \in Callers, StoreFails(c) PROVE Inv'
<1> USE ConstantsType, IdleType, Types DEF Inv, SafeInv
<1>1. /\ local' = [local EXCEPT ![c] = Idle] /\ UNCHANGED <<now, row, open, used, crashes>>
      /\ faults' = faults + 1 /\ faults' \in 0 .. MaxFaults
      /\ unwritten \subseteq unwritten' /\ \A e \in local[c].close : e.id \in unwritten'
      /\ local[c].then = "open" => local[c].entry.id \in unwritten'
  BY DEF StoreFails, TypeOK
<1>2. unwritten' \subseteq used
  BY DEF StoreFails, TypeOK, CloseIsOfOpen
<1>3. /\ local' \in [Callers -> Local] /\ local'[c] = Idle
      /\ \A d \in Callers : d # c => local'[d] = local[d]
  BY <1>1, LocalType
<1>4. /\ \A d \in Callers : local'[d].then # "none" => local'[d] = local[d]
      /\ \A d \in Callers : local'[d].close \subseteq local[d].close
      /\ \A d \in Callers : d # c => local'[d].close = local[d].close
  BY <1>3
<1>5. TypeOK' /\ InTime' /\ PendingIsHeld'
  BY <1>1, <1>2, <1>3, <1>4 DEF TypeOK, InTime, PendingIsHeld
<1>6. Rows' = Rows /\ OpenRows' = OpenRows /\ \A s : (Held(s))' <=> Held(s)
  BY <1>1 DEF Rows, OpenRows, Held
<1>7. OpensOnce' /\ HeldOnce' /\ EmptyEntry' /\ CloseIsOfOpen'
  BY <1>1, <1>4, <1>6 DEF OpensOnce, HeldOnce, EmptyEntry, CloseIsOfOpen
<1>8. HeldIsOpen'
  <2> SUFFICES ASSUME NEW p \in Projects, open[p].id # NoSession
               PROVE  /\ open[p].id \in used
                      /\ \/ row[open[p].id].state = "open" /\ row[open[p].id].project = p
                         \/ \E d \in Callers : /\ local'[d].then = "open" /\ local'[d].project = p
                                               /\ local'[d].entry.id = open[p].id
                         \/ open[p].id \notin Rows /\ open[p].id \in unwritten'
    BY <1>1, <1>6 DEF HeldIsOpen
  <2>1. CASE local[c].then = "open" /\ local[c].entry.id = open[p].id
    BY <1>1, <2>1 DEF HeldIsOpen, OpensOnce
  <2>2. CASE ~(local[c].then = "open" /\ local[c].entry.id = open[p].id)
    BY <1>1, <1>3, <2>2 DEF HeldIsOpen
  <2> QED
    BY <2>1, <2>2
<1>9. NoneIsLost => NoneIsLost'
  BY <1>1, <1>4, <1>6 DEF NoneIsLost
<1>10. LongSilent /\ Apart => LongSilent' /\ Apart'
  BY <1>1, <1>4, <1>6 DEF LongSilent, Apart, OverBefore, LastSeen, Closed
<1> QED
  BY <1>1, <1>5, <1>7, <1>8, <1>9, <1>10 DEF QuietInv

LEMMA RestartInv == ASSUME Inv, Restart PROVE Inv'
<1> USE ConstantsType, Types, IdleType DEF Inv, SafeInv
<1>1. /\ crashes' = crashes + 1 /\ crashes' # 0 /\ crashes' \in 0 .. MaxCrashes
      /\ local' = [d \in Callers |-> Idle]
      /\ \A p \in Projects : open'[p] \in Readopted(p)
      /\ open' \in [Projects -> UNION {Readopted(p) : p \in Projects}]
      /\ unwritten' = {} /\ UNCHANGED <<now, row, used, faults>>
  BY DEF Restart, TypeOK
<1>2. \A p \in Projects :
        \A e \in Readopted(p) :
            /\ e \in Entry
            /\ \/ e = NoEntry
               \/ e.id \in OpenRows /\ e.id # NoSession /\ row[e.id].project = p
  <2>1. OpenRows \subseteq Sessions
    BY DEF OpenRows
  <2> QED
    BY <2>1 DEF Readopted, Entry, TypeOK
<1>3. TypeOK' /\ InTime'
  BY <1>1, <1>2 DEF TypeOK, InTime
<1>4. PendingIsHeld' /\ OpensOnce' /\ CloseIsOfOpen'
  BY <1>1 DEF PendingIsHeld, OpensOnce, CloseIsOfOpen, Rows
<1>5. HeldIsOpen' /\ HeldOnce' /\ EmptyEntry'
  BY <1>1, <1>2 DEF HeldIsOpen, HeldOnce, EmptyEntry, OpensOnce, OpenRows, Rows
<1> QED
  BY <1>1, <1>3, <1>4, <1>5

-----------------------------------------------------------------------------
(* The invariant.                                                           *)

LEMMA InitInv == Init => Inv
<1> SUFFICES ASSUME Init PROVE Inv
  OBVIOUS
<1> USE ConstantsType, IdleType DEF Init
<1>1. TypeOK /\ EmptyEntry /\ InTime
  BY DEF TypeOK, EmptyEntry, InTime
<1>2. Rows = {} /\ OpenRows = {}
  BY DEF Rows, OpenRows
<1>3. PendingIsHeld /\ OpensOnce /\ HeldIsOpen /\ HeldOnce /\ CloseIsOfOpen
  BY <1>2 DEF PendingIsHeld, HeldOnce, OpensOnce, HeldIsOpen, CloseIsOfOpen
<1>4. QuietInv
  BY <1>2 DEF QuietInv, NoneIsLost, LongSilent, Apart
<1> QED
  BY <1>1, <1>3, <1>4 DEF Inv, SafeInv

LEMMA NextInv == Inv /\ [Next]_vars => Inv'
<1> SUFFICES ASSUME Inv, [Next]_vars PROVE Inv'
  OBVIOUS
<1>1. CASE UNCHANGED vars
  BY <1>1 DEF vars, Inv, SafeInv, TypeOK, InTime, PendingIsHeld, OpensOnce, HeldIsOpen, EmptyEntry,
     HeldOnce, CloseIsOfOpen, QuietInv, NoneIsLost, LongSilent, Apart, OverBefore, Held, Rows, OpenRows,
     LastSeen, Closed
<1> QED
  BY <1>1, AppendInv, TouchInv, BeginInv, CloseSilentInv, WriteCloseInv, WriteOpenInv,
     WriteTouchInv, StoreFailsInv, TickInv, RestartInv DEF Next, Group, Write

-----------------------------------------------------------------------------
(* Theorems.                                                                *)

\* What holds in every reachable state, and is kept by every step.
THEOREM Invariant == Spec => []Inv
BY InitInv, NextInv, PTL DEF Spec

\* Every variable keeps its type.
THEOREM TypeCorrect == Spec => []TypeOK
<1>1. Inv => TypeOK
  BY DEF Inv, SafeInv
<1> QED
  BY <1>1, Invariant, PTL

\* Without a crash the sessions in memory are the open rows, whenever no update is on its
\* way, but for those an error of the store hit (sessionizer.rs, ingest.rs).
THEOREM NothingIsLost == Spec => []OpenRowsAreTracked
<1>1. Inv => OpenRowsAreTracked
  <2> SUFFICES ASSUME Inv, crashes = 0, \A c \in Callers : local[c].pc # "write"
               PROVE  OpenRows \ unwritten =
                          ({open[p].id : p \in Projects} \ {NoSession}) \ unwritten
    BY DEF OpenRowsAreTracked, At
  <2> USE ConstantsType DEF Inv, SafeInv
  <2>1. \A c \in Callers : local[c].close = {} /\ local[c].then = "none"
    BY DEF InTime
  <2>2. \A p \in Projects : open[p].id # NoSession =>
            open[p].id \in OpenRows \/ open[p].id \in unwritten
    BY <2>1, Types DEF HeldIsOpen, OpenRows
  <2>3. \A s \in OpenRows \ unwritten : s # NoSession /\ \E p \in Projects : open[p].id = s
    BY <2>1 DEF QuietInv, NoneIsLost, Held, OpenRows
  <2> QED
    BY <2>2, <2>3
<1> QED
  BY <1>1, Invariant, PTL

\* Without a crash two sessions of a project are a gap apart, but for two delays.
THEOREM SessionsStayApart == Spec => []SessionsAreApart
<1>1. Inv => SessionsAreApart
  BY DEF Inv, QuietInv, Apart, OverBefore, SessionsAreApart
<1> QED
  BY <1>1, Invariant, PTL

\* The row of a session that has ended is final, whatever crashes.
THEOREM ClosedIsFinal == Spec => ClosedRowsAreFinal
<1>1. Inv /\ [Next]_vars => [\A s \in Sessions : Closed(s) => row'[s] = row[s]]_vars
  <2> SUFFICES ASSUME Inv, Next, NEW s \in Sessions, Closed(s) PROVE row'[s] = row[s]
    OBVIOUS
  <2> USE DEF Inv, SafeInv
  <2>1. \A c \in Callers : \A e \in local[c].close : e.id # s
    BY DEF CloseIsOfOpen, OpenRows, Rows, Closed
  <2>2. \A c \in Callers : local[c].then # "none" => local[c].entry.id # s
    <3>1. ASSUME NEW c \in Callers, local[c].then # "none", local[c].entry.id = s PROVE FALSE
      <4>1. local[c].project \in Projects /\ open[local[c].project].id = s /\ s # NoSession
        BY <3>1, Types DEF PendingIsHeld
      <4>2. s \in Rows /\ row[s].state = "closed"
        BY DEF Closed, Rows
      <4> QED
        BY <4>1, <4>2 DEF HeldIsOpen, OpensOnce
    <3> QED
      BY <3>1
  <2>3. \A r, new : r # s /\ Update(r, new) => row'[s] = row[s]
    BY DEF Update, TypeOK
  <2>4. ASSUME NEW c \in Callers, Write(c) PROVE row'[s] = row[s]
    <3>1. CASE WriteOpen(c)
      <4>1. local[c].entry.id # s
        BY <2>2, <3>1 DEF WriteOpen
      <4> QED
        BY <3>1, <4>1 DEF WriteOpen, TypeOK
    <3>2. CASE WriteTouch(c)
      <4>1. local[c].entry.id # s
        BY <2>2, <3>2 DEF WriteTouch
      <4> QED
        BY <2>3, <3>2, <4>1 DEF WriteTouch
    <3> QED
      BY <2>1, <2>3, <2>4, <3>1, <3>2 DEF Write, WriteClose
  <2> QED
    BY <2>4 DEF Next, Append, Group, Touch, Begin, CloseSilent, StoreFails, Tick, Restart
<1> QED
  BY <1>1, Invariant, PTL DEF Spec, ClosedRowsAreFinal
=============================================================================
