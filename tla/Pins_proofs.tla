----------------------------- MODULE Pins_proofs -----------------------------
(***************************************************************************)
(* Proofs about Pins, for any clients, windows and bounds.  The invariant  *)
(* says who holds the id of a pin: a handler that makes a pin is alone     *)
(* with its id until the row is inserted, and an id whose row was deleted  *)
(* never gets one again.                                                   *)
(***************************************************************************)
EXTENDS Pins, TLAPS

Making == {"load", "create", "copy", "insert"}

\* The capture loop fills the segment it made, and has a delta only until it is stored.
LoopInv ==
    /\ loop.pc = "fill" => loop.of \in Segments /\ segment[loop.of] # Nothing
    /\ loop.pc \in {"idle", "pin", "prune"} => loop.delta = {}

\* The keyring has a key as soon as one was made.
KeyInv ==
    /\ keys = 0 => secret \in {Nothing, Garbage}
    /\ keys # 0 => secret \in 1 .. keys
    /\ \A c \in Makers : hand[c].pc \in {"copy", "insert"} => hand[c].key \in 1 .. keys \cup EnvKeys
    /\ \A p \in PinIds : copies[p] # Nothing => \A f \in copies[p] : f.key \in 1 .. keys \cup EnvKeys

\* A maker about to store a key is the only one, and none was stored before it.
FirstKeyInv ==
    faults = 0 /\ raced = {} =>
        /\ keys <= 1
        /\ \A c \in Makers : hand[c].pc = "create" =>
              keys = 0 /\ \A d \in Makers \ {c} : hand[d].pc # "create"

\* Ids are handed out one by one, and the loop removes nothing.
IdInv ==
    /\ \A p \in PinIds : pin[p] # Nothing \/ copies[p] # Nothing \/ p \in nightly => p <= made
    /\ \A c \in Makers : hand[c].pc # "idle" => hand[c].pin \in 1 .. made
    /\ hand[Loop].pc \notin {"delete", "remove"}

\* A handler that makes a pin is the only one that has its id.
AloneInv ==
    \A c \in Makers : hand[c].pc \in Making =>
        /\ pin[hand[c].pin] = Nothing /\ copies[hand[c].pin] # Nothing
        /\ hand[c].pin \notin nightly
        /\ \A d \in Makers \ {c} : hand[d].pc # "idle" => hand[d].pin # hand[c].pin

\* A directory is removed when its row is gone.
GoneInv ==
    /\ \A c \in Makers : hand[c].pc = "remove" => pin[hand[c].pin] = Nothing
    /\ \A p \in nightly : pin[p] = Nothing

\* What has been copied so far.
CopyInv ==
    \A c \in Makers : hand[c].pc \in Making =>
        /\ {f.of : f \in copies[hand[c].pin]} = hand[c].listed \ hand[c].todo
        /\ hand[c].todo \subseteq hand[c].listed
        /\ hand[c].pc \in {"load", "create"} => copies[hand[c].pin] = {}
        /\ hand[c].pc = "insert" => hand[c].todo = {}
        /\ \A f \in copies[hand[c].pin] : f.key = hand[c].key

Inv ==
    /\ TypeOK /\ LoopInv /\ KeyInv /\ FirstKeyInv /\ IdInv /\ AloneInv /\ GoneInv /\ CopyInv
    /\ RowsHaveTheirCopies /\ OrphansAreSpoiled

-----------------------------------------------------------------------------
(* Types.                                                                   *)

LEMMA ConstantsType ==
    /\ MaxSegments \in Nat /\ MaxPins \in Nat /\ MaxKeys \in Nat /\ MaxNow \in Nat
    /\ MaxTroubles \in Nat /\ Ttl \in Nat /\ AutoTtl \in Nat /\ AutoWindow \in Nat
    /\ Nothing \notin Nat /\ Loop \notin Clients /\ Pictures \subseteq Nat
    /\ Nothing \notin Row /\ Nothing \notin Segment /\ Nothing \notin SUBSET Copy
BY PinsAssumption, NothingAssumption

LEMMA HandType ==
  ASSUME TypeOK, NEW c \in Makers
  PROVE  /\ hand[c] \in Handler
         /\ \A h \in Handler : [hand EXCEPT ![c] = h] \in [Makers -> Handler]
BY DEF TypeOK

LEMMA AroundType ==
  ASSUME TypeOK
  PROVE  /\ AtPrune.pc = "prune" /\ AtPrune.delta = {} /\ AtPrune.of = 0
         /\ AtPrune \in [pc : {"idle", "create", "fill", "observe", "pin", "prune"},
                         delta : SUBSET Lines, of : 0 .. MaxSegments]
         /\ Idle \in Handler /\ Idle.pc = "idle" /\ Idle.pin = 0
BY ConstantsType DEF AtPrune, Idle, Handler, TypeOK

LEMMA BeginPinType ==
  ASSUME TypeOK, NEW c \in Makers, NEW window, NEW manual \in BOOLEAN, BeginPin(c, window, manual)
  PROVE  TypeOK'
<1> USE ConstantsType, AroundType
<1> DEFINE h == [Idle EXCEPT !.pc = "load", !.pin = made + 1, !.manual = manual, !.since = now,
                             !.listed = Recent(window), !.todo = Recent(window)]
<1>1. Recent(window) \subseteq Segments /\ made + 1 \in PinIds
  BY DEF TypeOK, BeginPin, Recent, PinIds
<1>2. h \in Handler
  <2>1. Idle \in Handler
    OBVIOUS
  <2>2. now \in 0 .. MaxNow /\ made + 1 \in 0 .. MaxPins
    BY <1>1 DEF TypeOK, PinIds
  <2> QED
    BY <1>1, <2>1, <2>2 DEF Handler
<1>3. hand' = [hand EXCEPT ![c] = h]
  BY DEF BeginPin
<1>4. hand' \in [Makers -> Handler]
  BY <1>2, <1>3, HandType
<1>5. copies' \in [PinIds -> (SUBSET Copy) \cup {Nothing}] /\ made' \in 0 .. MaxPins
  BY <1>1 DEF TypeOK, BeginPin
<1> QED
  BY <1>4, <1>5 DEF TypeOK, BeginPin, ring, keyring

LEMMA CaptureType == TypeOK /\ LoopInv /\ Capture => TypeOK'
<1> SUFFICES ASSUME TypeOK, LoopInv, Capture PROVE TypeOK'
  OBVIOUS
<1> USE ConstantsType, AroundType
<1>1. ASSUME NEW picture \in Pictures, NEW text \in SUBSET Lines, Grab(picture, text)
      PROVE  TypeOK'
  BY <1>1 DEF TypeOK, Grab, Kept, keyring, table
<1>2. CASE GrabNothing
  BY <1>2 DEF TypeOK, GrabNothing, keyring, table
<1>3. CASE CreateSegment
  <2>1. PICK s \in Segments :
          /\ segment' = [segment EXCEPT ![s] = [at |-> now, epoch |-> epoch, whole |-> FALSE]]
          /\ loop' = [loop EXCEPT !.pc = "fill", !.of = s]
    BY <1>3 DEF CreateSegment, Free
  <2>2. [at |-> now, epoch |-> epoch, whole |-> FALSE] \in Segment
    BY DEF TypeOK, Segment
  <2>3. segment' \in [Segments -> Segment \cup {Nothing}]
    BY <2>1, <2>2 DEF TypeOK
  <2>4. /\ loop'.of \in 0 .. MaxSegments
        /\ loop' \in [pc : {"idle", "create", "fill", "observe", "pin", "prune"},
                     delta : SUBSET Lines, of : 0 .. MaxSegments]
    <3>1. loop' = [pc |-> "fill", delta |-> loop.delta, of |-> s] /\ loop.delta \in SUBSET Lines
      BY <2>1 DEF TypeOK
    <3> QED
      BY <3>1 DEF Segments
  <2> QED
    BY <1>3, <2>3, <2>4 DEF TypeOK, CreateSegment, keyring, table
<1>4. CASE FillSegment
  <2>1. loop.of \in Segments /\ segment[loop.of] \in Segment
    BY <1>4 DEF TypeOK, LoopInv, FillSegment
  <2>2. [segment[loop.of] EXCEPT !.whole = TRUE] \in Segment
    BY <2>1 DEF Segment
  <2>3. segment' = [segment EXCEPT ![loop.of] = [segment[loop.of] EXCEPT !.whole = TRUE]]
    BY <1>4 DEF FillSegment
  <2> QED
    BY <1>4, <2>1, <2>2, <2>3 DEF TypeOK, FillSegment, keyring, table
<1>5. CASE StoreText
  BY <1>5 DEF TypeOK, StoreText, keyring, table
<1>6. CASE AutoPin
  BY <1>6, BeginPinType DEF AutoPin, Makers
<1>7. CASE AutoPinNothing
  BY <1>7 DEF TypeOK, AutoPinNothing, keyring, table
<1>8. CASE Prune
  BY <1>8 DEF TypeOK, Prune, keyring, table
<1> QED
  BY <1>1, <1>2, <1>3, <1>4, <1>5, <1>6, <1>7, <1>8 DEF Capture

LEMMA GiveUpType ==
  ASSUME TypeOK, NEW c \in Makers, Return(c)
  PROVE  /\ hand' \in [Makers -> Handler]
         /\ loop' \in [pc : {"idle", "create", "fill", "observe", "pin", "prune"},
                       delta : SUBSET Lines, of : 0 .. MaxSegments]
BY ConstantsType, AroundType, HandType DEF TypeOK, Return

LEMMA HandleType ==
  ASSUME TypeOK, AloneInv, KeyInv, IdInv, NEW c \in Makers, Handle(c) \/ HandlerFails(c)
  PROVE  TypeOK'
<1> USE ConstantsType, AroundType
<1>0. hand[c] \in Handler
  BY HandType
<1>1. CASE LoadKey(c)
  <2>1. hand' \in [Makers -> Handler] /\ faults' \in 0 .. MaxTroubles
    BY <1>0, <1>1 DEF TypeOK, LoadKey, Fault, Handler
  <2>2. raced' \subseteq Makers
    BY <1>1 DEF TypeOK, LoadKey
  <2> QED
    BY <1>1, <2>1, <2>2 DEF TypeOK, LoadKey, ring, table
<1>9. CASE LoadFails(c)
  <2>1. hand[c].pin \in PinIds
    BY <1>9 DEF LoadFails, IdInv, TypeOK, PinIds
  <2>2. Return(c) /\ spoiled' \subseteq PinIds
    BY <1>9, <2>1 DEF LoadFails, GiveUp, TypeOK
  <2> QED
    BY <1>9, <2>2, GiveUpType DEF TypeOK, LoadFails, keyring, table
<1>2. CASE CreateKey(c)
  <2>1. keys' \in Keys /\ secret' = keys'
    BY <1>2 DEF TypeOK, CreateKey, Keys
  <2>2. hand' = [hand EXCEPT ![c] = [hand[c] EXCEPT !.pc = "copy", !.key = keys']]
    BY <1>2 DEF CreateKey, TypeOK
  <2>3. [hand[c] EXCEPT !.pc = "copy", !.key = keys'] \in Handler
    BY <1>0, <2>1 DEF Handler
  <2> QED
    BY <1>2, <2>1, <2>2, <2>3, HandType DEF TypeOK, CreateKey, Keys, ring, table
<1>3. CASE CopySegment(c)
  <2>1. PICK s \in Oldest(hand[c].todo) :
          /\ copies' = [copies EXCEPT ![hand[c].pin] = @ \cup {Sealed(c, s)}]
          /\ hand' = [hand EXCEPT ![c].todo = @ \ {s},
                                  ![c].pc = IF hand[c].todo = {s} THEN "insert" ELSE "copy"]
    BY <1>3 DEF CopySegment
  <2>2. /\ s \in Segments /\ hand[c].key \in Keys \cup EnvKeys /\ hand[c].pin \in PinIds
        /\ copies[hand[c].pin] \in SUBSET Copy
    <3>1. hand[c].pc = "copy" /\ hand[c].todo \in SUBSET Segments
      BY <1>0, <1>3 DEF CopySegment, Handler
    <3>2. hand[c].key \in 1 .. keys \cup EnvKeys /\ keys \in 0 .. MaxKeys
      BY <3>1 DEF KeyInv, TypeOK
    <3>3. hand[c].pin \in 1 .. made /\ made \in 0 .. MaxPins
      BY <3>1 DEF IdInv, TypeOK
    <3>4. hand[c].pin \in PinIds /\ hand[c].key \in Keys \cup EnvKeys
      BY <3>2, <3>3 DEF PinIds, Keys
    <3>5. copies[hand[c].pin] # Nothing
      BY <3>1 DEF AloneInv, Making
    <3> QED
      BY <2>1, <3>1, <3>4, <3>5 DEF TypeOK, Oldest
  <2>3. Sealed(c, s) \in Copy
    BY <2>2 DEF Sealed, Copy
  <2>4. copies' \in [PinIds -> (SUBSET Copy) \cup {Nothing}]
    BY <2>1, <2>2, <2>3 DEF TypeOK
  <2>5. hand' \in [Makers -> Handler]
    BY <1>0, <2>1 DEF TypeOK, Handler
  <2> QED
    BY <1>3, <2>4, <2>5 DEF TypeOK, CopySegment, ring, keyring
<1>4. CASE CopyFails(c)
  <2>1. hand[c].pin \in PinIds
    BY <1>4 DEF CopyFails, IdInv, TypeOK, PinIds
  <2>2. Return(c) /\ spoiled' \subseteq PinIds
    BY <1>4, <2>1 DEF CopyFails, GiveUp, TypeOK
  <2> QED
    BY <1>4, <2>2, GiveUpType DEF TypeOK, CopyFails, keyring, table
<1>5. CASE InsertPin(c)
  <2> DEFINE row == [manual |-> hand[c].manual, listed |-> hand[c].listed,
                     expires |-> IF hand[c].manual THEN Nothing ELSE hand[c].since + AutoTtl]
  <2>1. row \in Row
    BY <1>0 DEF Row, Handler
  <2>2. pin' = [pin EXCEPT ![hand[c].pin] = row]
    BY <1>5 DEF InsertPin
  <2> HIDE DEF row
  <2> QED
    <3>1. pin' \in [PinIds -> Row \cup {Nothing}] /\ Return(c)
      <4>1. pin \in [PinIds -> Row \cup {Nothing}] /\ Return(c)
        BY <1>5 DEF TypeOK, InsertPin
      <4> QED
        BY <2>1, <2>2, <4>1
    <3> QED
      BY <1>5, <3>1, GiveUpType DEF TypeOK, InsertPin, keyring
<1>6. CASE DeleteRow(c)
  <2>1. hand' \in [Makers -> Handler]
    BY <1>0, <1>6 DEF TypeOK, DeleteRow, Handler
  <2> QED
    BY <1>6, <2>1 DEF TypeOK, DeleteRow, ring, keyring
<1>7. CASE RemoveCopies(c)
  BY <1>7, GiveUpType DEF TypeOK, RemoveCopies, keyring
<1>8. CASE HandlerFails(c)
  <2>1. hand[c].pin \in PinIds
    BY <1>8, SMTT(30) DEF HandlerFails, IdInv, TypeOK, PinIds
  <2>2. Return(c) /\ spoiled' \subseteq PinIds /\ faults' \in 0 .. MaxTroubles
    BY <1>8, <2>1 DEF HandlerFails, Fault, GiveUp, TypeOK
  <2> QED
    BY <1>8, <2>2, GiveUpType DEF TypeOK, HandlerFails, keyring, table
<1> QED
  BY <1>1, <1>2, <1>3, <1>4, <1>5, <1>6, <1>7, <1>8, <1>9 DEF Handle

LEMMA RestType ==
  ASSUME TypeOK, IdInv,
         \/ Nightly \/ Tick \/ Crash \/ RoundFails \/ UNCHANGED vars
         \/ \E c \in Makers, window \in Windows : PinRecent(c, window)
         \/ \E c \in Makers, p \in PinIds : Unpin(c, p)
         \/ \E p \in PinIds : UnlinkFails(p)
  PROVE  TypeOK'
<1> USE ConstantsType, AroundType
<1>1. CASE NightlyExpire
  BY <1>1 DEF TypeOK, NightlyExpire, Expired, ring, keyring
<1>2. ASSUME NEW p \in PinIds, NightlyUnlink(p) PROVE TypeOK'
  BY <1>2 DEF TypeOK, NightlyUnlink, ring, keyring
<1>3. CASE Tick
  BY <1>3 DEF TypeOK, Tick, ring, keyring, table
<1>4. CASE Crash
  <2>1. InFlight \subseteq PinIds
    <3>1. \A c \in Makers : hand[c].pc # "idle" => hand[c].pin \in PinIds
      BY DEF TypeOK, IdInv, PinIds
    <3> QED
      BY <3>1 DEF TypeOK, InFlight
  <2> QED
    BY <1>4, <2>1 DEF TypeOK, Crash, Blank, table
<1>5. CASE RoundFails
  BY <1>5 DEF TypeOK, RoundFails, Fault, keyring, table
<1>6. CASE UNCHANGED vars
  BY <1>6 DEF TypeOK, vars, ring, keyring, table
<1>7. ASSUME NEW c \in Makers, NEW window \in Windows, PinRecent(c, window) PROVE TypeOK'
  BY <1>7, BeginPinType DEF PinRecent
<1>8. ASSUME NEW c \in Makers, NEW p \in PinIds, Unpin(c, p) PROVE TypeOK'
  <2>1. [Idle EXCEPT !.pc = "delete", !.pin = p] \in Handler
    <3>1. Idle \in Handler /\ p \in 0 .. MaxPins
      BY DEF PinIds
    <3> QED
      BY <3>1 DEF Handler
  <2> QED
    BY <1>8, <2>1, HandType DEF TypeOK, Unpin, ring, keyring, table
<1>9. ASSUME NEW p \in PinIds, UnlinkFails(p) PROVE TypeOK'
  BY <1>9 DEF TypeOK, UnlinkFails, Fault, ring, keyring, table
<1> QED
  BY <1>1, <1>2, <1>3, <1>4, <1>5, <1>6, <1>7, <1>8, <1>9 DEF Nightly

LEMMA NextType == TypeOK /\ LoopInv /\ AloneInv /\ KeyInv /\ IdInv /\ [Next]_vars => TypeOK'
BY CaptureType, HandleType, RestType DEF Next

-----------------------------------------------------------------------------
(* Steps.                                                                   *)

Held == KeyInv /\ IdInv /\ AloneInv /\ GoneInv /\ CopyInv /\ RowsHaveTheirCopies /\ OrphansAreSpoiled

LEMMA QuietHeld ==
  ASSUME Held, UNCHANGED <<secret, keys, copies, pin, made, hand, nightly, spoiled>>
  PROVE  Held'
BY DEF Held, KeyInv, IdInv, AloneInv, GoneInv, CopyInv, RowsHaveTheirCopies, OrphansAreSpoiled,
       InFlight, Making

LEMMA ImageUnion ==
  ASSUME NEW A, NEW r
  PROVE  {f.of : f \in A \cup {r}} = {f.of : f \in A} \cup {r.of}
OBVIOUS

LEMMA BeginPinHeld ==
  ASSUME TypeOK, Held, NEW c \in Makers, NEW window, NEW manual \in BOOLEAN, BeginPin(c, window, manual)
  PROVE  Held'
<1> USE ConstantsType DEF Held
<1>1. hand[c].pc = "idle" /\ made < MaxPins /\ made \in 0 .. MaxPins /\ hand \in [Makers -> Handler]
  BY DEF BeginPin, TypeOK
<1>2. /\ hand'[c].pc = "load" /\ hand'[c].pin = made + 1 /\ hand'[c].key = Nothing
      /\ hand'[c].listed = Recent(window) /\ hand'[c].todo = Recent(window)
      /\ \A d \in Makers \ {c} : hand'[d] = hand[d]
  BY <1>1 DEF BeginPin, Idle
<1>3. /\ made' = made + 1 /\ made + 1 \in PinIds
      /\ copies'[made + 1] = {} /\ \A p \in PinIds \ {made + 1} : copies'[p] = copies[p]
      /\ UNCHANGED <<secret, keys, pin, nightly, spoiled>>
  BY <1>1 DEF BeginPin, TypeOK, PinIds, keyring
<1>4. /\ pin[made + 1] = Nothing /\ copies[made + 1] = Nothing /\ made + 1 \notin nightly
      /\ \A d \in Makers : hand[d].pc # "idle" => hand[d].pin # made + 1 /\ hand[d].pin \in PinIds
      /\ {} # Nothing
  BY <1>1, <1>3 DEF IdInv, PinIds
<1>5. KeyInv'
  BY <1>1, <1>2, <1>3, <1>4 DEF KeyInv
<1>6. IdInv'
  BY <1>1, <1>2, <1>3, <1>4 DEF IdInv, PinIds, Makers
<1>7. AloneInv'
  BY <1>1, <1>2, <1>3, <1>4 DEF AloneInv, Making
<1>8. GoneInv'
  BY <1>1, <1>2, <1>3, <1>4 DEF GoneInv, Making, AloneInv
<1>9. CopyInv'
  BY <1>1, <1>2, <1>3, <1>4 DEF CopyInv, Making, AloneInv
<1>10. RowsHaveTheirCopies'
  BY <1>1, <1>2, <1>3, <1>4 DEF RowsHaveTheirCopies, Making, AloneInv, GoneInv, CopyInv
<1>11. OrphansAreSpoiled'
  BY <1>1, <1>2, <1>3, <1>4 DEF OrphansAreSpoiled, Making, InFlight
<1> QED
  BY <1>5, <1>6, <1>7, <1>8, <1>9, <1>10, <1>11

LEMMA LoadKeyHeld ==
  ASSUME TypeOK, Held, NEW c \in Makers, LoadKey(c)
  PROVE  Held'
<1> USE ConstantsType DEF Held
<1>1. /\ made \in 0 .. MaxPins /\ keys \in 0 .. MaxKeys /\ nightly \subseteq PinIds
      /\ hand \in [Makers -> Handler]
      /\ copies \in [PinIds -> (SUBSET Copy) \cup {Nothing}] /\ pin \in [PinIds -> Row \cup {Nothing}]
  BY DEF TypeOK
<1>2. \A d \in Makers : hand[d].pc # "idle" => hand[d].pin \in PinIds
  BY <1>1 DEF IdInv, PinIds
<1>3. hand[c].pc = "load"
  BY DEF LoadKey
<1>4. /\ hand'[c].pc \in {"copy", "create"} /\ hand'[c].pin = hand[c].pin
      /\ hand'[c].pc = "copy" => hand'[c].key \in EnvKeys \/ (hand'[c].key = secret /\ secret \in Keys)
      /\ hand'[c].listed = hand[c].listed /\ hand'[c].todo = hand[c].todo
      /\ \A d \in Makers \ {c} : hand'[d] = hand[d]
  BY <1>1 DEF LoadKey, Handler
<1>5. UNCHANGED <<secret, keys, copies, pin, made, nightly, spoiled>>
  BY DEF LoadKey, table
<1>6. KeyInv'
  <2>1. secret \in Keys => secret \in 1 .. keys
    BY <1>1, PinsAssumption DEF KeyInv, Keys
  <2> QED
    BY <1>1, <1>2, <1>3, <1>4, <1>5, <2>1 DEF KeyInv
<1>7. IdInv'
  BY <1>1, <1>2, <1>3, <1>4, <1>5 DEF IdInv, PinIds, Makers
<1>8. AloneInv'
  BY <1>1, <1>2, <1>3, <1>4, <1>5 DEF AloneInv, Making
<1>9. GoneInv'
  BY <1>1, <1>2, <1>3, <1>4, <1>5 DEF GoneInv, Making, AloneInv
<1>10. CopyInv'
  BY <1>1, <1>2, <1>3, <1>4, <1>5 DEF CopyInv, Making, AloneInv
<1>11. RowsHaveTheirCopies'
  BY <1>1, <1>2, <1>3, <1>4, <1>5 DEF RowsHaveTheirCopies, Making, AloneInv, GoneInv, CopyInv
<1>12. OrphansAreSpoiled'
  BY <1>1, <1>2, <1>3, <1>4, <1>5 DEF OrphansAreSpoiled, Making, InFlight
<1> QED
  BY <1>6, <1>7, <1>8, <1>9, <1>10, <1>11, <1>12

LEMMA CreateKeyHeld ==
  ASSUME TypeOK, Held, NEW c \in Makers, CreateKey(c)
  PROVE  Held'
<1> USE ConstantsType DEF Held
<1>1. /\ made \in 0 .. MaxPins /\ keys \in 0 .. MaxKeys /\ nightly \subseteq PinIds
      /\ hand \in [Makers -> Handler]
      /\ copies \in [PinIds -> (SUBSET Copy) \cup {Nothing}] /\ pin \in [PinIds -> Row \cup {Nothing}]
  BY DEF TypeOK
<1>2. \A d \in Makers : hand[d].pc # "idle" => hand[d].pin \in PinIds
  BY <1>1 DEF IdInv, PinIds
<1>3. hand[c].pc = "create" /\ keys' = keys + 1 /\ secret' = keys + 1
  BY DEF CreateKey
<1>4. /\ hand'[c].pc = "copy" /\ hand'[c].pin = hand[c].pin /\ hand'[c].key = keys + 1
      /\ hand'[c].listed = hand[c].listed /\ hand'[c].todo = hand[c].todo
      /\ \A d \in Makers \ {c} : hand'[d] = hand[d]
  BY <1>1 DEF CreateKey, Handler
<1>5. UNCHANGED <<copies, pin, made, nightly, spoiled>>
  BY DEF CreateKey, table
<1>6. KeyInv'
  BY <1>1, <1>2, <1>3, <1>4, <1>5 DEF KeyInv
<1>7. IdInv'
  BY <1>1, <1>2, <1>3, <1>4, <1>5 DEF IdInv, PinIds, Makers
<1>8. AloneInv'
  BY <1>1, <1>2, <1>3, <1>4, <1>5 DEF AloneInv, Making
<1>9. GoneInv'
  BY <1>1, <1>2, <1>3, <1>4, <1>5 DEF GoneInv, Making, AloneInv
<1>10. CopyInv'
  BY <1>1, <1>2, <1>3, <1>4, <1>5 DEF CopyInv, Making, AloneInv
<1>11. RowsHaveTheirCopies'
  BY <1>1, <1>2, <1>3, <1>4, <1>5 DEF RowsHaveTheirCopies, Making, AloneInv, GoneInv, CopyInv
<1>12. OrphansAreSpoiled'
  BY <1>1, <1>2, <1>3, <1>4, <1>5 DEF OrphansAreSpoiled, Making, InFlight
<1> QED
  BY <1>6, <1>7, <1>8, <1>9, <1>10, <1>11, <1>12

LEMMA CopySegmentHeld ==
  ASSUME TypeOK, Held, NEW c \in Makers, CopySegment(c)
  PROVE  Held'
<1> USE ConstantsType DEF Held
<1>1. /\ made \in 0 .. MaxPins /\ keys \in 0 .. MaxKeys /\ nightly \subseteq PinIds
      /\ hand \in [Makers -> Handler]
      /\ copies \in [PinIds -> (SUBSET Copy) \cup {Nothing}] /\ pin \in [PinIds -> Row \cup {Nothing}]
  BY DEF TypeOK
<1>2. \A d \in Makers : hand[d].pc # "idle" => hand[d].pin \in PinIds
  BY <1>1 DEF IdInv, PinIds
<1>3. hand[c].pc = "copy" /\ hand[c].pin \in PinIds /\ copies[hand[c].pin] # Nothing
  BY <1>1, <1>2 DEF CopySegment, AloneInv, Making
<1>4. PICK s \in hand[c].todo :
        /\ copies' = [copies EXCEPT ![hand[c].pin] = @ \cup {[of |-> s, key |-> hand[c].key]}]
        /\ hand' = [hand EXCEPT ![c].todo = @ \ {s},
                                ![c].pc = IF hand[c].todo = {s} THEN "insert" ELSE "copy"]
  BY DEF CopySegment, Oldest, Sealed
<1>5. /\ hand'[c].pc \in {"copy", "insert"} /\ hand'[c].pin = hand[c].pin /\ hand'[c].key = hand[c].key
      /\ hand'[c].listed = hand[c].listed /\ hand'[c].todo = hand[c].todo \ {s}
      /\ hand'[c].pc = "insert" => hand'[c].todo = {}
      /\ \A d \in Makers \ {c} : hand'[d] = hand[d]
  BY <1>1, <1>4 DEF Handler
<1>6. /\ copies'[hand[c].pin] = copies[hand[c].pin] \cup {[of |-> s, key |-> hand[c].key]}
      /\ copies'[hand[c].pin] # Nothing
      /\ \A p \in PinIds \ {hand[c].pin} : copies'[p] = copies[p]
  <2>1. hand[c] \in Handler /\ hand[c].key \in 1 .. keys \cup EnvKeys
    BY <1>3, HandType DEF KeyInv
  <2>2. [of |-> s, key |-> hand[c].key] \in Copy
    BY <1>1, <2>1 DEF Copy, Handler, Keys
  <2>3. copies[hand[c].pin] \cup {[of |-> s, key |-> hand[c].key]} \in SUBSET Copy
    BY <1>1, <1>3, <2>2
  <2> QED
    BY <1>1, <1>3, <1>4, <2>3
<1>7. UNCHANGED <<secret, keys, pin, made, nightly, spoiled>>
  BY DEF CopySegment, keyring
<1>8. KeyInv'
  BY <1>1, <1>2, <1>3, <1>4, <1>5, <1>6, <1>7 DEF KeyInv
<1>9. IdInv'
  BY <1>1, <1>2, <1>3, <1>4, <1>5, <1>6, <1>7 DEF IdInv, PinIds, Makers
<1>10. AloneInv'
  BY <1>1, <1>2, <1>3, <1>4, <1>5, <1>6, <1>7 DEF AloneInv, Making
<1>11. GoneInv'
  BY <1>1, <1>2, <1>3, <1>4, <1>5, <1>6, <1>7 DEF GoneInv, Making, AloneInv
<1>12. CopyInv'
  <2>1. ASSUME NEW d \in Makers \ {c}, hand'[d].pc \in Making
        PROVE  copies'[hand'[d].pin] = copies[hand[d].pin] /\ hand'[d] = hand[d]
    BY <1>2, <1>3, <1>5, <1>6, <2>1 DEF AloneInv, Making
  <2>2. {f.of : f \in copies'[hand[c].pin]} = {f.of : f \in copies[hand[c].pin]} \cup {s}
    <3> DEFINE r == [of |-> s, key |-> hand[c].key]
    <3>1. r.of = s
      OBVIOUS
    <3>2. copies'[hand[c].pin] = copies[hand[c].pin] \cup {r}
      BY <1>6
    <3> HIDE DEF r
    <3> QED
      BY <3>1, <3>2, ImageUnion
  <2>3. {f.of : f \in copies'[hand'[c].pin]} = hand'[c].listed \ hand'[c].todo
    <3>1. s \in hand[c].todo
      BY <1>4
    <3>2. /\ {f.of : f \in copies[hand[c].pin]} = hand[c].listed \ hand[c].todo
          /\ hand[c].todo \subseteq hand[c].listed
      BY <1>3 DEF CopyInv, Making
    <3>3. (hand[c].listed \ hand[c].todo) \cup {s} = hand[c].listed \ (hand[c].todo \ {s})
      BY <3>1, <3>2
    <3> QED
      BY <1>5, <2>2, <3>2, <3>3
  <2>4. \A f \in copies'[hand'[c].pin] : f.key = hand'[c].key
    BY <1>3, <1>5, <1>6 DEF CopyInv, Making
  <2> QED
    BY <1>3, <1>5, <2>1, <2>3, <2>4 DEF CopyInv, Making
<1>13. RowsHaveTheirCopies'
  BY <1>1, <1>2, <1>3, <1>4, <1>5, <1>6, <1>7 DEF RowsHaveTheirCopies, Making, AloneInv, GoneInv, CopyInv
<1>14. OrphansAreSpoiled'
  BY <1>1, <1>2, <1>3, <1>4, <1>5, <1>6, <1>7 DEF OrphansAreSpoiled, Making, InFlight
<1> QED
  BY <1>8, <1>9, <1>10, <1>11, <1>12, <1>13, <1>14

LEMMA GiveUpHeld ==
  ASSUME TypeOK, Held, NEW c \in Makers, GiveUp(c), hand[c].pc \in Making \cup {"remove"},
         UNCHANGED <<secret, keys, copies, pin, made, nightly>>
  PROVE  Held'
<1> USE ConstantsType DEF Held
<1>1. /\ made \in 0 .. MaxPins /\ keys \in 0 .. MaxKeys /\ nightly \subseteq PinIds
      /\ hand \in [Makers -> Handler]
      /\ copies \in [PinIds -> (SUBSET Copy) \cup {Nothing}] /\ pin \in [PinIds -> Row \cup {Nothing}]
  BY DEF TypeOK
<1>2. \A d \in Makers : hand[d].pc # "idle" => hand[d].pin \in PinIds
  BY <1>1 DEF IdInv, PinIds
<1>3. spoiled' = spoiled \cup {hand[c].pin}
  BY DEF GiveUp
<1>4. /\ hand'[c].pc = "idle"
      /\ \A d \in Makers \ {c} : hand'[d] = hand[d]
  BY <1>1 DEF GiveUp, Return, Idle
<1>5. KeyInv'
  BY <1>1, <1>2, <1>3, <1>4 DEF KeyInv
<1>6. IdInv'
  BY <1>1, <1>2, <1>3, <1>4 DEF IdInv, PinIds, Makers
<1>7. AloneInv'
  BY <1>1, <1>2, <1>3, <1>4 DEF AloneInv, Making
<1>8. GoneInv'
  BY <1>1, <1>2, <1>3, <1>4 DEF GoneInv, Making, AloneInv
<1>9. CopyInv'
  BY <1>1, <1>2, <1>3, <1>4 DEF CopyInv, Making, AloneInv
<1>10. RowsHaveTheirCopies'
  BY <1>1, <1>2, <1>3, <1>4 DEF RowsHaveTheirCopies, Making, AloneInv, GoneInv, CopyInv
<1>11. OrphansAreSpoiled'
  BY <1>1, <1>2, <1>3, <1>4 DEF OrphansAreSpoiled, Making, InFlight
<1> QED
  BY <1>5, <1>6, <1>7, <1>8, <1>9, <1>10, <1>11

LEMMA InsertPinHeld ==
  ASSUME TypeOK, Held, NEW c \in Makers, InsertPin(c)
  PROVE  Held'
<1> USE ConstantsType DEF Held
<1>1. /\ made \in 0 .. MaxPins /\ keys \in 0 .. MaxKeys /\ nightly \subseteq PinIds
      /\ hand \in [Makers -> Handler]
      /\ copies \in [PinIds -> (SUBSET Copy) \cup {Nothing}] /\ pin \in [PinIds -> Row \cup {Nothing}]
  BY DEF TypeOK
<1>2. \A d \in Makers : hand[d].pc # "idle" => hand[d].pin \in PinIds
  BY <1>1 DEF IdInv, PinIds
<1>3. hand[c].pc = "insert" /\ hand[c].pin \in PinIds
  BY <1>2 DEF InsertPin
<1>4. /\ pin'[hand[c].pin] # Nothing /\ pin'[hand[c].pin].listed = hand[c].listed
      /\ \A p \in PinIds \ {hand[c].pin} : pin'[p] = pin[p]
  <2> DEFINE row == [manual |-> hand[c].manual, listed |-> hand[c].listed,
                     expires |-> IF hand[c].manual THEN Nothing ELSE hand[c].since + AutoTtl]
  <2>1. row \in Row /\ row.listed = hand[c].listed
    <3>1. hand[c] \in Handler
      BY HandType
    <3> QED
      BY <3>1 DEF Row, Handler
  <2>2. pin' = [pin EXCEPT ![hand[c].pin] = row]
    BY DEF InsertPin
  <2> HIDE DEF row
  <2> QED
    BY <1>1, <1>3, <2>1, <2>2
<1>5. /\ hand'[c].pc = "idle"
      /\ \A d \in Makers \ {c} : hand'[d] = hand[d]
  BY <1>1 DEF InsertPin, Return, Idle
<1>6. UNCHANGED <<secret, keys, copies, made, nightly, spoiled>>
  BY DEF InsertPin, keyring
<1>7. KeyInv'
  BY <1>1, <1>2, <1>3, <1>4, <1>5, <1>6 DEF KeyInv
<1>8. IdInv'
  BY <1>1, <1>2, <1>3, <1>4, <1>5, <1>6 DEF IdInv, PinIds, Makers
<1>9. AloneInv'
  BY <1>1, <1>2, <1>3, <1>4, <1>5, <1>6 DEF AloneInv, Making
<1>10. GoneInv'
  BY <1>1, <1>2, <1>3, <1>4, <1>5, <1>6 DEF GoneInv, Making, AloneInv
<1>11. CopyInv'
  BY <1>1, <1>2, <1>3, <1>4, <1>5, <1>6 DEF CopyInv, Making, AloneInv
<1>12. RowsHaveTheirCopies'
  BY <1>1, <1>2, <1>3, <1>4, <1>5, <1>6 DEF RowsHaveTheirCopies, Making, AloneInv, GoneInv, CopyInv
<1>13. OrphansAreSpoiled'
  BY <1>1, <1>2, <1>3, <1>4, <1>5, <1>6 DEF OrphansAreSpoiled, Making, InFlight
<1> QED
  BY <1>7, <1>8, <1>9, <1>10, <1>11, <1>12, <1>13

LEMMA DeleteRowHeld ==
  ASSUME TypeOK, Held, NEW c \in Makers, DeleteRow(c)
  PROVE  Held'
<1> USE ConstantsType DEF Held
<1>1. /\ made \in 0 .. MaxPins /\ keys \in 0 .. MaxKeys /\ nightly \subseteq PinIds
      /\ hand \in [Makers -> Handler]
      /\ copies \in [PinIds -> (SUBSET Copy) \cup {Nothing}] /\ pin \in [PinIds -> Row \cup {Nothing}]
  BY DEF TypeOK
<1>2. \A d \in Makers : hand[d].pc # "idle" => hand[d].pin \in PinIds
  BY <1>1 DEF IdInv, PinIds
<1>3. hand[c].pc = "delete" /\ hand[c].pin \in PinIds
  BY <1>2 DEF DeleteRow
<1>4. /\ pin'[hand[c].pin] = Nothing
      /\ \A p \in PinIds \ {hand[c].pin} : pin'[p] = pin[p]
  BY <1>1, <1>3 DEF DeleteRow
<1>5. /\ hand'[c].pc = "remove" /\ hand'[c].pin = hand[c].pin
      /\ \A d \in Makers \ {c} : hand'[d] = hand[d]
  BY <1>1 DEF DeleteRow, Handler
<1>6. UNCHANGED <<secret, keys, copies, made, nightly, spoiled>>
  BY DEF DeleteRow, keyring
<1>7. KeyInv'
  BY <1>1, <1>2, <1>3, <1>4, <1>5, <1>6 DEF KeyInv
<1>8. IdInv'
  BY <1>1, <1>2, <1>3, <1>4, <1>5, <1>6 DEF IdInv, PinIds, Makers
<1>9. AloneInv'
  BY <1>1, <1>2, <1>3, <1>4, <1>5, <1>6 DEF AloneInv, Making
<1>10. GoneInv'
  BY <1>1, <1>2, <1>3, <1>4, <1>5, <1>6 DEF GoneInv, Making, AloneInv
<1>11. CopyInv'
  BY <1>1, <1>2, <1>3, <1>4, <1>5, <1>6 DEF CopyInv, Making, AloneInv
<1>12. RowsHaveTheirCopies'
  BY <1>1, <1>2, <1>3, <1>4, <1>5, <1>6 DEF RowsHaveTheirCopies, Making, AloneInv, GoneInv, CopyInv
<1>13. OrphansAreSpoiled'
  BY <1>1, <1>2, <1>3, <1>4, <1>5, <1>6 DEF OrphansAreSpoiled, Making, InFlight
<1> QED
  BY <1>7, <1>8, <1>9, <1>10, <1>11, <1>12, <1>13

LEMMA RemoveCopiesHeld ==
  ASSUME TypeOK, Held, NEW c \in Makers, RemoveCopies(c)
  PROVE  Held'
<1> USE ConstantsType DEF Held
<1>1. /\ made \in 0 .. MaxPins /\ keys \in 0 .. MaxKeys /\ nightly \subseteq PinIds
      /\ hand \in [Makers -> Handler]
      /\ copies \in [PinIds -> (SUBSET Copy) \cup {Nothing}] /\ pin \in [PinIds -> Row \cup {Nothing}]
  BY DEF TypeOK
<1>2. \A d \in Makers : hand[d].pc # "idle" => hand[d].pin \in PinIds
  BY <1>1 DEF IdInv, PinIds
<1>3. hand[c].pc = "remove" /\ hand[c].pin \in PinIds
  BY <1>2 DEF RemoveCopies
<1>4. /\ copies'[hand[c].pin] = Nothing
      /\ \A p \in PinIds \ {hand[c].pin} : copies'[p] = copies[p]
  BY <1>1, <1>3 DEF RemoveCopies
<1>5. /\ hand'[c].pc = "idle"
      /\ \A d \in Makers \ {c} : hand'[d] = hand[d]
  BY <1>1 DEF RemoveCopies, Return, Idle
<1>6. UNCHANGED <<secret, keys, pin, made, nightly, spoiled>>
  BY DEF RemoveCopies, keyring
<1>7. KeyInv'
  BY <1>1, <1>2, <1>3, <1>4, <1>5, <1>6 DEF KeyInv
<1>8. IdInv'
  BY <1>1, <1>2, <1>3, <1>4, <1>5, <1>6 DEF IdInv, PinIds, Makers
<1>9. AloneInv'
  BY <1>1, <1>2, <1>3, <1>4, <1>5, <1>6 DEF AloneInv, Making
<1>10. GoneInv'
  BY <1>1, <1>2, <1>3, <1>4, <1>5, <1>6 DEF GoneInv, Making, AloneInv
<1>11. CopyInv'
  BY <1>1, <1>2, <1>3, <1>4, <1>5, <1>6 DEF CopyInv, Making, AloneInv
<1>12. RowsHaveTheirCopies'
  BY <1>1, <1>2, <1>3, <1>4, <1>5, <1>6 DEF RowsHaveTheirCopies, Making, AloneInv, GoneInv, CopyInv
<1>13. OrphansAreSpoiled'
  BY <1>1, <1>2, <1>3, <1>4, <1>5, <1>6 DEF OrphansAreSpoiled, Making, InFlight
<1> QED
  BY <1>7, <1>8, <1>9, <1>10, <1>11, <1>12, <1>13

LEMMA UnpinHeld ==
  ASSUME TypeOK, Held, NEW c \in Makers, NEW q \in PinIds, Unpin(c, q)
  PROVE  Held'
<1> USE ConstantsType DEF Held
<1>1. /\ made \in 0 .. MaxPins /\ keys \in 0 .. MaxKeys /\ nightly \subseteq PinIds
      /\ hand \in [Makers -> Handler]
      /\ copies \in [PinIds -> (SUBSET Copy) \cup {Nothing}] /\ pin \in [PinIds -> Row \cup {Nothing}]
  BY DEF TypeOK
<1>2. \A d \in Makers : hand[d].pc # "idle" => hand[d].pin \in PinIds
  BY <1>1 DEF IdInv, PinIds
<1>3. hand[c].pc = "idle" /\ pin[q] # Nothing /\ c # Loop
  BY ConstantsType DEF Unpin
<1>4. /\ hand'[c].pc = "delete" /\ hand'[c].pin = q
      /\ \A d \in Makers \ {c} : hand'[d] = hand[d]
  BY <1>1 DEF Unpin, Idle
<1>5. UNCHANGED <<secret, keys, copies, pin, made, nightly, spoiled>>
  BY DEF Unpin, keyring, table
<1>6. KeyInv'
  BY <1>1, <1>2, <1>3, <1>4, <1>5 DEF KeyInv
<1>7. IdInv'
  BY <1>1, <1>2, <1>3, <1>4, <1>5 DEF IdInv, PinIds, Makers
<1>8. AloneInv'
  BY <1>1, <1>2, <1>3, <1>4, <1>5 DEF AloneInv, Making
<1>9. GoneInv'
  BY <1>1, <1>2, <1>3, <1>4, <1>5 DEF GoneInv, Making, AloneInv
<1>10. CopyInv'
  BY <1>1, <1>2, <1>3, <1>4, <1>5 DEF CopyInv, Making, AloneInv
<1>11. RowsHaveTheirCopies'
  BY <1>1, <1>2, <1>3, <1>4, <1>5 DEF RowsHaveTheirCopies, Making, AloneInv, GoneInv, CopyInv
<1>12. OrphansAreSpoiled'
  BY <1>1, <1>2, <1>3, <1>4, <1>5 DEF OrphansAreSpoiled, Making, InFlight
<1> QED
  BY <1>6, <1>7, <1>8, <1>9, <1>10, <1>11, <1>12

LEMMA NightlyExpireHeld ==
  ASSUME TypeOK, Held, NightlyExpire
  PROVE  Held'
<1> USE ConstantsType DEF Held
<1>1. /\ made \in 0 .. MaxPins /\ keys \in 0 .. MaxKeys /\ nightly \subseteq PinIds
      /\ hand \in [Makers -> Handler]
      /\ copies \in [PinIds -> (SUBSET Copy) \cup {Nothing}] /\ pin \in [PinIds -> Row \cup {Nothing}]
  BY DEF TypeOK
<1>2. \A d \in Makers : hand[d].pc # "idle" => hand[d].pin \in PinIds
  BY <1>1 DEF IdInv, PinIds
<1>3. /\ nightly = {} /\ nightly' = Expired(now)
      /\ \A p \in PinIds : pin'[p] = IF p \in Expired(now) THEN Nothing ELSE pin[p]
  BY DEF NightlyExpire
<1>4. \A p \in Expired(now) : p \in PinIds /\ pin[p] # Nothing
  BY DEF Expired
<1>5. UNCHANGED <<secret, keys, copies, made, hand, spoiled>>
  BY DEF NightlyExpire, keyring
<1>6. KeyInv'
  BY <1>1, <1>2, <1>3, <1>4, <1>5 DEF KeyInv
<1>7. IdInv'
  BY <1>1, <1>2, <1>3, <1>4, <1>5 DEF IdInv, PinIds, Makers
<1>8. AloneInv'
  BY <1>1, <1>2, <1>3, <1>4, <1>5 DEF AloneInv, Making
<1>9. GoneInv'
  BY <1>1, <1>2, <1>3, <1>4, <1>5 DEF GoneInv, Making, AloneInv
<1>10. CopyInv'
  BY <1>1, <1>2, <1>3, <1>4, <1>5 DEF CopyInv, Making, AloneInv
<1>11. RowsHaveTheirCopies'
  BY <1>1, <1>2, <1>3, <1>4, <1>5 DEF RowsHaveTheirCopies, Making, AloneInv, GoneInv, CopyInv
<1>12. OrphansAreSpoiled'
  BY <1>1, <1>2, <1>3, <1>4, <1>5 DEF OrphansAreSpoiled, Making, InFlight
<1> QED
  BY <1>6, <1>7, <1>8, <1>9, <1>10, <1>11, <1>12

LEMMA NightlyUnlinkHeld ==
  ASSUME TypeOK, Held, NEW q \in PinIds, NightlyUnlink(q)
  PROVE  Held'
<1> USE ConstantsType DEF Held
<1>1. /\ made \in 0 .. MaxPins /\ keys \in 0 .. MaxKeys /\ nightly \subseteq PinIds
      /\ hand \in [Makers -> Handler]
      /\ copies \in [PinIds -> (SUBSET Copy) \cup {Nothing}] /\ pin \in [PinIds -> Row \cup {Nothing}]
  BY DEF TypeOK
<1>2. \A d \in Makers : hand[d].pc # "idle" => hand[d].pin \in PinIds
  BY <1>1 DEF IdInv, PinIds
<1>3. /\ q \in nightly /\ nightly' = nightly \ {q} /\ copies'[q] = Nothing
      /\ \A p \in PinIds \ {q} : copies'[p] = copies[p]
  BY <1>1 DEF NightlyUnlink
<1>4. UNCHANGED <<secret, keys, pin, made, hand, spoiled>>
  BY DEF NightlyUnlink, keyring
<1>5. KeyInv'
  BY <1>1, <1>2, <1>3, <1>4 DEF KeyInv
<1>6. IdInv'
  BY <1>1, <1>2, <1>3, <1>4 DEF IdInv, PinIds, Makers
<1>7. AloneInv'
  BY <1>1, <1>2, <1>3, <1>4 DEF AloneInv, Making
<1>8. GoneInv'
  BY <1>1, <1>2, <1>3, <1>4 DEF GoneInv, Making, AloneInv
<1>9. CopyInv'
  BY <1>1, <1>2, <1>3, <1>4 DEF CopyInv, Making, AloneInv
<1>10. RowsHaveTheirCopies'
  BY <1>1, <1>2, <1>3, <1>4 DEF RowsHaveTheirCopies, Making, AloneInv, GoneInv, CopyInv
<1>11. OrphansAreSpoiled'
  BY <1>1, <1>2, <1>3, <1>4 DEF OrphansAreSpoiled, Making, InFlight
<1> QED
  BY <1>5, <1>6, <1>7, <1>8, <1>9, <1>10, <1>11

LEMMA UnlinkFailsHeld ==
  ASSUME TypeOK, Held, NEW q \in PinIds, UnlinkFails(q)
  PROVE  Held'
<1> USE ConstantsType DEF Held
<1>1. /\ made \in 0 .. MaxPins /\ keys \in 0 .. MaxKeys /\ nightly \subseteq PinIds
      /\ hand \in [Makers -> Handler]
      /\ copies \in [PinIds -> (SUBSET Copy) \cup {Nothing}] /\ pin \in [PinIds -> Row \cup {Nothing}]
  BY DEF TypeOK
<1>2. \A d \in Makers : hand[d].pc # "idle" => hand[d].pin \in PinIds
  BY <1>1 DEF IdInv, PinIds
<1>3. nightly' = nightly \ {q} /\ spoiled' = spoiled \cup {q}
  BY DEF UnlinkFails
<1>4. UNCHANGED <<secret, keys, copies, pin, made, hand>>
  BY DEF UnlinkFails, keyring, table
<1>5. KeyInv'
  BY <1>1, <1>2, <1>3, <1>4 DEF KeyInv
<1>6. IdInv'
  BY <1>1, <1>2, <1>3, <1>4 DEF IdInv, PinIds, Makers
<1>7. AloneInv'
  BY <1>1, <1>2, <1>3, <1>4 DEF AloneInv, Making
<1>8. GoneInv'
  BY <1>1, <1>2, <1>3, <1>4 DEF GoneInv, Making, AloneInv
<1>9. CopyInv'
  BY <1>1, <1>2, <1>3, <1>4 DEF CopyInv, Making, AloneInv
<1>10. RowsHaveTheirCopies'
  BY <1>1, <1>2, <1>3, <1>4 DEF RowsHaveTheirCopies, Making, AloneInv, GoneInv, CopyInv
<1>11. OrphansAreSpoiled'
  BY <1>1, <1>2, <1>3, <1>4 DEF OrphansAreSpoiled, Making, InFlight
<1> QED
  BY <1>5, <1>6, <1>7, <1>8, <1>9, <1>10, <1>11

LEMMA CrashHeld ==
  ASSUME TypeOK, Held, Crash
  PROVE  Held'
<1> USE ConstantsType DEF Held
<1>1. /\ made \in 0 .. MaxPins /\ keys \in 0 .. MaxKeys /\ nightly \subseteq PinIds
      /\ hand \in [Makers -> Handler]
      /\ copies \in [PinIds -> (SUBSET Copy) \cup {Nothing}] /\ pin \in [PinIds -> Row \cup {Nothing}]
  BY DEF TypeOK
<1>2. \A d \in Makers : hand[d].pc # "idle" => hand[d].pin \in PinIds
  BY <1>1 DEF IdInv, PinIds
<1>3. /\ nightly' = {} /\ spoiled' = spoiled \cup InFlight
      /\ \A d \in Makers : hand'[d].pc = "idle"
  BY DEF Crash, Idle
<1>4. UNCHANGED <<secret, keys, copies, pin, made>>
  BY DEF Crash, table
<1>5. KeyInv'
  BY <1>1, <1>2, <1>3, <1>4 DEF KeyInv
<1>6. IdInv'
  BY <1>1, <1>2, <1>3, <1>4 DEF IdInv, PinIds, Makers
<1>7. AloneInv'
  BY <1>1, <1>2, <1>3, <1>4 DEF AloneInv, Making
<1>8. GoneInv'
  BY <1>1, <1>2, <1>3, <1>4 DEF GoneInv, Making, AloneInv
<1>9. CopyInv'
  BY <1>1, <1>2, <1>3, <1>4 DEF CopyInv, Making, AloneInv
<1>10. RowsHaveTheirCopies'
  BY <1>1, <1>2, <1>3, <1>4 DEF RowsHaveTheirCopies, Making, AloneInv, GoneInv, CopyInv
<1>11. OrphansAreSpoiled'
  BY <1>1, <1>2, <1>3, <1>4 DEF OrphansAreSpoiled, Making, InFlight
<1> QED
  BY <1>5, <1>6, <1>7, <1>8, <1>9, <1>10, <1>11

LEMMA LoopStep == TypeOK /\ LoopInv /\ [Next]_vars => LoopInv'
<1> SUFFICES ASSUME TypeOK, LoopInv, [Next]_vars PROVE LoopInv'
  OBVIOUS
<1> USE ConstantsType, AroundType DEF LoopInv
<1>1. CASE UNCHANGED <<loop, segment>>
  BY <1>1
<1>2. ASSUME NEW picture \in Pictures, NEW text \in SUBSET Lines, Grab(picture, text)
      PROVE  LoopInv'
  BY <1>2 DEF Grab, Kept, TypeOK
<1>3. CASE GrabNothing
  BY <1>3 DEF GrabNothing, TypeOK
<1>4. CASE CreateSegment
  <2>1. PICK t \in Segments :
          /\ segment' = [segment EXCEPT ![t] = [at |-> now, epoch |-> epoch, whole |-> FALSE]]
          /\ loop' = [loop EXCEPT !.pc = "fill", !.of = t]
    BY <1>4 DEF CreateSegment, Free
  <2>2. [at |-> now, epoch |-> epoch, whole |-> FALSE] \in Segment
    BY DEF TypeOK, Segment
  <2> QED
    BY <2>1, <2>2 DEF TypeOK
<1>5. CASE FillSegment
  BY <1>5 DEF FillSegment, TypeOK
<1>6. CASE StoreText
  BY <1>6 DEF StoreText, AtPrune
<1>7. CASE AutoPinNothing
  BY <1>7 DEF AutoPinNothing
<1>8. CASE Prune
  BY <1>8 DEF Prune, TypeOK
<1>9. CASE RoundFails
  BY <1>9 DEF RoundFails
<1>10. CASE Crash
  BY <1>10 DEF Crash, AtPrune
<1>11. ASSUME NEW c \in Makers, Return(c), segment' = segment PROVE LoopInv'
  BY <1>11 DEF Return
<1>12. ASSUME NEW c \in Makers, Handle(c) \/ HandlerFails(c) PROVE LoopInv'
  BY <1>1, <1>11, <1>12 DEF Handle, HandlerFails, LoadKey, LoadFails, CreateKey, CopySegment, CopyFails,
     InsertPin, DeleteRow, RemoveCopies, GiveUp, ring
<1>13. CASE AutoPin \/ Nightly \/ Tick \/ UNCHANGED vars
  BY <1>1, <1>13 DEF AutoPin, BeginPin, Nightly, NightlyExpire, NightlyUnlink, Tick, vars, ring
<1>14. ASSUME NEW c \in Makers, NEW q, PinRecent(c, q) \/ Unpin(c, q) PROVE LoopInv'
  BY <1>1, <1>14 DEF PinRecent, BeginPin, Unpin, ring
<1>15. ASSUME NEW q \in PinIds, UnlinkFails(q) PROVE LoopInv'
  BY <1>1, <1>15 DEF UnlinkFails, ring
<1> QED
  BY <1>2, <1>3, <1>4, <1>5, <1>6, <1>7, <1>8, <1>9, <1>10, <1>12, <1>13, <1>14, <1>15
     DEF Next, Capture

LEMMA HandleHeld ==
  ASSUME TypeOK, Held, NEW c \in Makers, Handle(c) \/ HandlerFails(c)
  PROVE  Held'
<1>1. CASE CopyFails(c) \/ LoadFails(c)
  BY <1>1, GiveUpHeld DEF CopyFails, LoadFails, keyring, table, Making
<1>2. CASE HandlerFails(c)
  BY <1>2, GiveUpHeld DEF HandlerFails, keyring, table, Making
<1> QED
  BY <1>1, <1>2, LoadKeyHeld, CreateKeyHeld, CopySegmentHeld, InsertPinHeld, DeleteRowHeld,
     RemoveCopiesHeld DEF Handle

LEMMA NextHeld == TypeOK /\ Held /\ [Next]_vars => Held'
<1> SUFFICES ASSUME TypeOK, Held, [Next]_vars PROVE Held'
  OBVIOUS
<1>1. CASE UNCHANGED <<secret, keys, copies, pin, made, hand, nightly, spoiled>>
  BY <1>1, QuietHeld
<1>2. CASE AutoPin
  BY <1>2, BeginPinHeld DEF AutoPin, Makers
<1>3. CASE Capture
  BY <1>1, <1>2, <1>3 DEF Capture, Grab, GrabNothing, CreateSegment, FillSegment, StoreText,
     AutoPinNothing, Prune, keyring, table
<1>4. CASE RoundFails \/ Tick \/ UNCHANGED vars
  BY <1>1, <1>4 DEF RoundFails, Tick, vars, keyring, table
<1>5. ASSUME NEW c \in Makers, NEW window \in Windows, PinRecent(c, window) PROVE Held'
  BY <1>5, BeginPinHeld DEF PinRecent
<1> QED
  BY <1>3, <1>4, <1>5, HandleHeld, UnpinHeld, NightlyExpireHeld, NightlyUnlinkHeld,
     UnlinkFailsHeld, CrashHeld DEF Next, Nightly

(* Only a failed call, or two first pins at once, makes a second key.       *)
LEMMA FirstKeyStep ==
  ASSUME TypeOK, KeyInv, FirstKeyInv, [Next]_vars
  PROVE  FirstKeyInv'
<1> SUFFICES ASSUME faults' = 0, raced' = {} PROVE FirstKeyInv'
  BY DEF FirstKeyInv
<1> USE ConstantsType, AroundType
<1>1. hand \in [Makers -> Handler] /\ keys \in Nat /\ faults \in Nat /\ raced \subseteq Makers
  BY DEF TypeOK
<1>2. ASSUME keys' = keys, faults = 0, raced = {},
             \A d \in Makers : hand'[d].pc = "create" => hand[d].pc = "create"
      PROVE  FirstKeyInv'
  BY <1>2 DEF FirstKeyInv
<1>3. ASSUME UNCHANGED <<keys, faults, raced>>,
             \A d \in Makers : hand'[d].pc = "create" => hand[d].pc = "create"
      PROVE  FirstKeyInv'
  <2>1. keys' = keys /\ faults = 0 /\ raced = {}
    BY <1>3
  <2> QED
    BY <1>2, <1>3, <2>1
<1>4. ASSUME NEW c \in Makers, LoadKey(c) PROVE FirstKeyInv'
  <2>1. CASE hand'[c].pc # "create"
    BY <1>1, <1>2, <1>4, <2>1 DEF LoadKey, Fault
  <2>2. CASE hand'[c].pc = "create"
    <3>1. /\ secret = Nothing /\ faults' = faults /\ keys' = keys
          /\ raced' = raced \cup {d \in Makers \ {c} : hand[d].pc = "create"}
      BY <1>1, <1>4, <2>2 DEF LoadKey, Fault, Handler
    <3>2. raced = {} /\ \A d \in Makers \ {c} : hand[d].pc # "create"
      BY <3>1
    <3>3. keys = 0
      BY <1>1, <3>1 DEF KeyInv
    <3>4. \A d \in Makers \ {c} : hand'[d] = hand[d]
      BY <1>1, <1>4 DEF LoadKey
    <3> QED
      BY <3>1, <3>2, <3>3, <3>4 DEF FirstKeyInv
  <2> QED
    BY <2>1, <2>2
<1>5. ASSUME NEW c \in Makers, CreateKey(c) PROVE FirstKeyInv'
  <2>1. /\ keys' = keys + 1 /\ UNCHANGED <<faults, raced>>
        /\ hand[c].pc = "create" /\ hand'[c].pc = "copy"
        /\ \A d \in Makers \ {c} : hand'[d] = hand[d]
    BY <1>1, <1>5 DEF CreateKey, Handler
  <2> QED
    BY <1>1, <2>1 DEF FirstKeyInv
<1>6. ASSUME NEW c \in Makers, Return(c), UNCHANGED <<keys, raced>>, faults' = 0 => faults = 0
      PROVE  FirstKeyInv'
  BY <1>1, <1>2, <1>6 DEF Return
<1>7. faults' # 0 \/ ~Fault
  BY <1>1 DEF Fault
<1>8. ASSUME NEW c \in Makers, UNCHANGED <<keys, faults, raced>>, hand'[c].pc # "create",
              \A d \in Makers \ {c} : hand'[d] = hand[d]
       PROVE  FirstKeyInv'
  BY <1>3, <1>8
<1>9. ASSUME NEW c \in Makers, Handle(c) \/ HandlerFails(c) PROVE FirstKeyInv'
  <2>1. ASSUME LoadFails(c) \/ CopyFails(c) \/ InsertPin(c) \/ RemoveCopies(c)
        PROVE  FirstKeyInv'
    BY <1>6, <2>1 DEF LoadFails, CopyFails, InsertPin, RemoveCopies, GiveUp, keyring
  <2>2. ASSUME CopySegment(c) PROVE FirstKeyInv'
    <3>1. UNCHANGED <<keys, faults, raced>>
      BY <2>2 DEF CopySegment, keyring
    <3>2. PICK s : hand' = [hand EXCEPT ![c].todo = @ \ {s},
                   ![c].pc = IF hand[c].todo = {s} THEN "insert" ELSE "copy"]
      BY <2>2 DEF CopySegment
    <3>3. hand'[c].pc # "create" /\ \A d \in Makers \ {c} : hand'[d] = hand[d]
      BY <1>1, <3>2 DEF Handler
    <3> QED
      BY <1>8, <3>1, <3>3
  <2>3. ASSUME DeleteRow(c) PROVE FirstKeyInv'
    <3>1. UNCHANGED <<keys, faults, raced>>
      BY <2>3 DEF DeleteRow, keyring
    <3>3. hand'[c].pc # "create" /\ \A d \in Makers \ {c} : hand'[d] = hand[d]
      BY <1>1, <2>3 DEF DeleteRow, Handler
    <3> QED
      BY <1>8, <3>1, <3>3
  <2>4. ASSUME HandlerFails(c) PROVE FirstKeyInv'
    BY <1>7, <2>4 DEF HandlerFails
  <2>5. CASE LoadKey(c) \/ CreateKey(c)
    BY <1>4, <1>5, <2>5
  <2>6. CASE Handle(c)
    BY <2>1, <2>2, <2>3, <2>5, <2>6 DEF Handle
  <2> QED
    BY <1>9, <2>4, <2>6
<1>10. CASE UNCHANGED <<keys, raced, hand>> /\ (faults' = 0 => faults = 0)
  BY <1>2, <1>10
<1>11. ASSUME NEW c \in Makers, NEW window, NEW manual, BeginPin(c, window, manual)
       PROVE  FirstKeyInv'
  <2>1. UNCHANGED <<keys, faults, raced>>
    BY <1>11 DEF BeginPin, keyring
  <2>2. hand'[c].pc # "create" /\ \A d \in Makers \ {c} : hand'[d] = hand[d]
    BY <1>1, <1>11 DEF BeginPin, Idle
  <2> QED
    BY <1>8, <2>1, <2>2
<1>12. CASE Capture
  BY <1>10, <1>12, <1>11 DEF Capture, Grab, GrabNothing, CreateSegment, FillSegment, StoreText,
     AutoPin, AutoPinNothing, Prune, keyring, Makers
<1>13. CASE Nightly \/ Tick \/ RoundFails \/ (\E p \in PinIds : UnlinkFails(p)) \/ UNCHANGED vars
  BY <1>7, <1>10, <1>13 DEF Nightly, NightlyExpire, NightlyUnlink, Tick, RoundFails, UnlinkFails, vars,
     keyring
<1>14. CASE Crash
  <2>1. UNCHANGED <<keys, faults, raced>>
    BY <1>14 DEF Crash
  <2>2. \A d \in Makers : hand'[d].pc # "create"
    BY <1>14 DEF Crash, Idle
  <2> QED
    BY <1>3, <2>1, <2>2
<1>15. ASSUME NEW c \in Makers, NEW q, PinRecent(c, q) \/ Unpin(c, q) PROVE FirstKeyInv'
  <2>1. CASE Unpin(c, q)
    <3>1. UNCHANGED <<keys, faults, raced>>
      BY <2>1 DEF Unpin, keyring
    <3>2. hand'[c].pc # "create" /\ \A d \in Makers \ {c} : hand'[d] = hand[d]
      BY <1>1, <2>1 DEF Unpin, Idle
    <3> QED
      BY <1>8, <3>1, <3>2
  <2> QED
    BY <1>15, <1>11, <2>1 DEF PinRecent
<1> QED
  BY <1>9, <1>12, <1>13, <1>14, <1>15 DEF Next

LEMMA InitInv == Init => Inv
<1> SUFFICES ASSUME Init PROVE Inv
  OBVIOUS
<1> USE ConstantsType DEF Init
<1>1. Idle \in Handler /\ Idle.pc = "idle" /\ AtPrune.pc = "prune" /\ AtPrune.delta = {}
      /\ AtPrune \in [pc : {"idle", "create", "fill", "observe", "pin", "prune"},
                      delta : SUBSET Lines, of : 0 .. MaxSegments]
  BY DEF Idle, Handler, AtPrune
<1>2. TypeOK
  <2>1. /\ environ \in EnvKeys \cup {Nothing, Garbage} /\ raced \subseteq Makers
        /\ secret \in Keys \cup {Nothing, Garbage}
    OBVIOUS
  <2> QED
    BY <1>1, <2>1 DEF TypeOK, Blank
<1>3. LoopInv /\ KeyInv /\ FirstKeyInv /\ IdInv
  BY <1>1 DEF LoopInv, KeyInv, FirstKeyInv, IdInv, Makers
<1>4. AloneInv /\ GoneInv /\ CopyInv
  BY <1>1 DEF AloneInv, GoneInv, CopyInv, Making
<1>5. RowsHaveTheirCopies /\ OrphansAreSpoiled
  BY DEF RowsHaveTheirCopies, OrphansAreSpoiled
<1> QED
  BY <1>2, <1>3, <1>4, <1>5 DEF Inv

LEMMA NextInv == Inv /\ [Next]_vars => Inv'
BY NextType, LoopStep, NextHeld, FirstKeyStep DEF Inv, Held

-----------------------------------------------------------------------------
(* Theorems.                                                                *)

\* What holds in every reachable state, and is kept by every step.
THEOREM Invariant == Spec => []Inv
BY InitInv, NextInv, PTL DEF Spec

\* Every variable keeps its type.
THEOREM TypeCorrect == Spec => []TypeOK
BY Invariant, PTL DEF Inv

\* Rows name directories that hold every segment listed, under one key (pins.rs).
THEOREM CopiesOfRows == Spec => []RowsHaveTheirCopies
BY Invariant, PTL DEF Inv

\* A copy opens with the key of the keyring, or was sealed under one of the environment:
\* a key is replaced only after a failed call or by two first pins at once (pins.rs).
THEOREM Readable == Spec => []PinsAreReadable
<1>1. ASSUME Inv PROVE PinsAreReadable
  <2> SUFFICES ASSUME faults = 0, raced = {}, NEW p \in PinIds, copies[p] # Nothing, NEW f \in copies[p],
                      f.key \notin EnvKeys
               PROVE  f.key = secret
    BY DEF PinsAreReadable
  <2>1. f.key \in 1 .. keys /\ keys \in Nat
    BY <1>1, ConstantsType DEF Inv, TypeOK, KeyInv
  <2>2. keys <= 1
    BY <1>1 DEF Inv, FirstKeyInv
  <2>3. secret \in 1 .. keys
    BY <1>1, <2>1 DEF Inv, KeyInv
  <2> QED
    BY <2>1, <2>2, <2>3
<1> QED
  BY <1>1, Invariant, PTL

\* Directories without rows are left by faults and crashes only.
THEOREM OrphansOfFaults == Spec => []OrphansAreSpoiled
BY Invariant, PTL DEF Inv

\* The nightly job takes no pin made by hand.
THEOREM ManualStay == Spec => ManualPinsStay
<1> DEFINE Stays == \A p \in PinIds :
       pin[p] # Nothing /\ pin[p].expires = Nothing /\ pin'[p] = Nothing
       => \E c \in Clients : hand[c].pc = "delete" /\ hand[c].pin = p
<1>1. Inv /\ [Next]_vars => [Stays]_vars
  <2> SUFFICES ASSUME Inv, Next PROVE Stays
    OBVIOUS
  <2>1. CASE pin' = pin
    BY <2>1
  <2>2. ASSUME NEW c \in Makers, InsertPin(c) PROVE Stays
    <3>1. hand[c].pc = "insert" /\ pin[hand[c].pin] = Nothing
      BY <2>2 DEF InsertPin, Inv, AloneInv, Making
    <3>2. \A p \in PinIds : p # hand[c].pin => pin'[p] = pin[p]
      BY <2>2 DEF InsertPin, Inv, TypeOK
    <3> QED
      BY <3>1, <3>2
  <2>3. ASSUME NEW c \in Makers, DeleteRow(c) PROVE Stays
    <3>1. hand[c].pc = "delete" /\ c \in Clients
      BY <2>3 DEF DeleteRow, Inv, IdInv, Makers
    <3>2. \A p \in PinIds : p # hand[c].pin => pin'[p] = pin[p]
      BY <2>3 DEF DeleteRow, Inv, TypeOK
    <3> QED
      BY <3>1, <3>2
  <2>4. CASE NightlyExpire
    BY <2>4 DEF NightlyExpire, Expired
  <2> QED
    BY <2>1, <2>2, <2>3, <2>4 DEF Next, Capture, Grab, GrabNothing, CreateSegment, FillSegment,
       StoreText, AutoPin, AutoPinNothing, BeginPin, Prune, Nightly, NightlyUnlink, Tick, Crash,
       Handle, LoadKey, LoadFails, CreateKey, CopySegment, CopyFails, RemoveCopies, HandlerFails, PinRecent,
       Unpin, RoundFails, UnlinkFails, table
<1> QED
  BY <1>1, Invariant, PTL DEF Spec, ManualPinsStay

\* While the handler of the capture loop works, the loop waits for it.
Waits == hand[Loop].pc # "idle" => loop.pc = "pin"

LEMMA LoopWaits == TypeOK /\ Waits /\ [Next]_vars => Waits'
<1> SUFFICES ASSUME TypeOK, Waits, [Next]_vars PROVE Waits'
  OBVIOUS
<1> USE DEF Waits, Makers
<1>0. loop.pc # "pin" => hand[Loop].pc = "idle"
  OBVIOUS
<1>1. CASE UNCHANGED <<hand, loop>>
  BY <1>1
<1>2. CASE hand' = hand /\ loop.pc # "pin"
  BY <1>0, <1>2
<1>3. ASSUME NEW c \in Makers, loop' = loop, c # Loop \/ hand[c].pc # "idle" \/ loop.pc = "pin",
             \A d \in Makers \ {c} : hand'[d] = hand[d]
      PROVE  Waits'
  BY <1>3
<1>4. ASSUME NEW c \in Makers, Return(c) PROVE Waits'
  BY <1>4 DEF Return, Idle, TypeOK
<1>5. CASE AutoPinNothing
  BY <1>5 DEF AutoPinNothing
<1>6. CASE Crash
  BY <1>6 DEF Crash, Idle
<1>7. ASSUME NEW c \in Makers, Handle(c) \/ HandlerFails(c) PROVE Waits'
  <2>1. CASE LoadKey(c) \/ CreateKey(c) \/ CopySegment(c) \/ DeleteRow(c)
    <3>1. loop' = loop /\ hand[c].pc # "idle"
      BY <2>1 DEF LoadKey, CreateKey, CopySegment, DeleteRow, ring
    <3>2. \A d \in Makers \ {c} : hand'[d] = hand[d]
      BY <2>1 DEF LoadKey, CreateKey, CopySegment, DeleteRow, TypeOK
    <3> QED
      BY <1>3, <3>1, <3>2
  <2>2. CASE LoadFails(c) \/ CopyFails(c) \/ InsertPin(c) \/ RemoveCopies(c) \/ HandlerFails(c)
    BY <1>4, <2>2 DEF LoadFails, CopyFails, InsertPin, RemoveCopies, HandlerFails, GiveUp
  <2> QED
    BY <1>7, <2>1, <2>2 DEF Handle
<1>8. ASSUME NEW c \in Makers, NEW window, NEW manual, BeginPin(c, window, manual),
             c # Loop \/ loop.pc = "pin"
      PROVE  Waits'
  <2>1. loop' = loop /\ \A d \in Makers \ {c} : hand'[d] = hand[d]
    BY <1>8 DEF BeginPin, ring, TypeOK
  <2> QED
    BY <1>3, <1>8, <2>1
<1>9. ASSUME NEW c \in Makers, NEW p \in PinIds, Unpin(c, p) PROVE Waits'
  BY <1>9, PinsAssumption DEF Unpin, ring, TypeOK
<1>10. CASE Capture
  BY <1>1, <1>2, <1>5, <1>8, <1>10 DEF Capture, Grab, GrabNothing, CreateSegment, FillSegment,
     StoreText, AutoPin, Prune
<1>11. CASE Nightly \/ Tick \/ RoundFails \/ \E p \in PinIds : UnlinkFails(p)
  BY <1>1, <1>2, <1>11 DEF Nightly, NightlyExpire, NightlyUnlink, Tick, RoundFails, UnlinkFails, ring
<1>12. CASE UNCHANGED vars
  BY <1>1, <1>12 DEF vars, ring
<1> QED
  BY <1>6, <1>7, <1>8, <1>9, <1>10, <1>11, <1>12, PinsAssumption DEF Next, PinRecent

\* No line of the screen is lost unless a call fails (pipeline.rs, capture.rs).
THEOREM KeptText == Spec => []KeptTextIsObserved
<1>1. Init => KeptTextIsObserved /\ Waits
  BY DEF Init, KeptTextIsObserved, Blank, Waits, Idle, Makers
<1>2. Inv /\ Waits /\ KeptTextIsObserved /\ [Next]_vars => KeptTextIsObserved'
  <2> SUFFICES ASSUME Inv, Waits, KeptTextIsObserved, [Next]_vars PROVE KeptTextIsObserved'
    OBVIOUS
  <2> USE DEF KeptTextIsObserved
  <2>1. CASE UNCHANGED <<pipeline, observed, loop>> /\ (faults' = 0 => faults = 0)
    BY <2>1
  <2>2. faults \in Nat /\ (Fault => faults' # 0)
    BY ConstantsType DEF Inv, TypeOK, Fault
  <2>3. ASSUME NEW picture \in Pictures, NEW text \in SUBSET Lines, Grab(picture, text)
        PROVE  KeptTextIsObserved'
    BY <2>3 DEF Grab, Kept, Inv, LoopInv, TypeOK
  <2>4. CASE GrabNothing \/ CreateSegment \/ FillSegment \/ StoreText \/ AutoPinNothing \/ Prune
    BY <2>4 DEF GrabNothing, CreateSegment, FillSegment, StoreText, AutoPinNothing, Prune, AtPrune,
       Inv, LoopInv, TypeOK
  <2>5. ASSUME NEW c \in Makers, Return(c), UNCHANGED <<pipeline, observed>>,
               faults' = 0 => faults = 0, hand[c].pc # "idle"
        PROVE  KeptTextIsObserved'
    BY <2>5 DEF Return, AtPrune, Waits, Inv, LoopInv
  <2>6. ASSUME NEW c \in Makers, Handle(c) PROVE KeptTextIsObserved'
    <3>1. CASE LoadKey(c) \/ CreateKey(c) \/ CopySegment(c) \/ DeleteRow(c)
      BY <2>1, <2>2, <3>1 DEF LoadKey, CreateKey, CopySegment, DeleteRow, ring
    <3>2. CASE LoadFails(c) \/ CopyFails(c) \/ InsertPin(c) \/ RemoveCopies(c)
      BY <2>5, <3>2 DEF LoadFails, CopyFails, InsertPin, RemoveCopies, GiveUp
    <3> QED
      BY <2>6, <3>1, <3>2 DEF Handle
  <2>7. CASE RoundFails \/ \E p \in PinIds : UnlinkFails(p)
    BY <2>2, <2>7 DEF RoundFails, UnlinkFails
  <2>8. ASSUME NEW c \in Makers, HandlerFails(c) PROVE KeptTextIsObserved'
    BY <2>2, <2>8 DEF HandlerFails
  <2>9. CASE Crash
    BY <2>9 DEF Crash, Blank
  <2>10. CASE Nightly \/ Tick \/ UNCHANGED vars
    BY <2>1, <2>10 DEF Nightly, NightlyExpire, NightlyUnlink, Tick, vars, ring
  <2>11. ASSUME NEW c \in Makers, NEW window, NEW manual, BeginPin(c, window, manual)
         PROVE  KeptTextIsObserved'
    BY <2>1, <2>11 DEF BeginPin, ring
  <2>12. ASSUME NEW c \in Makers, NEW p \in PinIds, Unpin(c, p) PROVE KeptTextIsObserved'
    BY <2>1, <2>12 DEF Unpin, ring
  <2>13. CASE Capture
    BY <2>3, <2>4, <2>11, <2>13 DEF Capture, AutoPin, Makers
  <2> QED
    BY <2>6, <2>7, <2>8, <2>9, <2>10, <2>11, <2>12, <2>13 DEF Next, PinRecent
<1> QED
  BY <1>1, <1>2, LoopWaits, Invariant, PTL DEF Spec, Inv

=============================================================================
