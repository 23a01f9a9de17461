--------------------------------- MODULE Pins ---------------------------------
(***************************************************************************)
(* The ring of encrypted screen segments, the capture loop that fills and  *)
(* prunes it, and the pins: copies of segments under a key of the keyring, *)
(* a directory on disk and a row of the pins table each.                   *)
(*                                                                         *)
(* Pins are made by connections (pins.pin_recent) and by the capture loop  *)
(* itself (auto-pins), and removed by connections (pins.unpin) and by the  *)
(* nightly job.  A handler waits at the keyring, at the store and between  *)
(* files; everything else may happen there.  Sealing is abstracted to the  *)
(* key it is done with, a picture to a number whose distance to another is *)
(* that of their hashes, a text to its set of lines.                       *)
(***************************************************************************)
EXTENDS Integers, FiniteSets

CONSTANTS Clients,      \* connections that pin and unpin
          Loop,         \* the capture loop, as a maker of pins
          Pictures,     \* what the screen may show, as a subset of Nat
          Distance,     \* hashes this close are the same picture
          Lines,        \* lines the screen may show
          Alarming,     \* the lines an auto-pin pattern matches
          Windows,      \* the windows pin_recent may be called with
          AutoWindow,   \* the window of an auto-pin: one minute
          Ttl,          \* a segment older than this is pruned
          AutoTtl,      \* an auto-pin expires after this
          EnvKeys,      \* the keys RATO_PIN_KEY may give
          Garbage,      \* what does not decode to a key
          Nothing,      \* no segment, directory, row, key or picture
          MaxSegments, MaxPins, MaxKeys, MaxNow,  \* bounds
          MaxTroubles   \* bound: crashes and failed calls together

ASSUME PinsAssumption ==
    /\ Loop \notin Clients
    /\ Pictures \subseteq Nat /\ Alarming \subseteq Lines
    /\ Windows \subseteq Nat
    /\ {AutoWindow, Ttl, AutoTtl, Distance} \subseteq Nat
    /\ {MaxSegments, MaxPins, MaxKeys, MaxNow, MaxTroubles} \subseteq Nat
    /\ Nothing \notin Nat
    /\ Garbage \notin Nat \cup {Nothing}
    /\ EnvKeys \cap (Nat \cup {Nothing, Garbage}) = {}

VARIABLES now,
          epoch,        \* which run of the daemon this is: RingKey::ephemeral of each
          segment,      \* the files of the ring
          pipeline,     \* last_hash and last_ocr_text
          loop,         \* where the capture loop is, and the delta it still holds
          observed,     \* lines that are in an ocr observation
          environ,      \* RATO_PIN_KEY in the environment of this run
          secret,       \* rato/pin-key in the keyring
          keys,         \* pin keys generated so far
          raced,        \* who was about to store a new key when another set out to (history)
          copies,       \* the pin directories
          pin,          \* the pins table
          made,         \* pin ids handed out so far
          hand,         \* the handler of each maker of pins
          nightly,      \* the nightly job: expired rows whose directories are left
          faults,       \* calls to the keyring, the store or the disk that failed
          spoiled       \* pins whose handler gave up or died (history)

ring == <<segment, pipeline, loop, observed>>
keyring == <<environ, secret, keys, raced>>
table == <<copies, pin>>
vars == <<now, epoch, ring, keyring, table, made, hand, nightly, faults, spoiled>>

Segments == 1 .. MaxSegments
PinIds == 1 .. MaxPins
Keys == 1 .. MaxKeys
Makers == Clients \cup {Loop}

Segment == [at : 0 .. MaxNow, epoch : 0 .. MaxTroubles, whole : BOOLEAN]
Copy == [of : Segments, key : Keys \cup EnvKeys]
Row == [manual : BOOLEAN, expires : Nat \cup {Nothing}, listed : SUBSET Segments]
ASSUME NothingAssumption ==
    Nothing \notin Segment /\ Nothing \notin Row /\ \A c \in SUBSET Copy : c # Nothing

Handler == [pc : {"idle", "load", "create", "copy", "insert", "delete", "remove"},
            pin : 0 .. MaxPins, manual : BOOLEAN, since : 0 .. MaxNow,
            listed : SUBSET Segments, todo : SUBSET Segments, key : Keys \cup EnvKeys \cup {Nothing}]
Idle == [pc |-> "idle", pin |-> 0, manual |-> FALSE, since |-> 0,
         listed |-> {}, todo |-> {}, key |-> Nothing]
AtPrune == [pc |-> "prune", delta |-> {}, of |-> 0]
Blank == [picture |-> Nothing, text |-> {}]

TypeOK ==
    /\ now \in 0 .. MaxNow /\ epoch \in 0 .. MaxTroubles
    /\ segment \in [Segments -> Segment \cup {Nothing}]
    /\ pipeline \in [picture : Pictures \cup {Nothing}, text : SUBSET Lines]
    /\ loop \in [pc : {"idle", "create", "fill", "observe", "pin", "prune"},
                delta : SUBSET Lines, of : 0 .. MaxSegments]
    /\ observed \subseteq Lines
    /\ environ \in EnvKeys \cup {Nothing, Garbage}
    /\ secret \in Keys \cup {Nothing, Garbage} /\ keys \in 0 .. MaxKeys
    /\ raced \subseteq Makers
    /\ copies \in [PinIds -> (SUBSET Copy) \cup {Nothing}]
    /\ pin \in [PinIds -> Row \cup {Nothing}]
    /\ made \in 0 .. MaxPins
    /\ hand \in [Makers -> Handler]
    /\ nightly \subseteq PinIds
    /\ faults \in 0 .. MaxTroubles
    /\ spoiled \subseteq PinIds

Init ==
    /\ now = 0 /\ epoch = 0
    /\ segment = [s \in Segments |-> Nothing]
    /\ pipeline = Blank
    /\ loop = AtPrune
    /\ observed = {}
    /\ environ \in EnvKeys \cup {Nothing, Garbage}
    /\ secret \in {Nothing, Garbage} /\ keys = 0
    /\ raced = {}
    /\ copies = [p \in PinIds |-> Nothing]
    /\ pin = [p \in PinIds |-> Nothing]
    /\ made = 0
    /\ hand = [c \in Makers |-> Idle]
    /\ nightly = {}
    /\ faults = 0 /\ spoiled = {}

-------------------------------------------------------------------------------
(* The capture loop: one round grabs a frame, writes a segment, stores the  *)
(* new lines, pins if they alarm, and prunes.                               *)

\* Keeping a frame: the pipeline has moved on whatever happens to its output.
Kept(picture, text) ==
    /\ pipeline' = [picture |-> picture, text |-> text]
    /\ loop' = [pc |-> "create", delta |-> text \ pipeline.text, of |-> 0]

Near(a, b) == a # Nothing /\ a - b \in -Distance .. Distance

\* Names are never reused, and sort by the time of creation.
Free == {s \in Segments : \A t \in s .. MaxSegments : segment[t] = Nothing}

\* CapturePipeline::tick: a near duplicate of the last kept frame is dropped.
Grab(picture, text) ==
    /\ loop.pc = "idle"
    /\ IF Near(pipeline.picture, picture)
       THEN loop' = [loop EXCEPT !.pc = "prune"] /\ UNCHANGED pipeline
       ELSE Kept(picture, text) /\ Free # {}
    /\ UNCHANGED <<now, epoch, segment, observed, keyring, table, made, hand,
                   nightly, faults, spoiled>>

\* The screen is disabled, or the source has no frame.
GrabNothing ==
    /\ loop.pc = "idle"
    /\ loop' = [loop EXCEPT !.pc = "prune"]
    /\ UNCHANGED <<now, epoch, segment, pipeline, observed, keyring, table, made,
                   hand, nightly, faults, spoiled>>

\* RingWriter::write_segment creates the file, and then it has its bytes.
CreateSegment ==
    /\ loop.pc = "create" /\ Free # {}
    /\ \E s \in Free :
         /\ \A t \in Free : s <= t
         /\ segment' = [segment EXCEPT ![s] = [at |-> now, epoch |-> epoch, whole |-> FALSE]]
         /\ loop' = [loop EXCEPT !.pc = "fill", !.of = s]
    /\ UNCHANGED <<now, epoch, pipeline, observed, keyring, table, made, hand,
                   nightly, faults, spoiled>>

FillSegment ==
    /\ loop.pc = "fill"
    /\ segment' = [segment EXCEPT ![loop.of].whole = TRUE]
    /\ loop' = [loop EXCEPT !.pc = IF loop.delta = {} THEN "prune" ELSE "observe"]
    /\ UNCHANGED <<now, epoch, pipeline, observed, keyring, table, made, hand,
                   nightly, faults, spoiled>>

\* The observation is stored; if its text alarms, the loop goes on to pin.
StoreText ==
    /\ loop.pc = "observe"
    /\ observed' = observed \cup loop.delta
    /\ loop' = [AtPrune EXCEPT !.pc = IF loop.delta \cap Alarming = {} THEN "prune" ELSE "pin"]
    /\ UNCHANGED <<now, epoch, segment, pipeline, keyring, table, made, hand,
                   nightly, faults, spoiled>>

\* RingWriter::prune removes every file whose name is older than the ttl.
Prune ==
    /\ loop.pc = "prune"
    /\ segment' = [s \in Segments |-> IF segment[s] # Nothing /\ segment[s].at < now - Ttl
                                      THEN Nothing ELSE segment[s]]
    /\ loop' = [loop EXCEPT !.pc = "idle"]
    /\ UNCHANGED <<now, epoch, pipeline, observed, keyring, table, made, hand,
                   nightly, faults, spoiled>>
-------------------------------------------------------------------------------
(* PinService: pin_recent and unpin.                                        *)

\* The handler of c is done; the capture loop goes on to prune.
Return(c) ==
    /\ hand' = [hand EXCEPT ![c] = Idle]
    /\ loop' = IF c = Loop THEN AtPrune ELSE loop

\* The handler of c gives up on a pin: what it has copied stays where it is.
GiveUp(c) ==
    /\ Return(c)
    /\ spoiled' = spoiled \cup {hand[c].pin}

Recent(window) == {s \in Segments : segment[s] # Nothing /\ segment[s].at >= now - window}

\* The segments of the window are listed and the directory of the pin is made.
BeginPin(c, window, manual) ==
    /\ hand[c].pc = "idle"
    /\ Recent(window) # {}
    /\ made < MaxPins
    /\ made' = made + 1
    /\ copies' = [copies EXCEPT ![made + 1] = {}]
    /\ hand' = [hand EXCEPT ![c] =
          [Idle EXCEPT !.pc = "load", !.pin = made + 1, !.manual = manual, !.since = now,
                       !.listed = Recent(window), !.todo = Recent(window)]]
    /\ UNCHANGED <<now, epoch, ring, keyring, pin, nightly, faults, spoiled>>

PinRecent(c, window) == c \in Clients /\ BeginPin(c, window, TRUE)
AutoPin == loop.pc = "pin" /\ BeginPin(Loop, AutoWindow, FALSE)

\* No segment in the window: the call fails before it has made anything.  (At the bound
\* MaxPins an auto-pin fails likewise.)
AutoPinNothing ==
    /\ loop.pc = "pin" /\ hand[Loop].pc = "idle"
    /\ Recent(AutoWindow) = {} \/ made = MaxPins
    /\ loop' = AtPrune
    /\ UNCHANGED <<now, epoch, segment, pipeline, observed, keyring, table, made,
                   hand, nightly, faults, spoiled>>

\* A call fails that mostly does not.
Fault == faults + epoch < MaxTroubles /\ faults' = faults + 1

\* Bug: the keyring is not asked, a key is made for each pin.
LoadKeyAnew(c) ==
    /\ hand[c].pc = "load" /\ environ = Nothing
    /\ hand' = [hand EXCEPT ![c].pc = "create"]
    /\ raced' = raced \cup {d \in Makers \ {c} : hand[d].pc = "create"}
    /\ UNCHANGED <<now, epoch, ring, environ, secret, keys, table, made, nightly, faults, spoiled>>

\* load_or_create: a key of the environment comes first.  Then the keyring is asked, and
\* any error of it is taken for a missing key.
LoadKey(c) ==
    /\ hand[c].pc = "load"
    /\ \/ /\ environ \in EnvKeys
          /\ hand' = [hand EXCEPT ![c].pc = "copy", ![c].key = environ]
          /\ UNCHANGED <<faults, raced>>
       \/ /\ environ = Nothing /\ secret \in Keys
          /\ hand' = [hand EXCEPT ![c].pc = "copy", ![c].key = secret]
          /\ UNCHANGED <<faults, raced>>
       \/ /\ environ = Nothing
          /\ \/ secret = Nothing /\ UNCHANGED faults
             \/ secret # Nothing /\ Fault
          /\ hand' = [hand EXCEPT ![c].pc = "create"]
          /\ raced' = raced \cup {d \in Makers \ {c} : hand[d].pc = "create"}
    /\ UNCHANGED <<now, epoch, ring, environ, secret, keys, table, made, nightly, spoiled>>

\* decode_hex_32: what the environment or the keyring has is no key.
LoadFails(c) ==
    /\ hand[c].pc = "load"
    /\ environ = Garbage \/ (environ = Nothing /\ secret = Garbage)
    /\ GiveUp(c)
    /\ UNCHANGED <<now, epoch, segment, pipeline, observed, keyring, table, made,
                   nightly, faults>>

\* set_secret replaces whatever is there.
CreateKey(c) ==
    /\ hand[c].pc = "create" /\ keys < MaxKeys
    /\ keys' = keys + 1
    /\ secret' = keys'
    /\ hand' = [hand EXCEPT ![c].pc = "copy", ![c].key = keys']
    /\ UNCHANGED <<now, epoch, ring, environ, raced, table, made, nightly, faults, spoiled>>

\* RingWriter::read_segment: the file is there, is whole, and opens with the key of
\* this run.
Legible(s) == segment[s] # Nothing /\ segment[s].whole /\ segment[s].epoch = epoch

Oldest(todo) == {s \in todo : \A t \in todo : s <= t}

\* What is read is sealed under the pin key.
Sealed(c, s) == [of |-> s, key |-> hand[c].key]

CopySegment(c) ==
    /\ hand[c].pc = "copy"
    /\ \E s \in Oldest(hand[c].todo) :
         /\ Legible(s)
         /\ copies' = [copies EXCEPT ![hand[c].pin] = @ \cup {Sealed(c, s)}]
         /\ hand' = [hand EXCEPT ![c].todo = @ \ {s},
                                 ![c].pc = IF hand[c].todo = {s} THEN "insert" ELSE "copy"]
    /\ UNCHANGED <<now, epoch, ring, keyring, pin, made, nightly, faults, spoiled>>

CopyFails(c) ==
    /\ hand[c].pc = "copy"
    /\ \E s \in Oldest(hand[c].todo) : ~Legible(s)
    /\ GiveUp(c)
    /\ UNCHANGED <<now, epoch, segment, pipeline, observed, keyring, table, made,
                   nightly, faults>>

\* Bug: the row is inserted while segments are still to be copied.
InsertPinEarly(c) ==
    /\ hand[c].pc \in {"copy", "insert"}
    /\ pin' = [pin EXCEPT ![hand[c].pin] =
          [manual |-> hand[c].manual, listed |-> hand[c].listed,
           expires |-> IF hand[c].manual THEN Nothing ELSE hand[c].since + AutoTtl]]
    /\ Return(c)
    /\ UNCHANGED <<now, epoch, segment, pipeline, observed, keyring, copies, made,
                   nightly, faults, spoiled>>

\* insert_pin_with_id; an auto-pin expires.
InsertPin(c) ==
    /\ hand[c].pc = "insert"
    /\ pin' = [pin EXCEPT ![hand[c].pin] =
          [manual |-> hand[c].manual, listed |-> hand[c].listed,
           expires |-> IF hand[c].manual THEN Nothing ELSE hand[c].since + AutoTtl]]
    /\ Return(c)
    /\ UNCHANGED <<now, epoch, segment, pipeline, observed, keyring, copies, made,
                   nightly, faults, spoiled>>

\* unpin: the row is read, then deleted, then the directory is removed.
Unpin(c, p) ==
    /\ c \in Clients /\ hand[c].pc = "idle"
    /\ pin[p] # Nothing
    /\ hand' = [hand EXCEPT ![c] = [Idle EXCEPT !.pc = "delete", !.pin = p]]
    /\ UNCHANGED <<now, epoch, ring, keyring, table, made, nightly, faults, spoiled>>

DeleteRow(c) ==
    /\ hand[c].pc = "delete"
    /\ pin' = [pin EXCEPT ![hand[c].pin] = Nothing]
    /\ hand' = [hand EXCEPT ![c].pc = "remove"]
    /\ UNCHANGED <<now, epoch, ring, keyring, copies, made, nightly, faults, spoiled>>

\* remove_dir_if_under: a directory that is gone is no error.
RemoveCopies(c) ==
    /\ hand[c].pc = "remove"
    /\ copies' = [copies EXCEPT ![hand[c].pin] = Nothing]
    /\ Return(c)
    /\ UNCHANGED <<now, epoch, segment, pipeline, observed, keyring, pin, made,
                   nightly, faults, spoiled>>
-------------------------------------------------------------------------------
(* The nightly job, as far as it concerns pins.                             *)

Expired(time) == {p \in PinIds : pin[p] # Nothing /\ pin[p].expires # Nothing
                                 /\ pin[p].expires <= time}

\* Bug: nobody removes the directories of the rows.
NightlyExpireRows ==
    /\ nightly = {} /\ Expired(now) # {}
    /\ pin' = [p \in PinIds |-> IF p \in Expired(now) THEN Nothing ELSE pin[p]]
    /\ UNCHANGED <<now, epoch, ring, keyring, copies, made, hand, nightly, faults, spoiled>>

\* do_expire_pins deletes the rows and returns them.  (Its time is that of the start of the
\* job, minutes earlier on a clock of days.)
NightlyExpire ==
    /\ nightly = {} /\ Expired(now) # {}
    /\ pin' = [p \in PinIds |-> IF p \in Expired(now) THEN Nothing ELSE pin[p]]
    /\ nightly' = Expired(now)
    /\ UNCHANGED <<now, epoch, ring, keyring, copies, made, hand, faults, spoiled>>

NightlyUnlink(p) ==
    /\ p \in nightly
    /\ copies' = [copies EXCEPT ![p] = Nothing]
    /\ nightly' = nightly \ {p}
    /\ UNCHANGED <<now, epoch, ring, keyring, pin, made, hand, faults, spoiled>>

-------------------------------------------------------------------------------
(* Faults, crashes and time.                                                *)

\* The disk fails under write_segment, or the store under the observation: the round of
\* the loop ends there, with its delta, and the ring is pruned.
RoundFails ==
    /\ loop.pc \in {"create", "fill", "observe"} /\ Fault
    /\ loop' = AtPrune
    /\ UNCHANGED <<now, epoch, segment, pipeline, observed, keyring, table, made,
                   hand, nightly, spoiled>>

\* The keyring refuses the new key, the disk a copy, the store the row; or unpin cannot
\* remove a directory whose row is gone.
HandlerFails(c) ==
    /\ hand[c].pc \in {"create", "copy", "insert", "remove"} /\ Fault
    /\ GiveUp(c)
    /\ UNCHANGED <<now, epoch, segment, pipeline, observed, keyring, table, made, nightly>>

\* The nightly job warns and goes on.
UnlinkFails(p) ==
    /\ p \in nightly /\ Fault
    /\ nightly' = nightly \ {p}
    /\ spoiled' = spoiled \cup {p}
    /\ UNCHANGED <<now, epoch, ring, keyring, table, made, hand>>

InFlight == {hand[c].pin : c \in {d \in Makers : hand[d].pc \notin {"idle", "delete"}}}
            \cup nightly

\* Rows, directories, segments and the keyring survive; the key of the ring does not, and
\* the environment of the next run may be another.
Crash ==
    /\ faults + epoch < MaxTroubles
    /\ epoch' = epoch + 1
    /\ spoiled' = spoiled \cup InFlight
    /\ pipeline' = Blank
    /\ loop' = [AtPrune EXCEPT !.pc = "idle"]
    /\ hand' = [c \in Makers |-> Idle]
    /\ nightly' = {}
    /\ environ' \in EnvKeys \cup {Nothing, Garbage}
    /\ UNCHANGED <<now, segment, observed, secret, keys, raced, table, made, faults>>

Tick ==
    /\ now < MaxNow
    /\ now' = now + 1
    /\ UNCHANGED <<epoch, ring, keyring, table, made, hand, nightly, faults, spoiled>>

-------------------------------------------------------------------------------
Capture ==
    \/ \E picture \in Pictures, text \in SUBSET Lines : Grab(picture, text)
    \/ GrabNothing \/ CreateSegment \/ FillSegment \/ StoreText
    \/ AutoPin \/ AutoPinNothing \/ Prune

Handle(c) ==
    \/ LoadKey(c) \/ LoadFails(c) \/ CreateKey(c) \/ CopySegment(c) \/ CopyFails(c) \/ InsertPin(c)
    \/ DeleteRow(c) \/ RemoveCopies(c)

Nightly == NightlyExpire \/ \E p \in PinIds : NightlyUnlink(p)

Next ==
    \/ Capture \/ Nightly \/ Tick \/ Crash
    \/ \E c \in Makers : Handle(c) \/ HandlerFails(c)
    \/ \E c \in Makers, window \in Windows : PinRecent(c, window)
    \/ \E c \in Makers, p \in PinIds : Unpin(c, p)
    \/ RoundFails \/ \E p \in PinIds : UnlinkFails(p)

Spec == Init /\ [][Next]_vars

-------------------------------------------------------------------------------
\* A row of pins names a directory with a copy of each segment it was made of, all of
\* them sealed with one key: the row is inserted last and deleted first (pins.rs).
RowsHaveTheirCopies ==
    \A p \in PinIds : pin[p] # Nothing =>
        /\ copies[p] # Nothing
        /\ {f.of : f \in copies[p]} = pin[p].listed
        /\ \A f, g \in copies[p] : f.key = g.key

\* Unless a call to the keyring failed or two makers were about to store the first key
\* at once, every copy opens with the key of the keyring, through restarts and changes of
\* the environment, or was sealed under one that the environment gave.
PinsAreReadable ==
    faults = 0 /\ raced = {} =>
        \A p \in PinIds : copies[p] # Nothing =>
            \A f \in copies[p] : f.key = secret \/ f.key \in EnvKeys

\* A directory without a row is being worked on, or its handler gave up or died.
OrphansAreSpoiled ==
    \A p \in PinIds : copies[p] # Nothing /\ pin[p] = Nothing => p \in InFlight \cup spoiled

\* A pin made by hand goes only by an unpin of it; the nightly job never takes it.
ManualPinsStay ==
    [][\A p \in PinIds :
         pin[p] # Nothing /\ pin[p].expires = Nothing /\ pin'[p] = Nothing
         => \E c \in Clients : hand[c].pc = "delete" /\ hand[c].pin = p]_vars

\* Every line of the last kept frame has been observed, or the loop is about to store it:
\* nothing the pipeline will not report again is dropped, unless a call failed.
KeptTextIsObserved == faults = 0 => pipeline.text \subseteq observed \cup loop.delta

-------------------------------------------------------------------------------
(* What documents say of pins, and the code does not do.                    *)

\* "Pins are [...] re-encrypted under a persistent Secret Service key" (RUNNING.md:209):
\* as long as no call fails, a pin can be opened with the key of the keyring.
PinsSurvive ==
    faults = 0 => \A p \in PinIds : pin[p] # Nothing => \A f \in copies[p] : f.key = secret
=============================================================================
