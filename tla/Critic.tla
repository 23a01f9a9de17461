------------------------------- MODULE Critic -------------------------------
(***************************************************************************)
(* The critic of ratd: one loop that looks at the observations of the last *)
(* minutes, asks the language model about them, and stores what it has to  *)
(* say as a pushback, shown or queued; and the pushbacks.feedback handler. *)
(*                                                                         *)
(* The model is not trusted: its verdict may cite any observation, or one  *)
(* that does not exist, and come at any time: no client sets a time-out.   *)
(* Nor is the store: slow_tick carries on when a call of it fails.  The    *)
(* text of verdicts, the memory hits of the prompt and api_calls are left  *)
(* out.                                                                    *)
(***************************************************************************)
EXTENDS Governor

CONSTANTS Observations,     \* ids of observations of failed commands
          Fabricated,       \* ids a verdict may cite that no observation has
          Citations,        \* what verdicts cite: how often each id
          Pushbacks,        \* ids of pushbacks
          Verdicts,         \* accepted, dismissed, snoozed: what feedback says
          Mode,             \* Critic::mode, "mentor"
          Failures,         \* failed commands that make a signal
          SignalWindow,     \* ticks the detectors look back
          DigestWindow,     \* ticks the prompt looks back
          Day,              \* ticks an identical pushback is suppressed
          MaxTime,          \* bound: ticks of the clock
          MaxTroubles       \* bound: daemon crashes, and store calls of the loop that fail

ASSUME CriticAssumption ==
    /\ Mode \in Modes
    /\ Observations \cap Fabricated = {}
    /\ Citations \subseteq [Observations \cup Fabricated -> Nat]
    /\ "absent" \notin Verdicts
    /\ {Failures, SignalWindow, DigestWindow, Day, MaxTime, MaxTroubles} \subseteq Nat

Statuses == {"queued", "shown"} \cup Verdicts

VARIABLES now,          \* the wall clock
          seen,         \* the observations table: when, or Never
          pushback,     \* the pushbacks table
          disclosed,    \* the disclosures table: observations sent out
          loop,         \* where the critic loop is, and its locals
          sent,         \* observations put into a prompt (history)
          lost,         \* those whose record a fault or a crash prevented (history)
          crashes, faults

failureVars == <<sent, lost, crashes, faults>>
criticVars == <<now, seen, pushback, disclosed, loop, failureVars>>
vars == <<criticVars, governorVars>>

\* The evidence of a pushback is a list, compared in sorted order: a bag of ids.
Evidence == [Observations \cup Fabricated -> Nat]
Nothing == [i \in Observations \cup Fabricated |-> 0]
Cited(e) == {i \in DOMAIN e : e[i] > 0}

Rows == {p \in Pushbacks : pushback[p].status # "absent"}
Popups == {p \in Rows : pushback[p].popup}

\* popup: it was stored as "shown"; blind: without the comparison (history).
Row == [status : Statuses \cup {"absent"}, evidence : Evidence,
        at : Nat, popup : BOOLEAN, blind : BOOLEAN]

AbsentRow == [status |-> "absent", evidence |-> Nothing, at |-> 0,
              popup |-> FALSE, blind |-> FALSE]

Asleep == [pc |-> "asleep", since |-> 0, digest |-> {}, evidence |-> Nothing]

TypeOK ==
    /\ GovernorTypeOK
    /\ now \in 0 .. MaxTime
    /\ seen \in [Observations -> Nat \cup {Never}]
    /\ pushback \in [Pushbacks -> Row]
    /\ disclosed \subseteq Observations
    /\ loop \in [pc : {"asleep", "woken", "asked", "answered", "admitted", "show", "blind", "queue"},
                 since : Nat, digest : SUBSET Observations,
                 evidence : Evidence]
    /\ sent \subseteq Observations /\ lost \subseteq Observations
    /\ crashes \in 0 .. MaxTroubles
    /\ faults \in 0 .. MaxTroubles

Init ==
    /\ GovernorInit
    /\ now = 0
    /\ seen = [o \in Observations |-> Never]
    /\ pushback = [p \in Pushbacks |-> AbsentRow]
    /\ disclosed = {}
    /\ loop = Asleep
    /\ sent = {} /\ lost = {}
    /\ crashes = 0 /\ faults = 0

At(step) == loop.pc = step

Recent(window_) == {o \in Observations : seen[o] # Never /\ seen[o] >= now - window_}

-----------------------------------------------------------------------------
(* The loop: fast_tick, and slow_tick if there is a signal.                *)

Observe(o) ==
    /\ seen[o] = Never
    /\ seen' = [seen EXCEPT ![o] = now]
    /\ UNCHANGED <<now, pushback, disclosed, loop, failureVars, governorVars>>

FastTick ==
    /\ At("asleep")
    /\ Cardinality(Recent(SignalWindow)) >= Failures
    /\ loop' = [loop EXCEPT !.pc = "woken"]
    /\ UNCHANGED <<now, seen, pushback, disclosed, failureVars, governorVars>>

\* slow_tick reads the clock and the observations again, for a shorter time back.
Ask ==
    /\ At("woken")
    /\ loop' = [loop EXCEPT !.pc = "asked", !.since = now, !.digest = Recent(DigestWindow)]
    /\ sent' = sent \cup Recent(DigestWindow)
    /\ UNCHANGED <<now, seen, pushback, disclosed, lost, crashes, faults, governorVars>>

\* Mutant: a citation is not looked up.
ValidAsGiven(e) == e

Valid(e) == [i \in DOMAIN e |-> IF i \in loop.digest THEN e[i] ELSE 0]

\* The answer, or an error, has come: what was sent is recorded.
Disclose ==
    /\ At("asked")
    /\ disclosed' = disclosed \cup loop.digest
    /\ loop' = [loop EXCEPT !.pc = "answered"]
    /\ UNCHANGED <<now, seen, pushback, failureVars, governorVars>>

\* What follows of the answer is decided without another wait.  It may come to
\* nothing: no answer, nothing to say, or citations (e) of which none was in the prompt.
Answered ==
    /\ At("answered")
    /\ UNCHANGED <<now, seen, pushback, disclosed, failureVars>>

Drop(e) ==
    /\ Answered
    /\ Valid(e) = Nothing
    /\ loop' = Asleep
    /\ UNCHANGED governorVars

\* Confidence below 0.6: queued.
Doubt(e) ==
    /\ Answered
    /\ Valid(e) # Nothing
    /\ loop' = [loop EXCEPT !.pc = "queue", !.evidence = Valid(e)]
    /\ UNCHANGED governorVars

\* The governor is asked with the time slow_tick began.
AskGovernor(e) ==
    /\ Answered
    /\ Valid(e) # Nothing
    /\ \/ /\ Admit(Mode, loop.since)
          /\ loop' = [loop EXCEPT !.pc = "admitted", !.evidence = Valid(e)]
       \/ /\ Deny(Mode, loop.since)
          /\ loop' = [loop EXCEPT !.pc = "queue", !.evidence = Valid(e)]

\* Mutant: only pushbacks still on show count as duplicates.
IsDupeOfShown ==
    \E p \in Rows : /\ pushback[p].at >= loop.since - Day
                    /\ pushback[p].status = "shown"
                    /\ pushback[p].evidence = loop.evidence

IsDupe ==
    \E p \in Rows : /\ pushback[p].at >= loop.since - Day
                    /\ pushback[p].evidence = loop.evidence

\* The token of a duplicate is spent all the same.
Dedupe ==
    /\ At("admitted")
    /\ loop' = IF IsDupe THEN Asleep ELSE [loop EXCEPT !.pc = "show"]
    /\ UNCHANGED <<now, seen, pushback, disclosed, failureVars, governorVars>>

InsertPushback(p, status) ==
    /\ p \notin Rows
    /\ pushback' = [pushback EXCEPT ![p] =
                      [status |-> status, evidence |-> loop.evidence,
                       at |-> now, popup |-> status = "shown", blind |-> At("blind")]]
    /\ loop' = Asleep
    /\ UNCHANGED <<now, seen, disclosed, failureVars, governorVars>>

Show(p) == loop.pc \in {"show", "blind"} /\ InsertPushback(p, "shown")

\* Mutant: what was denied comes up all the same.
QueueShown(p) == At("queue") /\ InsertPushback(p, "shown")

Queue(p) == At("queue") /\ InsertPushback(p, "queued")

-----------------------------------------------------------------------------
(* The errors of the store that slow_tick survives.                        *)

StoreFails ==
    /\ crashes + faults < MaxTroubles           \* bound
    /\ faults' = faults + 1
    /\ UNCHANGED <<now, seen, pushback, disclosed, sent, crashes, governorVars>>

\* `let _ = insert_disclosure`: the answer is used all the same.
DiscloseFails ==
    /\ At("asked") /\ StoreFails
    /\ lost' = lost \cup loop.digest
    /\ loop' = [loop EXCEPT !.pc = "answered"]

\* pushbacks_since(..).unwrap_or_default(): compared with nothing.
DedupeUnread ==
    /\ At("admitted") /\ StoreFails
    /\ loop' = [loop EXCEPT !.pc = "blind"]
    /\ UNCHANGED lost

\* The observations cannot be read, or the pushback cannot be stored.
GiveUp ==
    /\ loop.pc \in {"woken", "show", "blind", "queue"} /\ StoreFails
    /\ loop' = Asleep
    /\ UNCHANGED lost

Failure == DiscloseFails \/ DedupeUnread \/ GiveUp

-----------------------------------------------------------------------------
(* pushbacks.feedback: any row may be decided, and decided again.          *)

\* What the handler reads first does not change any more: one action.
Feedback(p, v) ==
    /\ p \in Rows
    /\ pushback' = [pushback EXCEPT ![p].status = v]
    /\ UNCHANGED <<now, seen, disclosed, loop, failureVars, governorVars>>

-----------------------------------------------------------------------------
(* The clock and the daemon.                                               *)

Tick ==
    /\ now < MaxTime                            \* bound
    /\ now' = now + 1
    /\ UNCHANGED <<seen, pushback, disclosed, loop, failureVars, governorVars>>

\* What the model was asked and not yet on record.
InFlight == IF At("asked") THEN loop.digest ELSE {}

Crash ==
    /\ crashes + faults < MaxTroubles           \* bound
    /\ crashes' = crashes + 1
    /\ loop' = Asleep
    /\ bucket' = [m \in Modes |-> [ticks |-> Full(m), last |-> Never]]
    /\ window' = {}
    /\ log' = <<>>
    /\ lost' = lost \cup InFlight
    /\ UNCHANGED <<now, seen, pushback, disclosed, sent, faults>>

CriticLoop ==
    \/ FastTick \/ Ask \/ Disclose
    \/ \E e \in Citations : Drop(e) \/ Doubt(e) \/ AskGovernor(e)
    \/ Dedupe
    \/ \E p \in Pushbacks : Show(p) \/ Queue(p)

Next ==
    \/ \E o \in Observations : Observe(o)
    \/ CriticLoop
    \/ \E p \in Pushbacks, v \in Verdicts : Feedback(p, v)
    \/ Failure
    \/ Tick
    \/ Crash

Spec == Init /\ [][Next]_vars

-----------------------------------------------------------------------------
(* Properties                                                              *)

\* What a pushback cites was in a prompt, whatever the model answers; and what
\* was in a prompt is on record, or its record failed, or the daemon crashed
\* before it could be written.
EvidenceIsDisclosed ==
    /\ \A p \in Rows : /\ Cited(pushback[p].evidence) # {}
                       /\ Cited(pushback[p].evidence) \subseteq disclosed \cup lost
    /\ sent \subseteq disclosed \cup lost \cup InFlight

\* Two popups with the same evidence are more than a day apart, across crashes
\* and whatever the operator has said to the first, unless the store failed to
\* say what there was when the later one was compared.
PopupsAreNotRepeated ==
    \A p, q \in Popups :
        /\ p # q /\ pushback[p].evidence = pushback[q].evidence
        /\ pushback[p].at <= pushback[q].at
        => \/ pushback[q].at > pushback[p].at + Day
           \/ pushback[q].blind
           \/ pushback[q].at = pushback[p].at /\ pushback[p].blind

\* While the daemon runs, the popups that come up between two of them keep the
\* rate of the mode and the hourly cap, but for one.  The governor counts from the
\* prompt, the operator from the popup, and the model takes as long as it likes:
\* but the loop is one, so a single popup can be older than the time looked at.
PopupsAreRationed ==
    crashes = 0 =>
        \A p, q \in Popups :
            LET between == {r \in Popups : /\ pushback[p].at <= pushback[r].at
                                           /\ pushback[r].at <= pushback[q].at}
                time    == pushback[q].at - pushback[p].at
            IN  pushback[p].at <= pushback[q].at =>
                  /\ Cardinality(between) <= 1 + Capacity[Mode] + time \div Refill[Mode]
                  /\ time < Hour => Cardinality(between) <= 1 + Cap

-----------------------------------------------------------------------------
(* The inductive invariant of the proofs.                                  *)

\* No admission to come is earlier than this.
NextAdmission == IF loop.pc \in {"asked", "answered"} THEN loop.since ELSE now

\* The log is in order, and the window has lost nothing of the last hour.
WindowIsComplete ==
    /\ \A i, j \in DOMAIN log : i <= j => log[i].at <= log[j].at
    /\ \A i \in DOMAIN log : log[i].at <= NextAdmission
    /\ \A i \in DOMAIN log \ window : log[i].at + Hour <= NextAdmission

\* What the loop holds between two waits still holds.
LoopInv ==
    /\ loop.since <= now
    /\ \A p \in Rows : pushback[p].at <= now
    /\ At("answered") => loop.digest \subseteq disclosed \cup lost
    /\ loop.pc \in {"admitted", "show", "blind", "queue"} =>
         Cited(loop.evidence) # {} /\ Cited(loop.evidence) \subseteq disclosed \cup lost
    /\ At("show") =>
         \A p \in Rows : pushback[p].evidence = loop.evidence =>
                           pushback[p].at + Day < loop.since

Inv ==
    /\ TypeOK /\ WindowIsComplete /\ HourlyCap
    /\ LoopInv /\ EvidenceIsDisclosed /\ PopupsAreNotRepeated

-----------------------------------------------------------------------------
(* What the documents say, which the code does not keep.                   *)

\* ARCHITECTURE.md 9: "every Responses API call writes a `disclosures` row listing
\* exactly which ... were serialized into the prompt": so what a pushback says of
\* an observation, and so had from the model, is on record.
EveryCallIsDisclosed ==
    \A p \in Rows : Cited(pushback[p].evidence) \subseteq disclosed
=============================================================================
