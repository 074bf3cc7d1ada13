------------------------------- MODULE Signals ------------------------------
(***************************************************************************)
(* The signal state of one subscription (backend/src/long_invest/modules/  *)
(* signals): realtime rounds (application.py, bootstrap/realtime_quotes.py)*)
(* and reevaluation jobs (jobs.py) evaluate the price against the target;  *)
(* administrators reset the state; the projector (projector.py) turns      *)
(* events of targets and positions (modules/positions/service.py) into     *)
(* jobs.                                                                   *)
(*                                                                         *)
(* Two rows are locked: a round locks the state, then the subscription; a  *)
(* job the subscription, then the state, which it has read before.         *)
(***************************************************************************)
EXTENDS TargetInForce, SignalZones, SequencesExt

CONSTANTS
  Round,              \* realtime rounds that may overlap, one per process
  Price,              \* prices
  Values,             \* the target prices of each revision
  MaxClock,           \* bounds on the times at which prices are scheduled,
  MaxJobs,            \*   reevaluation jobs, changes of the position,
  MaxPosition,        \*   versions of the subscription
  MaxSubscription

TargetPrices == [low_strong : Int, low_watch : Int, high_watch : Int, high_strong : Int]

ASSUME SignalsAssumption ==
  /\ Price \subseteq Int /\ Values \in [1 .. MaxTarget -> TargetPrices]
  /\ MaxClock \in Nat

VARIABLES
  subscription,       \* [enabled, version]
  position,           \* [holding, version]
  state,              \* the signal state
  event,              \* the signal event recorded last
  outbox,             \* events to be projected
  job,                \* the reevaluation jobs
  round,              \* the realtime rounds
  clock

signalVars == <<subscription, position, state, event, outbox, job, round, clock>>
vars == <<target, subscription, position, state, event, outbox, job, round, clock>>

NoRound == [pc |-> "idle"]

\* lock_or_create_state; 0: no price, no schedule, no target yet.
NewState == [zone |-> "UNKNOWN", version |-> 1, price |-> 0, at |-> 0,
             scheduled |-> 0, priceVersion |-> 0, target |-> 0, revision |-> 0]

\* eligible: it is notified; reviewed: the version of the position for which it
\* is notified again; reset: the state has been reset since.
NewEvent(before, after, version, eligible) ==
  [before |-> before, after |-> after, version |-> version, eligible |-> eligible,
   reviewed |-> 0, reset |-> FALSE]

Later(a, b) == IF a > b THEN a ELSE b

Init ==
  /\ TargetInit
  /\ subscription = [enabled |-> TRUE, version |-> 1]
  /\ position = [holding |-> FALSE, version |-> 0]
  /\ state = NewState
  /\ event = NewEvent("UNKNOWN", "UNKNOWN", 0, FALSE)
  /\ outbox = {} /\ job = <<>>
  /\ round = [r \in Round |-> NoRound]
  /\ clock = 0

Job == 1 .. Len(job)
SubscriptionFree == \A j \in Job : job[j].pc # "locked"
\* Another job or event is within the bound.
More == Len(job) + Cardinality(outbox) < MaxJobs

StateFree == \A r \in Round : round[r].pc # "locked"

(***************************************************************************)
(* The world of the signals.                                               *)
(***************************************************************************)
\* Targets.  A manual target announces its version, a restored one is not
\* projected, and the event of a calculated one lacks the version
\* (strategy_service._emit).
TargetChanges ==
  /\ \/ SubscriptionFree /\ Withhold /\ UNCHANGED outbox
     \/ Resume /\ UNCHANGED outbox
     \/ /\ SubscriptionFree /\ Activate(target.revision + 1)
        /\ \/ More /\ \E version \in {0, target'.version} :
                outbox' = outbox \cup {[topic |-> "target.activated", version |-> version]}
           \/ UNCHANGED outbox
  /\ UNCHANGED <<subscription, position, state, event, job, round, clock>>

\* enable, pause and configure of modules/monitoring.
SubscriptionChanges ==
  /\ SubscriptionFree /\ subscription.version < MaxSubscription
  /\ \E enabled \in BOOLEAN :
       subscription' = [enabled |-> enabled, version |-> subscription.version + 1]
  /\ UNCHANGED <<target, position, state, event, outbox, job, round, clock>>

\* PositionService.set, when the status changes.
SetPosition ==
  /\ position.version < MaxPosition /\ More
  /\ position' = [holding |-> ~position.holding, version |-> position.version + 1]
  /\ outbox' = IF position'.holding
               THEN outbox \cup {[topic |-> "position.became_holding",
                                 version |-> position'.version]}
               ELSE outbox
  /\ UNCHANGED <<target, subscription, state, event, job, round, clock>>

(***************************************************************************)
(* SignalService.evaluate.                                                 *)
(***************************************************************************)
\* Faulty variant: older prices are taken as well.
OlderNever(s, c) == FALSE

\* _is_older_input
Older(s, c) ==
  /\ ~(c.reason = "TARGET_ACTIVATED" /\ c.target > s.target)
  /\ \/ c.at < s.at
     \/ s.scheduled # 0 /\ c.scheduled # 0 /\ c.scheduled < s.scheduled
     \/ c.priceVersion <= s.priceVersion

\* The input is current: the subscription is enabled and has not changed, the
\* target is usable and the one that was prepared.
Applies(c, s) ==
  /\ subscription.enabled /\ c.subscription = subscription.version
  /\ target.usable /\ c.target = target.version
  /\ ~Older(s, c)

\* The state is taken as s, which the transaction has read; what it does not
\* change is not written.
Evaluate(c, s) ==
  LET after == NextZone(s.zone, c.price, Values[target.revision], c.reason)
      version == IF after # s.zone THEN s.version + 1 ELSE state.version
  IN
  IF Applies(c, s)
  THEN /\ state' = [zone |-> IF after # s.zone THEN after ELSE state.zone,
                    version |-> version, price |-> c.price, at |-> c.at,
                    scheduled |-> c.scheduled, priceVersion |-> c.priceVersion,
                    target |-> c.target, revision |-> target.revision]
       /\ event' =
            IF IsEvent(s.zone, after)
            THEN NewEvent(s.zone, after, version,
                          ConcernsHigh(s.zone, after) => position.holding)
            ELSE IF /\ c.reason = "POSITION_BECAME_HOLDING" /\ position.holding
                    /\ after \in HighZones /\ event.version > 0
            THEN [event EXCEPT !.reviewed = position.version]
            ELSE event
  ELSE UNCHANGED <<state, event>>

(***************************************************************************)
(* A realtime round.                                                       *)
(***************************************************************************)
Now(r, step) == round' = [round EXCEPT ![r] = step]

\* prepare_realtime, at a scheduled time.
Prepare(r) ==
  /\ round[r].pc = "idle" /\ SubscriptionFree
  /\ target.usable /\ clock < MaxClock
  /\ clock' = clock + 1
  /\ Now(r, [pc |-> "prepared", scheduled |-> clock + 1,
             subscription |-> subscription.version, target |-> target.version])
  /\ UNCHANGED <<target, subscription, position, state, event, outbox, job>>

\* evaluate_realtime: the price has been fetched, be it older or newer than the
\* round, and the state is locked, then the subscription.
LockState(r) ==
  LET q == round[r] IN
  /\ q.pc = "prepared" /\ StateFree
  /\ \E price \in Price, at \in 1 .. clock :
       Now(r, [pc |-> "locked", subscription |-> q.subscription,
               target |-> q.target, reason |-> "SCHEDULED_QUOTE", price |-> price,
               at |-> at, scheduled |-> q.scheduled,
               priceVersion |-> Later(at, q.scheduled)])
  /\ UNCHANGED <<target, subscription, position, state, event, outbox, job, clock>>

EvaluateRound(r) ==
  /\ round[r].pc = "locked" /\ SubscriptionFree
  /\ Evaluate(round[r], state)
  /\ Now(r, NoRound)
  /\ UNCHANGED <<target, subscription, position, outbox, job, clock>>

\* No price, a failure, or the victim of a deadlock: this price is lost.
RoundFails(r) ==
  /\ round[r].pc # "idle"
  /\ Now(r, NoRound)
  /\ UNCHANGED <<target, subscription, position, state, event, outbox, job, clock>>

(***************************************************************************)
(* Reevaluation jobs.                                                      *)
(***************************************************************************)
\* What a job expects, 0: anything.
NewJob(reason, ofState, ofTarget, ofPosition) ==
  [pc |-> "queued", reason |-> reason, state |-> ofState, target |-> ofTarget,
   position |-> ofPosition]

\* reset and reevaluate of SignalService lock the state only.
Reset ==
  /\ StateFree /\ More
  /\ state' = [state EXCEPT !.zone = "UNKNOWN", !.version = @ + 1]
  /\ event' = [event EXCEPT !.reset = TRUE]
  /\ job' = Append(job, NewJob("STATE_RESET", state.version + 1, 0, 0))
  /\ UNCHANGED <<target, subscription, position, outbox, round, clock>>

Reevaluate ==
  /\ StateFree /\ More
  /\ job' = Append(job, NewJob("MANUAL_CHECK", state.version, 0, 0))
  /\ UNCHANGED <<target, subscription, position, state, event, outbox, round, clock>>

JobOf(fact) ==
  IF fact.topic = "target.activated"
  THEN NewJob("TARGET_ACTIVATED", 0, fact.version, 0)
  ELSE NewJob("POSITION_BECAME_HOLDING", 0, 0, fact.version)

\* project_once: one transaction for all the events; an event without a version
\* rolls it back, however often it is tried.
Project ==
  /\ outbox # {} /\ \A fact \in outbox : fact.version > 0
  /\ job' = job \o SetToSeq({JobOf(fact) : fact \in outbox})
  /\ outbox' = {}
  /\ UNCHANGED <<target, subscription, position, state, event, round, clock>>

JobIs(j, step) == job' = [job EXCEPT ![j] = step]
Ended == [pc |-> "ended"]

AsExpected(j) ==
  /\ state.priceVersion > 0 /\ target.version > 0
  /\ job[j].state \in {0, state.version}
  /\ job[j].target \in {0, target.version}
  /\ job[j].position \in {0, position.version}

\* Faulty variant: the job reads the subscription without locking it.
LockSubscriptionNot(j) ==
  /\ job[j].pc = "queued" /\ SubscriptionFree
  /\ IF AsExpected(j)
     THEN JobIs(j, [pc |-> "read", reason |-> job[j].reason, seen |-> state,
                    subscription |-> subscription.version, target |-> target.version])
     ELSE JobIs(j, Ended)
  /\ UNCHANGED <<target, subscription, position, state, event, outbox, round, clock>>

\* SignalJobApplication.reevaluate locks the subscription and reads the state;
\* what it did not expect ends the job.
LockSubscription(j) ==
  /\ job[j].pc = "queued" /\ SubscriptionFree
  /\ IF AsExpected(j)
     THEN JobIs(j, [pc |-> "locked", reason |-> job[j].reason, seen |-> state,
                    subscription |-> subscription.version, target |-> target.version])
     ELSE JobIs(j, Ended)
  /\ UNCHANGED <<target, subscription, position, state, event, outbox, round, clock>>

\* The price of the state once more, under the next version.
Command(j) ==
  LET s == job[j].seen IN
  [subscription |-> job[j].subscription, target |-> job[j].target,
   reason |-> job[j].reason, price |-> s.price, at |-> s.at, scheduled |-> 0,
   priceVersion |-> s.priceVersion + 1]

\* evaluate waits for the state, but works on what the session has read.
EvaluateJob(j) ==
  /\ job[j].pc \in {"locked", "read"} /\ StateFree
  /\ Evaluate(Command(j), job[j].seen)
  /\ JobIs(j, Ended)
  /\ UNCHANGED <<target, subscription, position, outbox, round, clock>>

\* A round has locked the state and waits for the subscription: the database
\* aborts the one or the other, and a job that is aborted is not tried again.
JobAborted(j) ==
  /\ job[j].pc = "locked" /\ ~StateFree
  /\ JobIs(j, Ended)
  /\ UNCHANGED <<target, subscription, position, state, event, outbox, round, clock>>

-----------------------------------------------------------------------------
Next ==
  \/ TargetChanges \/ SubscriptionChanges \/ SetPosition
  \/ \E r \in Round : \/ Prepare(r) \/ LockState(r)
                      \/ EvaluateRound(r) \/ RoundFails(r)
  \/ Reset \/ Reevaluate \/ Project
  \/ \E j \in Job : LockSubscription(j) \/ EvaluateJob(j) \/ JobAborted(j)

\* The projector runs for ever.
Spec == Init /\ [][Next]_vars /\ WF_vars(Project)

-----------------------------------------------------------------------------
(* Properties. *)

\* Types; the rows have one owner each.
TypeOK ==
  /\ state.zone \in Zone /\ state.at \in 0 .. MaxClock
  /\ Cardinality({r \in Round : round[r].pc = "locked"}) <= 1
  /\ Cardinality({j \in Job : job[j].pc = "locked"}) <= 1

(***************************************************************************)
(* The price evaluated last never gives way to an older one, whatever      *)
(* order overlapping rounds, late quotes and jobs come in.                 *)
(***************************************************************************)
PriceNeverRegresses == [][state'.at >= state.at]_vars

(***************************************************************************)
(* The zone is that of the price evaluated last against the target it was  *)
(* evaluated against, or one step further out while the price is still     *)
(* within the buffer.                                                      *)
(***************************************************************************)
ZoneJustified ==
  state.zone # "UNKNOWN" =>
    LET targets == Values[state.revision]
        base == Base(state.price, targets)
    IN  \/ state.zone = base
        \/ /\ state.zone \in LowZones \cup HighZones
           /\ base = Inward(state.zone)
           /\ ~Left(state.zone, state.price, targets)

(***************************************************************************)
(* The events tell one story: each begins in the zone where the one before *)
(* ended, unless the state was reset in between or was NORMAL at first, and*)
(* each has a later version of the state.                                  *)
(***************************************************************************)
OneStory ==
  [][event'.version # event.version \/ event'.after # event.after =>
       /\ event.version < event'.version
       /\ event.reset \/ event'.before = event.after \/ event.version = 0]_vars

(***************************************************************************)
(* The requirement that marking a position as held is followed by a review *)
(* of the high zones: the event becomes a job.                             *)
(***************************************************************************)
HoldingReviewed ==
  []<>(\A fact \in outbox : fact.topic # "position.became_holding")
=============================================================================
