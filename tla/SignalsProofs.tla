---------------------------- MODULE SignalsProofs ---------------------------
(***************************************************************************)
(* Proofs about the three components that MCSignals runs, each for any     *)
(* values of its constants.                                                *)
(*                                                                         *)
(* Signals: whoever holds the lock of the subscription works on what is    *)
(* still true of the state, but for a reset (SeenStill), and no event is   *)
(* newer than what he has seen.  Engine: cash and holding together are     *)
(* worth what the trades say, to half a cent while something is held       *)
(* (Worth).  Events: a session that has locked the event sums up           *)
(* deliveries that nobody else can change, but for claims, which alter no  *)
(* sum unless they compensate (SumsTrue).                                  *)
(***************************************************************************)
EXTENDS MCSignals, FiniteSetTheorems, SequenceTheorems, TLAPS

-----------------------------------------------------------------------------
(* The signals.                                                             *)

Known == Zone \ {"UNKNOWN"}

\* What ZoneJustified says of one zone, price and target.
Justified(z, price, prices) ==
  \/ z = Base(price, prices)
  \/ /\ z \in LowZones \cup HighZones
     /\ Base(price, prices) = Inward(z)
     /\ ~Left(z, price, prices)

\* The base zone is one of the five.
LEMMA BaseKnown ==
  ASSUME NEW price \in Int, NEW prices \in TargetPrices
  PROVE  Base(price, prices) \in Known
BY DEF Base, Known, Zone, LowZones, HighZones, TargetPrices

\* Whatever zone it comes from, the rule gives a zone that is justified.
LEMMA NextZoneJustified ==
  ASSUME NEW price \in Int, NEW prices \in TargetPrices, NEW z, NEW reason
  PROVE  /\ NextZone(z, price, prices, reason) \in Known
         /\ Justified(NextZone(z, price, prices, reason), price, prices)
BY BaseKnown DEF NextZone, Justified, Known, Zone, LowZones, HighZones

State == [zone : Zone, version : Nat, price : Int, at : Nat, scheduled : Nat,
          priceVersion : Nat, target : Nat, revision : Nat]

Topic == {"target.activated", "position.became_holding"}
Reason == {"SCHEDULED_QUOTE", "STATE_RESET", "MANUAL_CHECK", "TARGET_ACTIVATED",
           "POSITION_BECAME_HOLDING"}

JobRecord ==
  [pc : {"queued"}, reason : Reason, state : Nat, target : Nat, position : Nat]
    \cup [pc : {"locked"}, reason : Reason, seen : State, subscription : Nat, target : Nat]
    \cup {Ended}

RoundRecord ==
  {NoRound}
    \cup [pc : {"prepared"}, scheduled : Nat, subscription : Nat, target : Nat]
    \cup [pc : {"locked"}, subscription : Nat, target : Nat, reason : {"SCHEDULED_QUOTE"},
          price : Int, at : Nat, scheduled : Nat, priceVersion : Nat]

SignalsTyped ==
  /\ target \in [usable : BOOLEAN, version : 0 .. MaxTarget, revision : 0 .. MaxTarget]
  /\ target.revision <= target.version /\ (target.usable => target.revision # 0)
  /\ subscription \in [enabled : BOOLEAN, version : Nat]
  /\ position \in [holding : BOOLEAN, version : Nat]
  /\ state \in State
  /\ event \in [before : Zone, after : Zone, version : Nat, eligible : BOOLEAN,
                reviewed : Nat, reset : BOOLEAN]
  /\ outbox \subseteq [topic : Topic, version : Nat] /\ IsFiniteSet(outbox)
  /\ job \in Seq(JobRecord)
  /\ round \in [Round -> RoundRecord]
  /\ clock \in Nat

\* The state may have been reset since, but nothing else.
SeenStill(s) ==
  /\ s.zone = state.zone \/ state.zone = "UNKNOWN"
  /\ s.price = state.price /\ s.at = state.at /\ s.scheduled = state.scheduled
  /\ s.priceVersion = state.priceVersion /\ s.target = state.target
  /\ s.revision = state.revision

\* The event was before s, and the zone of s is the one it has led to.
EventBefore(s) ==
  /\ event.version <= s.version
  /\ event.version = 0 \/ event.reset \/ event.after = s.zone

\* One job at most has the subscription locked, and what it has read still holds.
LockedJobs ==
  /\ \A i, j \in Job : job[i].pc = "locked" /\ job[j].pc = "locked" => i = j
  /\ \A j \in Job : job[j].pc = "locked" =>
       SeenStill(job[j].seen) /\ EventBefore(job[j].seen)

StateSound ==
  /\ EventBefore(state)
  /\ event.version > 0 => event.after # "UNKNOWN"
  /\ state.zone # "UNKNOWN" => state.revision \in 1 .. MaxTarget
  /\ ZoneJustified

SignalsInv == SignalsTyped /\ LockedJobs /\ StateSound

EventRow == [before : Zone, after : Zone, version : Nat, eligible : BOOLEAN,
             reviewed : Nat, reset : BOOLEAN]

\* What OneStory says of one step.
NextChapter ==
  event'.version # event.version \/ event'.after # event.after =>
    /\ event.version < event'.version
    /\ event.reset \/ event'.before = event.after \/ event.version = 0

\* An evaluation on what is still true, whoever makes it.
LEMMA EvaluateKeeps ==
  ASSUME SignalsInv, NEW s \in State, SeenStill(s), EventBefore(s),
         NEW c, c.price \in Int, c.at \in Nat, c.scheduled \in Nat,
         c.priceVersion \in Nat, c.target \in Nat,
         c.reason # "TARGET_ACTIVATED" \/ c.at >= s.at,
         Evaluate(c, s), UNCHANGED <<target, subscription, position>>
  PROVE  /\ state' \in State /\ event' \in EventRow
         /\ StateSound'
         /\ state'.at >= state.at
         /\ NextChapter
<1> DEFINE after == NextZone(s.zone, c.price, Values[target.revision], c.reason)
           next == IF after # s.zone THEN after ELSE state.zone
           version == IF after # s.zone THEN s.version + 1 ELSE state.version
<1>1. SignalsTyped /\ StateSound /\ s.zone \in Zone /\ s.version \in Nat /\ s.at \in Nat
      /\ state \in State /\ event \in EventRow /\ position.version \in Nat
      /\ position.holding \in BOOLEAN /\ event.version \in Nat
  BY DEF SignalsInv, SignalsTyped, State, EventRow
<1>2. CASE ~Applies(c, s)
  <2>1. UNCHANGED <<state, event>>
    BY <1>2 DEF Evaluate
  <2>2. StateSound'
    BY <1>1, <2>1 DEF StateSound, EventBefore, ZoneJustified
  <2>3. state'.at >= state.at
    BY <1>1, <2>1 DEF State
  <2> QED BY <1>1, <2>1, <2>2, <2>3 DEF NextChapter
<1>3. CASE Applies(c, s)
  <2>1. target.revision \in 1 .. MaxTarget /\ Values[target.revision] \in TargetPrices
    BY <1>1, <1>3, SignalsAssumption DEF Applies, SignalsTyped
  <2>2. after \in Known /\ Justified(after, c.price, Values[target.revision])
    BY <2>1, NextZoneJustified
  <2> HIDE DEF after
  <2>3. /\ state' = [zone |-> next, version |-> version, price |-> c.price, at |-> c.at,
                     scheduled |-> c.scheduled, priceVersion |-> c.priceVersion,
                     target |-> c.target, revision |-> target.revision]
        /\ event' = IF IsEvent(s.zone, after)
                    THEN NewEvent(s.zone, after, version,
                                  ConcernsHigh(s.zone, after) => position.holding)
                    ELSE IF /\ c.reason = "POSITION_BECAME_HOLDING" /\ position.holding
                            /\ after \in HighZones /\ event.version > 0
                         THEN [event EXCEPT !.reviewed = position.version]
                         ELSE event
    BY <1>3 DEF Evaluate, after
  <2>4. next \in Zone /\ version \in Nat /\ (next = after \/ next = "UNKNOWN")
    BY <1>1, <2>2 DEF Known, SeenStill, State
  <2>5. state' \in State /\ target.revision \in Nat
    BY <1>1, <2>1, <2>3, <2>4 DEF State
  <2>6. s.at <= c.at
    BY <1>1, <1>3 DEF Applies, Older
  <2>7. state'.at >= state.at
    BY <2>3, <2>6 DEF SeenStill
  <2>8. ZoneJustified' /\ (state'.zone # "UNKNOWN" => state'.revision \in 1 .. MaxTarget)
    BY <2>1, <2>2, <2>3, <2>4 DEF ZoneJustified, Justified
  <2>9. CASE IsEvent(s.zone, after)
    <3>1. after # s.zone /\ version = s.version + 1 /\ next = after
      BY <2>9 DEF IsEvent
    <3>2. event' = NewEvent(s.zone, after, version,
                            ConcernsHigh(s.zone, after) => position.holding)
      BY <2>3, <2>9
    <3>3. /\ event'.before = s.zone /\ event'.after = after /\ event'.version = version
          /\ event'.reset = FALSE
      BY <3>2 DEF NewEvent
    <3>4. event' \in EventRow
      <4>1. (ConcernsHigh(s.zone, after) => position.holding) \in BOOLEAN
        OBVIOUS
      <4> QED BY <1>1, <2>2, <2>4, <3>2, <4>1 DEF NewEvent, EventRow, Known
    <3>5. event.version < event'.version
      BY <1>1, <3>1, <3>3 DEF EventBefore
    <3>6. NextChapter
      BY <3>3, <3>5 DEF NextChapter, EventBefore
    <3>7. EventBefore(state)' /\ event'.after # "UNKNOWN"
      BY <1>1, <2>2, <2>3, <3>1, <3>3 DEF EventBefore, Known
    <3> QED BY <2>5, <2>7, <2>8, <3>4, <3>6, <3>7 DEF StateSound
  <2>10. CASE ~IsEvent(s.zone, after)
    <3>1. /\ event' \in EventRow /\ event'.version = event.version
          /\ event'.after = event.after /\ event'.reset = event.reset
      BY <1>1, <2>3, <2>10 DEF EventRow
    <3>2. after = s.zone \/ s.zone = "UNKNOWN"
      BY <2>10 DEF IsEvent
    <3>3. event.version <= version
      BY <1>1, <3>2 DEF EventBefore, StateSound, State
    <3>4. event.version = 0 \/ event.reset \/ event.after = next
      BY <1>1, <3>2 DEF EventBefore, StateSound
    <3>5. EventBefore(state)'
      BY <2>3, <3>1, <3>3, <3>4 DEF EventBefore
    <3>6. NextChapter
      BY <3>1 DEF NextChapter
    <3> QED BY <1>1, <2>5, <2>7, <2>8, <3>1, <3>5, <3>6 DEF StateSound
  <2> QED BY <2>9, <2>10
<1> QED BY <1>2, <1>3

\* What is known of a job or a round by its pc.
LEMMA RowsByStep ==
  ASSUME SignalsTyped
  PROVE  /\ \A j \in Job : job[j] \in JobRecord
         /\ \A j \in Job : job[j].pc = "locked" =>
              /\ job[j].seen \in State /\ job[j].subscription \in Nat
              /\ job[j].target \in Nat
         /\ \A r \in Round : round[r].pc = "prepared" =>
              /\ round[r].scheduled \in Nat /\ round[r].subscription \in Nat
              /\ round[r].target \in Nat
         /\ \A r \in Round : round[r].pc = "locked" =>
              /\ round[r].price \in Int /\ round[r].at \in Nat
              /\ round[r].scheduled \in Nat /\ round[r].priceVersion \in Nat
              /\ round[r].target \in Nat /\ round[r].reason = "SCHEDULED_QUOTE"
<1>1. \A j \in Job : job[j] \in JobRecord
  BY ElementOfSeq DEF SignalsTyped, Job
<1>2. \A r \in Round : round[r] \in RoundRecord
  BY DEF SignalsTyped
<1> QED BY <1>1, <1>2 DEF JobRecord, RoundRecord, Ended, NoRound

LEMMA SignalsInit == Init => SignalsInv
<1> SUFFICES ASSUME Init PROVE SignalsInv
  OBVIOUS
<1>1. Job = {} /\ job \in Seq(JobRecord)
  BY DEF Init, Job
<1>2. state \in State /\ event \in EventRow
  BY DEF Init, NewState, NewEvent, State, EventRow, Zone
<1>3. /\ target \in [usable : BOOLEAN, version : 0 .. MaxTarget, revision : 0 .. MaxTarget]
      /\ target.usable = FALSE /\ target.revision = 0 /\ target.version = 0
  BY TargetInForceAssumption DEF Init, TargetInit, NoTarget
<1>4. round \in [Round -> RoundRecord]
  BY DEF Init, RoundRecord
<1>5. IsFiniteSet(outbox)
  BY FS_EmptySet DEF Init
<1>6. SignalsTyped
  <2>1. subscription \in [enabled : BOOLEAN, version : Nat]
        /\ position \in [holding : BOOLEAN, version : Nat]
        /\ outbox \subseteq [topic : Topic, version : Nat] /\ clock \in Nat
    BY DEF Init
  <2> QED BY <1>1, <1>2, <1>3, <1>4, <1>5, <2>1 DEF SignalsTyped, EventRow
<1>7. StateSound
  BY DEF Init, StateSound, EventBefore, ZoneJustified, NewState, NewEvent
<1> QED BY <1>1, <1>6, <1>7 DEF SignalsInv, LockedJobs

\* Steps that leave the state and the event alone and lock no subscription.
LEMMA StateStays ==
  ASSUME SignalsInv, UNCHANGED <<state, event>>, Len(job') \in Nat, Len(job') >= Len(job),
         \A j \in 1 .. Len(job') : job'[j].pc = "locked" => j \in Job /\ job'[j] = job[j]
  PROVE  LockedJobs' /\ StateSound' /\ state'.at >= state.at /\ NextChapter
<1>1. SignalsTyped /\ LockedJobs /\ StateSound /\ state.at \in Nat
  BY DEF SignalsInv, SignalsTyped, State
<1>2. StateSound' /\ state'.at >= state.at /\ NextChapter
  BY <1>1 DEF StateSound, EventBefore, ZoneJustified, NextChapter
<1>3. ASSUME NEW j \in Job', job'[j].pc = "locked"
      PROVE  j \in Job /\ job'[j] = job[j]
  BY <1>3 DEF Job
<1>4. \A i, j \in Job' : job'[i].pc = "locked" /\ job'[j].pc = "locked" => i = j
  BY <1>1, <1>3 DEF LockedJobs
<1>5. \A j \in Job' : job'[j].pc = "locked" =>
        LET s == job'[j].seen IN
        /\ s.zone = state'.zone \/ state'.zone = "UNKNOWN"
        /\ s.price = state'.price /\ s.at = state'.at /\ s.scheduled = state'.scheduled
        /\ s.priceVersion = state'.priceVersion /\ s.target = state'.target
        /\ s.revision = state'.revision
        /\ event'.version <= s.version
        /\ event'.version = 0 \/ event'.reset \/ event'.after = s.zone
  BY <1>1, <1>3 DEF LockedJobs, SeenStill, EventBefore
<1> QED BY <1>2, <1>4, <1>5 DEF LockedJobs, SeenStill, EventBefore

\* A new job is queued.
LEMMA QueuedTyped ==
  ASSUME NEW reason \in Reason, NEW ofState \in Nat, NEW ofTarget \in Nat, NEW ofPosition \in Nat
  PROVE  /\ NewJob(reason, ofState, ofTarget, ofPosition) \in JobRecord
         /\ NewJob(reason, ofState, ofTarget, ofPosition).pc = "queued"
BY DEF NewJob, JobRecord

\* What the world does to the signals.
LEMMA WorldKeeps ==
  ASSUME SignalsInv, TargetChanges \/ SubscriptionChanges \/ SetPosition
  PROVE  SignalsInv' /\ state'.at >= state.at /\ NextChapter
<1>1. SignalsTyped /\ Len(job) \in Nat
  BY LenProperties DEF SignalsInv, SignalsTyped
<1>2. UNCHANGED <<state, event, job, round, clock>>
  BY DEF TargetChanges, SubscriptionChanges, SetPosition
<1>3. LockedJobs' /\ StateSound' /\ state'.at >= state.at /\ NextChapter
  BY <1>1, <1>2, StateStays DEF Job
<1>4. SignalsTyped'
  <2>1. CASE TargetChanges
    <3>1. /\ target' \in [usable : BOOLEAN, version : 0 .. MaxTarget,
                           revision : 0 .. MaxTarget]
          /\ target'.revision <= target'.version
          /\ target'.usable => target'.revision # 0
      <4>1. CASE Withhold
        <5>1. PICK version \in target.version .. MaxTarget :
                target' = [target EXCEPT !.usable = FALSE, !.version = version]
          BY <4>1 DEF Withhold
        <5>2. /\ target.version \in 0 .. MaxTarget /\ target.revision \in 0 .. MaxTarget
              /\ target.revision <= target.version /\ MaxTarget \in Nat
          BY <1>1, TargetInForceAssumption DEF SignalsTyped
        <5>3. version \in 0 .. MaxTarget /\ target.revision <= version
          BY <5>2
        <5> QED BY <1>1, <5>1, <5>3 DEF SignalsTyped
      <4>2. CASE Resume
        BY <1>1, <4>2 DEF Resume, SignalsTyped
      <4>3. CASE Activate(target.revision + 1)
        <5>1. PICK version \in target.version + 1 .. MaxTarget :
                target' = [usable |-> TRUE, version |-> version,
                           revision |-> target.revision + 1]
          BY <4>3 DEF Activate
        <5>2. /\ target.version \in 0 .. MaxTarget /\ target.revision \in 0 .. MaxTarget
              /\ target.revision <= target.version /\ MaxTarget \in Nat
          BY <1>1, TargetInForceAssumption DEF SignalsTyped
        <5>3. version \in 0 .. MaxTarget /\ target.revision + 1 \in 0 .. MaxTarget
              /\ target.revision + 1 <= version /\ target.revision + 1 # 0
          BY <5>2
        <5> QED BY <5>1, <5>3
      <4> QED BY <2>1, <4>1, <4>2, <4>3 DEF TargetChanges
    <3>2. outbox' \subseteq [topic : Topic, version : Nat] /\ IsFiniteSet(outbox')
      <4>1. CASE UNCHANGED outbox
        BY <1>1, <4>1 DEF SignalsTyped
      <4>2. CASE \E version \in {0, target'.version} :
                   outbox' = outbox \cup {[topic |-> "target.activated", version |-> version]}
        <5>1. PICK version \in {0, target'.version} :
                outbox' = outbox \cup {[topic |-> "target.activated", version |-> version]}
          BY <4>2
        <5>2. target'.version \in 0 .. MaxTarget
          BY <3>1
        <5>3. version \in Nat
          BY <5>2
        <5>4. [topic |-> "target.activated", version |-> version]
                \in [topic : Topic, version : Nat]
          BY <5>3 DEF Topic
        <5> QED BY <1>1, <5>1, <5>4, FS_AddElement DEF SignalsTyped
      <4> QED BY <2>1, <4>1, <4>2 DEF TargetChanges
    <3> QED BY <1>1, <1>2, <2>1, <3>1, <3>2 DEF SignalsTyped, TargetChanges
  <2>2. CASE SubscriptionChanges
    BY <1>1, <1>2, <2>2 DEF SignalsTyped, SubscriptionChanges
  <2>3. CASE SetPosition
    <3>1. position' \in [holding : BOOLEAN, version : Nat]
      BY <1>1, <2>3 DEF SetPosition, SignalsTyped
    <3>2. outbox' \subseteq [topic : Topic, version : Nat] /\ IsFiniteSet(outbox')
      <4>1. position'.version \in Nat
        BY <3>1
      <4>2. \/ outbox' = outbox
            \/ outbox' = outbox \cup {[topic |-> "position.became_holding",
                                      version |-> position'.version]}
        BY <2>3 DEF SetPosition
      <4>3. [topic |-> "position.became_holding", version |-> position'.version]
              \in [topic : Topic, version : Nat]
        BY <4>1 DEF Topic
      <4>4. outbox \subseteq [topic : Topic, version : Nat] /\ IsFiniteSet(outbox)
        BY <1>1 DEF SignalsTyped
      <4>5. IsFiniteSet(outbox \cup {[topic |-> "position.became_holding",
                                     version |-> position'.version]})
        BY <4>4, FS_AddElement
      <4> QED BY <4>2, <4>3, <4>4, <4>5
    <3> QED BY <1>1, <1>2, <2>3, <3>1, <3>2 DEF SignalsTyped, SetPosition
  <2> QED BY <2>1, <2>2, <2>3
<1> QED BY <1>3, <1>4 DEF SignalsInv

\* The steps of a round before it evaluates, and its failure.
LEMMA RoundKeeps ==
  ASSUME SignalsInv, NEW r \in Round, Prepare(r) \/ LockState(r) \/ RoundFails(r)
  PROVE  SignalsInv' /\ state'.at >= state.at /\ NextChapter
<1>1. SignalsTyped /\ Len(job) \in Nat
  BY LenProperties DEF SignalsInv, SignalsTyped
<1>2. UNCHANGED <<target, subscription, position, state, event, outbox, job>>
  BY DEF Prepare, LockState, RoundFails
<1>3. LockedJobs' /\ StateSound' /\ state'.at >= state.at /\ NextChapter
  BY <1>1, <1>2, StateStays DEF Job
<1>4. clock' \in Nat /\ round' \in [Round -> RoundRecord]
  <2>1. \A step \in RoundRecord : Now(r, step) => round' \in [Round -> RoundRecord]
    BY <1>1 DEF Now, SignalsTyped
  <2>2. CASE Prepare(r)
    <3>1. [pc |-> "prepared", scheduled |-> clock + 1,
           subscription |-> subscription.version, target |-> target.version] \in RoundRecord
      <4>1. clock + 1 \in Nat /\ subscription.version \in Nat /\ target.version \in Nat
        BY <1>1, TargetInForceAssumption DEF SignalsTyped
      <4> QED BY <4>1 DEF RoundRecord
    <3> QED BY <1>1, <2>1, <2>2, <3>1 DEF Prepare, SignalsTyped
  <2>3. CASE LockState(r)
    <3> DEFINE q == round[r]
               Locked(price, at) ==
                 [pc |-> "locked", subscription |-> q.subscription,
                  target |-> q.target, reason |-> "SCHEDULED_QUOTE", price |-> price,
                  at |-> at, scheduled |-> q.scheduled,
                  priceVersion |-> Later(at, q.scheduled)]
    <3>1. q.scheduled \in Nat /\ q.subscription \in Nat /\ q.target \in Nat
      BY <1>1, <2>3, RowsByStep DEF LockState
    <3>2. ASSUME NEW price \in Price, NEW at \in 1 .. clock
          PROVE  Locked(price, at) \in RoundRecord
      <4>1. price \in Int /\ at \in Nat
        BY <1>1, SignalsAssumption DEF SignalsTyped
      <4>2. Later(at, q.scheduled) \in Nat
        BY <3>1, <4>1 DEF Later
      <4> QED BY <3>1, <4>1, <4>2 DEF RoundRecord
    <3>3. \E price \in Price, at \in 1 .. clock : Now(r, Locked(price, at))
      BY <2>3 DEF LockState
    <3> QED BY <1>1, <2>1, <2>3, <3>2, <3>3 DEF LockState, SignalsTyped
  <2>4. CASE RoundFails(r)
    BY <1>1, <2>1, <2>4 DEF RoundFails, RoundRecord, SignalsTyped
  <2> QED BY <2>2, <2>3, <2>4
<1>5. SignalsTyped'
  BY <1>1, <1>2, <1>4 DEF SignalsTyped
<1> QED BY <1>3, <1>5 DEF SignalsInv

\* A round evaluates while nobody has the subscription.
LEMMA EvaluateRoundKeeps ==
  ASSUME SignalsInv, NEW r \in Round, EvaluateRound(r)
  PROVE  SignalsInv' /\ state'.at >= state.at /\ NextChapter
<1> DEFINE c == round[r]
<1>1. SignalsTyped /\ StateSound /\ state \in State
  BY DEF SignalsInv, SignalsTyped
<1>2. SeenStill(state) /\ EventBefore(state)
  BY <1>1 DEF SeenStill, StateSound
<1>3. /\ c.price \in Int /\ c.at \in Nat /\ c.scheduled \in Nat
      /\ c.priceVersion \in Nat /\ c.target \in Nat /\ c.reason = "SCHEDULED_QUOTE"
  BY <1>1, RowsByStep DEF EvaluateRound
<1>4. Evaluate(c, state) /\ UNCHANGED <<target, subscription, position, outbox, job, clock>>
  BY DEF EvaluateRound
<1> HIDE DEF c
<1>5. /\ state' \in State /\ event' \in EventRow
      /\ StateSound' /\ state'.at >= state.at /\ NextChapter
  BY <1>1, <1>2, <1>3, <1>4, EvaluateKeeps
<1>6. LockedJobs'
  BY <1>4 DEF EvaluateRound, SubscriptionFree, LockedJobs, Job
<1>7. round' \in [Round -> RoundRecord]
  BY <1>1 DEF EvaluateRound, Now, SignalsTyped, RoundRecord
<1>8. SignalsTyped'
  BY <1>1, <1>4, <1>5, <1>7 DEF SignalsTyped, EventRow
<1> QED BY <1>5, <1>6, <1>8 DEF SignalsInv

\* A sequence of a finite set's elements.
LEMMA AsSequence ==
  ASSUME NEW S, IsFiniteSet(S)
  PROVE  SetToSeq(S) \in Seq(S)
<1> DEFINE n == Cardinality(S)
<1>1. n \in Nat /\ IsFiniteSet(1 .. n) /\ Cardinality(1 .. n) = n
  BY FS_CardinalityType, FS_Interval
<1>2. ExistsBijection(1 .. n, S)
  BY <1>1, FS_SameCardinalityBij
<1>3. PICK f \in [1 .. n -> S] : IsInjective(f)
  BY <1>2 DEF ExistsBijection, Bijection, Injection, IsInjective
<1>4. SetToSeq(S) \in [1 .. n -> S]
  BY <1>3 DEF SetToSeq
<1> QED BY <1>1, <1>4

\* The events, turned into jobs.
LEMMA ProjectedJobs ==
  ASSUME SignalsTyped
  PROVE  LET new == SetToSeq({JobOf(fact) : fact \in outbox}) IN
         /\ new \in Seq(JobRecord)
         /\ \A i \in 1 .. Len(new) : new[i].pc = "queued"
<1> DEFINE T == {JobOf(fact) : fact \in outbox}
           f == [fact \in outbox |-> JobOf(fact)]
<1>1. IsFiniteSet(outbox) /\ f \in Surjection(outbox, T)
  BY DEF SignalsTyped, Surjection
<1>2. IsFiniteSet(T)
  BY <1>1, FS_Surjection
<1>3. SetToSeq(T) \in Seq(T)
  BY <1>2, AsSequence
<1>4. ASSUME NEW t \in T
      PROVE  t \in JobRecord /\ t.pc = "queued"
  <2>1. PICK fact \in outbox : t = JobOf(fact)
    OBVIOUS
  <2>2. fact.version \in Nat
    BY DEF SignalsTyped
  <2>3. {"TARGET_ACTIVATED", "POSITION_BECAME_HOLDING"} \subseteq Reason
    BY DEF Reason
  <2> QED BY <2>1, <2>2, <2>3, QueuedTyped DEF JobOf
<1>5. \A i \in 1 .. Len(SetToSeq(T)) : SetToSeq(T)[i] \in T
  BY <1>3, ElementOfSeq
<1>6. SetToSeq(T) \in Seq(JobRecord)
  BY <1>3, <1>4
<1> QED BY <1>4, <1>5, <1>6

\* Requests that only queue a job, and the projection of events.
LEMMA QueueingKeeps ==
  ASSUME SignalsInv, Reevaluate \/ Project
  PROVE  SignalsInv' /\ state'.at >= state.at /\ NextChapter
<1>1. SignalsTyped /\ Len(job) \in Nat /\ job \in Seq(JobRecord)
  BY LenProperties DEF SignalsInv, SignalsTyped
<1>2. PICK new \in Seq(JobRecord) :
        /\ job' = job \o new
        /\ \A i \in 1 .. Len(new) : new[i].pc = "queued"
  <2>1. CASE Reevaluate
    <3> DEFINE one == NewJob("MANUAL_CHECK", state.version, 0, 0)
    <3>1. state.version \in Nat /\ "MANUAL_CHECK" \in Reason
      BY <1>1 DEF SignalsTyped, State, Reason
    <3>2. one \in JobRecord /\ one.pc = "queued"
      BY <3>1, QueuedTyped
    <3> HIDE DEF one
    <3>3. job' = Append(job, one)
      BY <2>1 DEF Reevaluate, one
    <3>4. job' = job \o <<one>> /\ <<one>> \in Seq(JobRecord)
      BY <1>1, <3>2, <3>3
    <3>5. \A i \in 1 .. Len(<<one>>) : <<one>>[i].pc = "queued"
      BY <3>2
    <3> QED BY <3>4, <3>5
  <2>2. CASE Project
    BY <1>1, <2>2, ProjectedJobs DEF Project
  <2> QED BY <2>1, <2>2
<1>3. /\ job' \in Seq(JobRecord) /\ Len(job') = Len(job) + Len(new) /\ Len(new) \in Nat
      /\ \A i \in 1 .. Len(job') :
           job'[i] = IF i <= Len(job) THEN job[i] ELSE new[i - Len(job)]
  BY <1>1, <1>2, ConcatProperties, LenProperties
<1>4. \A j \in 1 .. Len(job') : job'[j].pc = "locked" => j \in Job /\ job'[j] = job[j]
  <2> SUFFICES ASSUME NEW j \in 1 .. Len(job'), job'[j].pc = "locked"
               PROVE  j \in Job /\ job'[j] = job[j]
    OBVIOUS
  <2>1. CASE j <= Len(job)
    BY <1>3, <2>1 DEF Job
  <2>2. CASE ~(j <= Len(job))
    <3>1. j - Len(job) \in 1 .. Len(new)
      BY <1>1, <1>3, <2>2
    <3> QED BY <1>2, <1>3, <2>2, <3>1
  <2> QED BY <2>1, <2>2
<1>5. UNCHANGED <<target, subscription, position, state, event, round, clock>>
  BY DEF Reevaluate, Project
<1>6. LockedJobs' /\ StateSound' /\ state'.at >= state.at /\ NextChapter
  BY <1>1, <1>3, <1>4, <1>5, StateStays
<1>7. outbox' \subseteq outbox /\ IsFiniteSet(outbox')
  BY <1>1, FS_EmptySet DEF Reevaluate, Project, SignalsTyped
<1>8. SignalsTyped'
  BY <1>1, <1>3, <1>5, <1>7 DEF SignalsTyped
<1> QED BY <1>6, <1>8 DEF SignalsInv

\* A reset is the one thing that may happen to the state between the read of a job
\* and its evaluation.
LEMMA ResetKeeps ==
  ASSUME SignalsInv, Reset
  PROVE  SignalsInv' /\ state'.at >= state.at /\ NextChapter
<1> DEFINE one == NewJob("STATE_RESET", state.version + 1, 0, 0)
<1>1. SignalsTyped /\ LockedJobs /\ StateSound /\ Len(job) \in Nat /\ job \in Seq(JobRecord)
      /\ state \in State /\ event \in EventRow /\ event.version \in Nat
      /\ state.version \in Nat /\ state.at \in Nat
  BY LenProperties DEF SignalsInv, SignalsTyped, State, EventRow
<1>2. state.version + 1 \in Nat /\ "STATE_RESET" \in Reason
  BY <1>1 DEF Reason
<1>3. one \in JobRecord /\ one.pc = "queued"
  BY <1>2, QueuedTyped
<1>4. job' = Append(job, one)
  BY DEF Reset
<1> HIDE DEF one
<1>5. /\ job' \in Seq(JobRecord) /\ Len(job') = Len(job) + 1
      /\ \A i \in 1 .. Len(job) : job'[i] = job[i]
      /\ job'[Len(job) + 1] = one
  BY <1>1, <1>3, <1>4, AppendProperties
<1>6. \A j \in Job' : job'[j].pc = "locked" => j \in Job /\ job'[j] = job[j]
  BY <1>1, <1>3, <1>5 DEF Job
<1>7. /\ state' = [state EXCEPT !.zone = "UNKNOWN", !.version = state.version + 1]
      /\ event' = [event EXCEPT !.reset = TRUE]
  BY DEF Reset
<1>8. /\ state' \in State /\ event' \in EventRow
      /\ state'.zone = "UNKNOWN" /\ state'.version = state.version + 1
      /\ state'.price = state.price /\ state'.at = state.at
      /\ state'.scheduled = state.scheduled /\ state'.priceVersion = state.priceVersion
      /\ state'.target = state.target /\ state'.revision = state.revision
      /\ event'.reset = TRUE /\ event'.version = event.version /\ event'.after = event.after
  BY <1>1, <1>2, <1>7 DEF State, EventRow, Zone
<1>9. LockedJobs'
  <2>1. \A i, j \in Job' : job'[i].pc = "locked" /\ job'[j].pc = "locked" => i = j
    BY <1>1, <1>6 DEF LockedJobs
  <2>2. \A j \in Job' : job'[j].pc = "locked" =>
          LET s == job'[j].seen IN
          /\ s.zone = state'.zone \/ state'.zone = "UNKNOWN"
          /\ s.price = state'.price /\ s.at = state'.at /\ s.scheduled = state'.scheduled
          /\ s.priceVersion = state'.priceVersion /\ s.target = state'.target
          /\ s.revision = state'.revision
          /\ event'.version <= s.version
          /\ event'.version = 0 \/ event'.reset \/ event'.after = s.zone
    BY <1>1, <1>6, <1>8 DEF LockedJobs, SeenStill, EventBefore
  <2> QED BY <2>1, <2>2 DEF LockedJobs, SeenStill, EventBefore
<1>10. StateSound'
  BY <1>1, <1>8 DEF StateSound, EventBefore, ZoneJustified
<1>11. SignalsTyped'
  <2>1. UNCHANGED <<target, subscription, position, outbox, round, clock>>
    BY DEF Reset
  <2> QED BY <1>1, <1>5, <1>8, <2>1 DEF SignalsTyped, EventRow
<1>12. state'.at >= state.at /\ NextChapter
  BY <1>1, <1>8 DEF NextChapter
<1> QED BY <1>9, <1>10, <1>11, <1>12 DEF SignalsInv

\* A job locks the subscription, or ends without having done so.
LEMMA LockJobKeeps ==
  ASSUME SignalsInv, NEW j \in Job, LockSubscription(j)
  PROVE  SignalsInv' /\ state'.at >= state.at /\ NextChapter
<1> DEFINE lock == [pc |-> "locked", reason |-> job[j].reason, seen |-> state,
                    subscription |-> subscription.version, target |-> target.version]
<1>1. SignalsTyped /\ LockedJobs /\ StateSound /\ Len(job) \in Nat /\ job \in Seq(JobRecord)
      /\ state \in State /\ state.at \in Nat /\ j \in 1 .. Len(job)
  BY LenProperties DEF SignalsInv, SignalsTyped, State, Job
<1>2. UNCHANGED <<target, subscription, position, state, event, outbox, round, clock>>
      /\ job[j].pc = "queued" /\ SubscriptionFree
  BY DEF LockSubscription
<1>3. PICK row \in {lock, Ended} : job' = [job EXCEPT ![j] = row]
  BY DEF LockSubscription, JobIs
<1>4. row \in JobRecord
  <2>1. job[j].reason \in Reason
    <3>1. job[j] \in JobRecord
      BY <1>1, RowsByStep DEF Job
    <3> QED BY <1>2, <3>1 DEF JobRecord, Ended
  <2>2. subscription.version \in Nat /\ target.version \in Nat
    BY <1>1, TargetInForceAssumption DEF SignalsTyped
  <2> QED BY <1>1, <2>1, <2>2 DEF JobRecord
<1>5. job' \in Seq(JobRecord) /\ Len(job') = Len(job)
      /\ \A i \in 1 .. Len(job) : job'[i] = IF i = j THEN row ELSE job[i]
  BY <1>1, <1>3, <1>4, ExceptSeq
<1>6. \A i \in Job' : job'[i].pc = "locked" => i = j /\ row = lock
  BY <1>1, <1>2, <1>3, <1>5 DEF Job, SubscriptionFree, Ended
<1>7. SeenStill(lock.seen) /\ EventBefore(lock.seen)
  BY <1>1 DEF SeenStill, StateSound
<1>8. LockedJobs'
  <2>1. \A i, k \in Job' : job'[i].pc = "locked" /\ job'[k].pc = "locked" => i = k
    BY <1>6
  <2>2. \A i \in Job' : job'[i].pc = "locked" => job'[i].seen = state
    BY <1>1, <1>5, <1>6
  <2>3. \A i \in Job' : job'[i].pc = "locked" =>
          LET s == job'[i].seen IN
          /\ s.zone = state'.zone \/ state'.zone = "UNKNOWN"
          /\ s.price = state'.price /\ s.at = state'.at /\ s.scheduled = state'.scheduled
          /\ s.priceVersion = state'.priceVersion /\ s.target = state'.target
          /\ s.revision = state'.revision
          /\ event'.version <= s.version
          /\ event'.version = 0 \/ event'.reset \/ event'.after = s.zone
    BY <1>1, <1>2, <2>2 DEF EventBefore, StateSound
  <2> QED BY <2>1, <2>3 DEF LockedJobs, SeenStill, EventBefore
<1>9. StateSound' /\ state'.at >= state.at /\ NextChapter
  BY <1>1, <1>2 DEF StateSound, EventBefore, ZoneJustified, NextChapter
<1>10. SignalsTyped'
  BY <1>1, <1>2, <1>5 DEF SignalsTyped
<1> QED BY <1>8, <1>9, <1>10 DEF SignalsInv

\* A job evaluates what it has read, or is aborted: it gives the subscription back.
LEMMA EndJobKeeps ==
  ASSUME SignalsInv, NEW j \in Job, EvaluateJob(j) \/ JobAborted(j)
  PROVE  SignalsInv' /\ state'.at >= state.at /\ NextChapter
<1>1. SignalsTyped /\ LockedJobs /\ StateSound /\ Len(job) \in Nat /\ job \in Seq(JobRecord)
      /\ state \in State /\ event \in EventRow /\ state.at \in Nat /\ j \in 1 .. Len(job)
  BY LenProperties DEF SignalsInv, SignalsTyped, State, EventRow, Job
<1>2. job[j].pc = "locked"
  <2>1. job[j] \in JobRecord /\ job[j].pc \in {"locked", "read"}
    BY <1>1, RowsByStep DEF EvaluateJob, JobAborted
  <2> QED BY <2>1 DEF JobRecord, Ended
<1>3. job' = [job EXCEPT ![j] = Ended] /\ Ended \in JobRecord
      /\ UNCHANGED <<target, subscription, position, outbox, round, clock>>
  BY DEF EvaluateJob, JobAborted, JobIs, JobRecord
<1>4. job' \in Seq(JobRecord) /\ Len(job') = Len(job)
      /\ \A i \in 1 .. Len(job) : job'[i] = IF i = j THEN Ended ELSE job[i]
  BY <1>1, <1>3, ExceptSeq
<1>5. \A i \in Job' : job'[i].pc # "locked"
  BY <1>1, <1>2, <1>4 DEF Job, LockedJobs, Ended
<1>6. LockedJobs'
  BY <1>5 DEF LockedJobs
<1>7. /\ state' \in State /\ event' \in EventRow
      /\ StateSound' /\ state'.at >= state.at /\ NextChapter
  <2>1. CASE JobAborted(j)
    BY <1>1, <2>1 DEF JobAborted, StateSound, EventBefore, ZoneJustified, NextChapter
  <2>2. CASE EvaluateJob(j)
    <3> DEFINE s == job[j].seen
               c == Command(j)
    <3>1. /\ s \in State /\ SeenStill(s) /\ EventBefore(s)
          /\ job[j].target \in Nat
      BY <1>1, <1>2, RowsByStep DEF LockedJobs, Job
    <3>2. /\ c.price \in Int /\ c.at \in Nat /\ c.scheduled \in Nat
          /\ c.priceVersion \in Nat /\ c.target \in Nat /\ c.at >= s.at
      BY <3>1 DEF Command, State
    <3>3. Evaluate(c, s)
      BY <2>2 DEF EvaluateJob
    <3> HIDE DEF s, c
    <3> QED BY <1>3, <3>1, <3>2, <3>3, EvaluateKeeps
  <2> QED BY <2>1, <2>2
<1>8. SignalsTyped'
  BY <1>1, <1>3, <1>4, <1>7 DEF SignalsTyped, EventRow
<1> QED BY <1>6, <1>7, <1>8 DEF SignalsInv

LEMMA SignalsStep ==
  ASSUME SignalsInv, [Next]_vars
  PROVE  SignalsInv' /\ state'.at >= state.at /\ NextChapter
<1>1. CASE UNCHANGED vars
  <2>1. SignalsInv'
    BY <1>1 DEF vars, SignalsInv, SignalsTyped, LockedJobs, Job, SeenStill, EventBefore,
                StateSound, ZoneJustified
  <2>2. state.at \in Nat
    BY DEF SignalsInv, SignalsTyped, State
  <2> QED BY <1>1, <2>1, <2>2 DEF vars, NextChapter
<1> QED BY <1>1, WorldKeeps, RoundKeeps, EvaluateRoundKeeps, QueueingKeeps, ResetKeeps,
           LockJobKeeps, EndJobKeeps DEF Next

THEOREM SignalsInvariant == Spec => []SignalsInv
<1>1. Init => SignalsInv
  BY SignalsInit
<1>2. SignalsInv /\ [Next]_vars => SignalsInv'
  BY SignalsStep
<1> QED BY <1>1, <1>2, PTL DEF Spec

\* The zone is that of the price evaluated last against the target it was evaluated
\* against, or one step further out while the price is within the buffer.
THEOREM Zones == Spec => []ZoneJustified
<1>1. SignalsInv => ZoneJustified
  BY DEF SignalsInv, StateSound
<1> QED BY <1>1, SignalsInvariant, PTL

\* The price evaluated last never gives way to an older one, whatever order rounds,
\* late quotes and jobs come in.
THEOREM Prices == Spec => PriceNeverRegresses
<1>1. SignalsInv /\ [Next]_vars => [state'.at >= state.at]_vars
  BY SignalsStep
<1> QED BY <1>1, SignalsInvariant, PTL DEF Spec, PriceNeverRegresses

\* The events of a subscription tell one story.
THEOREM Stories == Spec => OneStory
<1>1. SignalsInv /\ [Next]_vars =>
        [event'.version # event.version \/ event'.after # event.after =>
           /\ event.version < event'.version
           /\ event.reset \/ event'.before = event.after \/ event.version = 0]_vars
  BY SignalsStep DEF NextChapter
<1> QED BY <1>1, SignalsInvariant, PTL DEF Spec, OneStory

-----------------------------------------------------------------------------
(* The engine of the backtests.                                             *)

LEMMA DivBounds ==
  ASSUME NEW a \in Int, NEW b \in Nat \ {0}
  PROVE  a \div b \in Int /\ b * (a \div b) <= a /\ a < b * (a \div b) + b
OBVIOUS

LEMMA Monotone ==
  ASSUME NEW a \in Int, NEW b \in Int, NEW u \in Nat, a <= b
  PROVE  a * u <= b * u
OBVIOUS

\* Rounding to cents is off by half a cent at most.
LEMMA MoneyRounds ==
  ASSUME NEW n \in Int, NEW d \in Nat \ {0}
  PROVE  LET m == Engine!Money(n, d) IN
         /\ m \in Int /\ (n >= 0 => m >= 0)
         /\ 2 * (m * d) <= 2 * n + d /\ 2 * n - d <= 2 * (m * d)
<1> DEFINE k == (2 * n + d) \div (2 * d)
           l == (d - 2 * n) \div (2 * d)
<1>1. 2 * d \in Nat \ {0} /\ 2 * n + d \in Int /\ d - 2 * n \in Int
  OBVIOUS
<1>2. /\ k \in Int /\ (2 * d) * k <= 2 * n + d /\ 2 * n + d < (2 * d) * k + 2 * d
      /\ l \in Int /\ (2 * d) * l <= d - 2 * n /\ d - 2 * n < (2 * d) * l + 2 * d
  BY <1>1, DivBounds
<1>3. Engine!Money(n, d) = IF n >= 0 THEN k ELSE -l
  BY DEF Engine!Money
<1> HIDE DEF k, l
<1>4. (2 * d) * k = 2 * (k * d) /\ (2 * d) * l = 2 * (l * d) /\ (-l) * d = -(l * d)
      /\ k * d \in Int /\ l * d \in Int
  BY <1>2
<1>5. CASE n >= 0
  <2>1. k >= 0
    <3> SUFFICES ASSUME k <= -1 PROVE FALSE
      BY <1>2
    <3>1. k * d <= (-1) * d
      BY <1>2, Monotone
    <3> QED BY <1>2, <1>4, <1>5, <3>1
  <2> QED BY <1>2, <1>3, <1>4, <1>5, <2>1
<1>6. CASE ~(n >= 0)
  BY <1>2, <1>3, <1>4, <1>6
<1> QED BY <1>5, <1>6

Account == [cash : Nat, quantity : Nat, entry : Nat]
Books == [buys : Nat, sales : Nat, profit : Nat, loss : Nat, adjustments : Nat]
Order == [direction : {"NONE", "BUY", "SELL"}, cash : Nat, position : Nat]

Sales(b) == b.sales
Net(b) == b.profit - b.loss
HeldNow(p) == IF p.quantity > 0 THEN 1 ELSE 0

\* What the account is worth at the price that was paid, against what the trades
\* say: to a cent per sale, and to half a cent more while something is held.
Worth(p, b) ==
  /\ p.quantity = 0 =>
       /\ p.cash <= capital + Net(b) + Sales(b)
       /\ b.adjustments > 0 \/ capital + Net(b) - Sales(b) <= p.cash
  /\ p.quantity > 0 =>
       LET worth == p.cash * Unit + p.quantity * p.entry IN
       /\ 2 * worth <= 2 * ((capital + Net(b) + Sales(b)) * Unit) + Unit
       /\ b.adjustments > 0
          \/ 2 * ((capital + Net(b) - Sales(b)) * Unit) - Unit <= 2 * worth

Explained(p, b) ==
  /\ p \in Account /\ b \in Books
  /\ Sales(b) + HeldNow(p) <= b.buys
  /\ b.buys <= Sales(b) + HeldNow(p) + b.adjustments
  /\ Worth(p, b)

\* The order to fill is for the account as it is.
Placed(order, p) ==
  /\ order \in Order
  /\ \/ order = Engine!NoOrder
     \/ order.direction # "NONE" /\ order.cash = p.cash /\ order.position = p.quantity
  /\ order.direction = "BUY" => p.quantity = 0

EngineInv ==
  /\ capital \in Nat
  /\ Explained(account, books)
  /\ Placed(pending, account)
  /\ ended # "asserted"

\* What adjusting does to a holding: its worth at the entry price does not grow.
LEMMA AdjustedWorth ==
  ASSUME NEW q \in Nat, NEW e \in Nat, NEW n \in Nat \ {0}, NEW d \in Nat \ {0}
  PROVE  LET r == (q * d) \div n
             g == (e * n) \div d
         IN  r \in Nat /\ g \in Nat /\ r * g <= q * e
<1> DEFINE r == (q * d) \div n
           g == (e * n) \div d
<1>1. q * d \in Nat /\ e * n \in Nat
  OBVIOUS
<1>2. /\ r \in Int /\ n * r <= q * d /\ q * d < n * r + n
      /\ g \in Int /\ d * g <= e * n /\ e * n < d * g + d
  BY <1>1, DivBounds
<1> HIDE DEF r, g
<1>3. r \in Nat
  <2> SUFFICES ASSUME r <= -1 PROVE FALSE
    BY <1>2
  <2>1. r * n <= (-1) * n
    BY <1>2, Monotone
  <2> QED BY <1>1, <1>2, <2>1
<1>4. g \in Nat
  <2> SUFFICES ASSUME g <= -1 PROVE FALSE
    BY <1>2
  <2>1. g * d <= (-1) * d
    BY <1>2, Monotone
  <2> QED BY <1>1, <1>2, <2>1
<1>5. (n * r) * (d * g) <= (q * d) * (e * n)
  <2>1. (n * r) * (d * g) <= (q * d) * (d * g)
    BY <1>1, <1>2, <1>3, <1>4, Monotone
  <2>2. (d * g) * (q * d) <= (e * n) * (q * d)
    BY <1>1, <1>2, <1>3, <1>4, Monotone
  <2> QED BY <1>1, <1>2, <1>3, <1>4, <2>1, <2>2
<1>6. (n * d) * (r * g) <= (n * d) * (q * e)
  <2>1. (n * r) * (d * g) = (n * d) * (r * g)
    BY <1>3, <1>4
  <2>2. (q * d) * (e * n) = (n * d) * (q * e)
    OBVIOUS
  <2> QED BY <1>5, <2>1, <2>2
<1>7. r * g <= q * e
  <2> DEFINE x == r * g
             y == q * e
             u == n * d
  <2>1. x \in Nat /\ y \in Nat /\ u \in Nat /\ u > 0 /\ u * x <= u * y
    BY <1>3, <1>4, <1>6
  <2> HIDE DEF x, y, u
  <2>2. x <= y
    <3> SUFFICES ASSUME y + 1 <= x PROVE FALSE
      BY <2>1
    <3>1. (y + 1) * u <= x * u
      BY <2>1, Monotone
    <3> QED BY <2>1, <3>1
  <2> QED BY <2>2 DEF x, y
<1> QED BY <1>3, <1>4, <1>7 DEF r, g

CountedIn(b) == [b EXCEPT !.adjustments = @ + 1]

Factors == [num : Nat \ {0}, den : Nat \ {0}]

\* A company action.
LEMMA AdjustExplained ==
  ASSUME capital \in Nat, NEW p, NEW b, Explained(p, b), NEW f \in Factors
  PROVE  /\ Explained(Engine!AdjustedPosition(p, f), CountedIn(b))
         /\ p.quantity = 0 => Engine!AdjustedPosition(p, f) = p
<1> DEFINE s == Engine!AdjustedPosition(p, f)
           c == CountedIn(b)
<1>1. /\ p.quantity \in Nat /\ p.entry \in Nat /\ p.cash \in Nat
      /\ b \in Books /\ b.adjustments \in Nat /\ p \in Account
      /\ f.num \in Nat \ {0} /\ f.den \in Nat \ {0} /\ Unit \in Nat
      /\ Sales(b) \in Nat /\ Net(b) \in Int /\ b.buys \in Nat
  BY EngineAssumption DEF Explained, Account, Books, Factors, Sales, Net
<1>2. /\ c \in Books /\ c.adjustments > 0 /\ c.adjustments = b.adjustments + 1
      /\ Sales(c) = Sales(b) /\ Net(c) = Net(b) /\ c.buys = b.buys
  BY <1>1 DEF CountedIn, Books, Sales, Net
<1>3. CASE p.quantity = 0
  <2>1. s = p
    BY <1>1, <1>3 DEF Engine!AdjustedPosition, Engine!Held
  <2> HIDE DEF s, c
  <2>2. Worth(s, c)
    BY <1>1, <1>2, <1>3, <2>1 DEF Explained, Worth
  <2>3. HeldNow(s) = 0 /\ HeldNow(p) = 0
    BY <1>3, <2>1 DEF HeldNow
  <2>4. Sales(c) + HeldNow(s) <= c.buys /\ c.buys <= Sales(c) + HeldNow(s) + c.adjustments
    BY <1>1, <1>2, <2>3 DEF Explained
  <2> QED BY <1>1, <1>2, <2>1, <2>2, <2>4 DEF Explained, s, c
<1>4. CASE p.quantity > 0
  <2> DEFINE r == (p.quantity * f.den) \div f.num
             g == (p.entry * f.num) \div f.den
  <2>1. r \in Nat /\ g \in Nat /\ r * g <= p.quantity * p.entry
    BY <1>1, AdjustedWorth
  <2>2. s = [p EXCEPT !.quantity = r, !.entry = g]
    BY <1>4 DEF Engine!AdjustedPosition, Engine!Held
  <2> HIDE DEF r, g
  <2>3. s \in Account /\ s.cash = p.cash /\ s.quantity = r /\ s.entry = g
    BY <1>1, <2>1, <2>2 DEF Account
  <2> DEFINE T == capital + Net(b) + Sales(b)
             worth == p.cash * Unit + p.quantity * p.entry
  <2>4. T \in Int /\ 2 * worth <= 2 * (T * Unit) + Unit
    BY <1>1, <1>4 DEF Explained, Worth
  <2>5. p.cash * Unit \in Nat /\ r * g \in Nat /\ p.quantity * p.entry \in Nat
    BY <1>1, <2>1
  <2>6. 2 * (p.cash * Unit + r * g) <= 2 * (T * Unit) + Unit
    BY <1>1, <2>1, <2>4, <2>5
  <2>7. r = 0 => p.cash <= T
    <3> SUFFICES ASSUME r = 0, T + 1 <= p.cash PROVE FALSE
      BY <1>1, <2>4
    <3>1. (T + 1) * Unit <= p.cash * Unit
      BY <1>1, <2>4, Monotone
    <3>2. r * g = 0 /\ Unit > 0 /\ (T + 1) * Unit = T * Unit + Unit
      BY <1>1, <2>1, <2>4, EngineAssumption
    <3> QED BY <1>1, <2>4, <2>5, <2>6, <3>1, <3>2
  <2> HIDE DEF T, worth, s, c
  <2>8. Worth(s, c)
    BY <1>1, <1>2, <2>1, <2>3, <2>6, <2>7 DEF Worth, T
  <2>9. Sales(c) + HeldNow(s) <= c.buys /\ c.buys <= Sales(c) + HeldNow(s) + c.adjustments
    BY <1>1, <1>2, <1>4 DEF Explained, HeldNow
  <2> QED BY <1>2, <1>4, <2>3, <2>8, <2>9 DEF Explained, s, c
<1> QED BY <1>1, <1>3, <1>4

\* A purchase with the whole of the cash.
LEMMA BuyExplained ==
  ASSUME capital \in Nat, NEW p, NEW b, Explained(p, b), p.quantity = 0,
         NEW open \in Nat \ {0}, Engine!Afforded(p.cash, open) # 0
  PROVE  /\ Explained(Engine!Bought(p, open), [b EXCEPT !.buys = @ + 1])
         /\ Engine!Bought(p, open).quantity > 0
<1> DEFINE q == (p.cash * Unit) \div open
           n == p.cash * Unit - q * open
           m == Engine!Money(n, Unit)
           s == Engine!Bought(p, open)
           c == [b EXCEPT !.buys = @ + 1]
<1>1. /\ p.cash \in Nat /\ p \in Account /\ b \in Books
      /\ Unit \in Nat \ {0} /\ p.cash * Unit \in Nat
      /\ Sales(b) \in Nat /\ Net(b) \in Int /\ b.buys \in Nat /\ b.adjustments \in Nat
  BY EngineAssumption DEF Explained, Account, Books, Sales, Net
<1>2. q \in Int /\ open * q <= p.cash * Unit /\ p.cash * Unit < open * q + open
  <2> DEFINE all == p.cash * Unit
  <2>1. all \in Int
    BY <1>1
  <2> HIDE DEF all
  <2>2. all \div open \in Int /\ open * (all \div open) <= all
        /\ all < open * (all \div open) + open
    BY <2>1, DivBounds
  <2> QED BY <2>2 DEF all
<1>3. q # 0 /\ s = [cash |-> m, quantity |-> q, entry |-> open]
  BY DEF Engine!Bought, Engine!Afforded
<1> HIDE DEF q
<1>4. q \in Nat /\ q > 0
  <2> SUFFICES ASSUME q <= -1 PROVE FALSE
    BY <1>2, <1>3
  <2>1. q * open <= (-1) * open
    BY <1>2, Monotone
  <2> QED BY <1>1, <1>2, <2>1
<1>5. q * open \in Nat /\ n \in Int /\ n >= 0
  BY <1>1, <1>2, <1>4
<1>6. m \in Int /\ m >= 0 /\ 2 * (m * Unit) <= 2 * n + Unit /\ 2 * n - Unit <= 2 * (m * Unit)
  BY <1>1, <1>5, MoneyRounds
<1> HIDE DEF m
<1>7. s \in Account /\ s.cash = m /\ s.quantity = q /\ s.entry = open
  BY <1>3, <1>4, <1>6 DEF Account
<1>8. /\ c \in Books /\ c.buys = b.buys + 1 /\ Sales(c) = Sales(b) /\ Net(c) = Net(b)
      /\ c.adjustments = b.adjustments
  BY <1>1 DEF Books, Sales, Net
<1> DEFINE up == capital + Net(b) + Sales(b)
           low == capital + Net(b) - Sales(b)
<1>9. /\ up \in Int /\ low \in Int /\ p.cash <= up
      /\ b.adjustments > 0 \/ low <= p.cash
  BY <1>1 DEF Explained, Worth
<1>10. p.cash * Unit <= up * Unit /\ (b.adjustments > 0 \/ low * Unit <= p.cash * Unit)
       /\ up * Unit \in Int /\ low * Unit \in Int /\ m * Unit \in Int
  BY <1>1, <1>6, <1>9, Monotone
<1>11. /\ 2 * (m * Unit + q * open) <= 2 * (up * Unit) + Unit
       /\ b.adjustments > 0
          \/ 2 * (low * Unit) - Unit <= 2 * (m * Unit + q * open)
  BY <1>1, <1>5, <1>6, <1>10
<1> HIDE DEF s, c
<1>12. Worth(s, c)
  BY <1>4, <1>7, <1>8, <1>11 DEF Worth
<1>13. HeldNow(s) = 1 /\ HeldNow(p) = 0
  BY <1>4, <1>7 DEF HeldNow
<1>14. Sales(c) + HeldNow(s) <= c.buys /\ c.buys <= Sales(c) + HeldNow(s) + c.adjustments
  BY <1>1, <1>8, <1>13 DEF Explained
<1>15. s.quantity > 0 /\ Explained(s, c)
  BY <1>4, <1>7, <1>8, <1>12, <1>14 DEF Explained
<1> QED BY <1>15 DEF s, c

\* What a sale does to the trades.
LEMMA SaleBooked ==
  ASSUME NEW b \in Books, NEW amount \in Int
  PROVE  LET c == Engine!BookedSale(b, amount) IN
         /\ c \in Books /\ Sales(c) = Sales(b) + 1 /\ Net(c) = Net(b) + amount
         /\ c.buys = b.buys /\ c.adjustments = b.adjustments
<1> DEFINE sales == b.sales + 1
           pr == IF amount > 0 THEN b.profit + amount ELSE b.profit
           lo == IF amount < 0 THEN b.loss - amount ELSE b.loss
           c == Engine!BookedSale(b, amount)
<1>1. sales \in Nat /\ pr \in Nat /\ lo \in Nat /\ pr - lo = Net(b) + amount
  BY DEF Books, Net
<1>2. c = [b EXCEPT !.sales = sales, !.profit = pr, !.loss = lo]
  BY DEF Engine!BookedSale
<1>3. sales = Sales(b) + 1
  BY DEF Sales
<1> HIDE DEF sales, pr, lo, c
<1>4. /\ c \in Books /\ c.sales = sales /\ c.profit = pr /\ c.loss = lo
      /\ c.buys = b.buys /\ c.adjustments = b.adjustments
  BY <1>1, <1>2 DEF Books
<1> QED BY <1>1, <1>3, <1>4 DEF c, Sales, Net

\* The sale of everything.
LEMMA SellExplained ==
  ASSUME capital \in Nat, NEW p, NEW b, Explained(p, b), p.quantity > 0,
         NEW open \in Nat \ {0}
  PROVE  Explained(Engine!Sold(p, open), Engine!BookedSale(b, Engine!Realized(p, open)))
<1> DEFINE n == p.cash * Unit + p.quantity * open
           m == Engine!Money(n, Unit)
           g == p.quantity * open - p.quantity * p.entry
           amount == Engine!Money(g, Unit)
           s == Engine!Sold(p, open)
           c == Engine!BookedSale(b, amount)
           up == capital + Net(b) + Sales(b)
           low == capital + Net(b) - Sales(b)
<1>1. /\ p.cash \in Nat /\ p.quantity \in Nat /\ p.entry \in Nat /\ p \in Account /\ b \in Books
      /\ Unit \in Nat \ {0} /\ p.cash * Unit \in Nat
      /\ p.quantity * open \in Nat /\ p.quantity * p.entry \in Nat
      /\ Sales(b) \in Nat /\ Net(b) \in Int /\ b.buys \in Nat /\ b.adjustments \in Nat
      /\ up \in Int /\ low \in Int
  BY EngineAssumption DEF Explained, Account, Books, Sales, Net
<1>2. m \in Int /\ m >= 0 /\ 2 * (m * Unit) <= 2 * n + Unit /\ 2 * n - Unit <= 2 * (m * Unit)
  <2>1. n \in Int /\ n >= 0
    BY <1>1
  <2> HIDE DEF n
  <2> QED BY <1>1, <2>1, MoneyRounds
<1>3. amount \in Int /\ 2 * (amount * Unit) <= 2 * g + Unit
      /\ 2 * g - Unit <= 2 * (amount * Unit)
  <2>1. g \in Int
    BY <1>1
  <2> HIDE DEF g
  <2> QED BY <1>1, <2>1, MoneyRounds
<1>4. /\ 2 * (p.cash * Unit + p.quantity * p.entry) <= 2 * (up * Unit) + Unit
      /\ b.adjustments > 0
         \/ 2 * (low * Unit) - Unit <= 2 * (p.cash * Unit + p.quantity * p.entry)
  BY <1>1 DEF Explained, Worth
<1>5. s = [cash |-> m, quantity |-> 0, entry |-> 0]
  BY DEF Engine!Sold
<1>6. Engine!Realized(p, open) = amount
  BY DEF Engine!Realized
<1>7. /\ c \in Books /\ Sales(c) = Sales(b) + 1 /\ Net(c) = Net(b) + amount
      /\ c.buys = b.buys /\ c.adjustments = b.adjustments
  BY <1>1, <1>3, SaleBooked
<1> HIDE DEF m, amount, s, c
<1>8. m * Unit \in Int /\ amount * Unit \in Int /\ up * Unit \in Int /\ low * Unit \in Int
  BY <1>1, <1>2, <1>3
<1>9. m <= up + amount + 1
  <2> SUFFICES ASSUME up + amount + 2 <= m PROVE FALSE
    BY <1>1, <1>2, <1>3
  <2>1. (up + amount + 2) * Unit <= m * Unit
    BY <1>1, <1>2, <1>3, Monotone
  <2>2. (up + amount + 2) * Unit = up * Unit + amount * Unit + 2 * Unit
    BY <1>1, <1>3
  <2> QED BY <1>1, <1>2, <1>3, <1>4, <1>8, <2>1, <2>2
<1>10. b.adjustments > 0 \/ low + amount - 1 <= m
  <2> SUFFICES ASSUME ~(b.adjustments > 0), m <= low + amount - 2 PROVE FALSE
    BY <1>1, <1>2, <1>3
  <2>1. m * Unit <= (low + amount - 2) * Unit
    BY <1>1, <1>2, <1>3, Monotone
  <2>2. (low + amount - 2) * Unit = low * Unit + amount * Unit - 2 * Unit
    BY <1>1, <1>3
  <2> QED BY <1>1, <1>2, <1>3, <1>4, <1>8, <2>1, <2>2
<1>11. s \in Account /\ s.cash = m /\ s.quantity = 0
  BY <1>2, <1>5 DEF Account
<1>12. Worth(s, c)
  BY <1>1, <1>2, <1>3, <1>7, <1>9, <1>10, <1>11 DEF Worth
<1>13. HeldNow(s) = 0 /\ HeldNow(p) = 1
  BY <1>11 DEF HeldNow
<1>14. Sales(c) + HeldNow(s) <= c.buys /\ c.buys <= Sales(c) + HeldNow(s) + c.adjustments
  BY <1>1, <1>7, <1>13 DEF Explained
<1>15. Explained(s, c)
  BY <1>7, <1>11, <1>12, <1>14 DEF Explained
<1> QED BY <1>6, <1>15 DEF s, c

\* A company action: the order to fill is adjusted with the account.
LEMMA AdjustKeeps ==
  ASSUME EngineInv, NEW f \in Factors, Engine!Adjust(f)
  PROVE  EngineInv'
<1>1. capital \in Nat /\ Explained(account, books) /\ Placed(pending, account)
  BY DEF EngineInv
<1>2. /\ account' = Engine!AdjustedPosition(account, f) /\ books' = CountedIn(books)
      /\ pending' = Engine!AdjustedOrder(pending, account, account') /\ capital' = capital
      /\ ended' = "adjusted"
  BY DEF Engine!Adjust, CountedIn
<1>3. Explained(account', books') /\ (account.quantity = 0 => account' = account)
  BY <1>1, <1>2, AdjustExplained
<1>4. Placed(pending', account')
  <2>1. account \in Account /\ account' \in Account
    BY <1>1, <1>3 DEF Explained
  <2>2. account'.cash = account.cash
    BY <1>2, <2>1 DEF Engine!AdjustedPosition, Account
  <2>3. CASE pending.direction = "SELL" /\ account.quantity > 0
    <3>1. pending' = [pending EXCEPT !.position = account'.quantity]
      BY <1>2, <2>3 DEF Engine!AdjustedOrder, Engine!Held
    <3>2. pending # Engine!NoOrder
      BY <2>3 DEF Engine!NoOrder
    <3>3. pending' \in Order /\ pending'.direction = "SELL"
          /\ pending'.cash = account'.cash /\ pending'.position = account'.quantity
      BY <1>1, <2>1, <2>2, <2>3, <3>1, <3>2 DEF Placed, Order, Account
    <3> QED BY <3>3 DEF Placed
  <2>4. CASE ~(pending.direction = "SELL" /\ account.quantity > 0)
    <3>1. pending' = pending
      BY <1>2, <2>4 DEF Engine!AdjustedOrder, Engine!Held
    <3>2. CASE account.quantity = 0
      BY <1>1, <1>3, <3>1, <3>2 DEF Placed
    <3>3. CASE account.quantity > 0
      <4>1. pending = Engine!NoOrder
        BY <1>1, <2>4, <3>3 DEF Placed, Order, Engine!NoOrder
      <4> QED BY <1>1, <3>1, <4>1 DEF Placed, Engine!NoOrder
    <3> QED BY <2>1, <3>2, <3>3 DEF Account
  <2> QED BY <2>3, <2>4
<1> QED BY <1>1, <1>2, <1>3, <1>4 DEF EngineInv, Explained, Worth, Placed

\* One bar.
LEMMA BarKeeps ==
  ASSUME EngineInv, NEW open \in OpenPrice, NEW close, NEW values,
         Engine!Bar(open, close, values)
  PROVE  EngineInv'
<1> DEFINE filled == CASE pending.direction = "BUY" -> Engine!Bought(account, open)
                       [] pending.direction = "SELL" -> Engine!Sold(account, open)
                       [] OTHER -> account
           booked == CASE pending.direction = "BUY" -> [books EXCEPT !.buys = @ + 1]
                       [] pending.direction = "SELL" ->
                            Engine!BookedSale(books, Engine!Realized(account, open))
                       [] OTHER -> books
           stops == Engine!Misplaced(pending, account)
                    \/ Engine!Unfillable(pending, account, open)
<1>1. /\ capital \in Nat /\ Explained(account, books) /\ Placed(pending, account)
      /\ open \in Nat \ {0} /\ ~Engine!Misplaced(pending, account)
  BY EngineAssumption DEF EngineInv, Placed, Engine!Misplaced
<1>2. CASE stops
  <2>1. UNCHANGED <<capital, account, pending, books>> /\ ended' = "raised"
    BY <1>1, <1>2 DEF Engine!Bar
  <2> QED BY <1>1, <2>1 DEF EngineInv, Explained, Worth, Placed
<1>3. CASE ~stops
  <2>1. /\ account' = filled /\ books' = booked /\ capital' = capital /\ ended' = "no"
        /\ pending' = Engine!NewOrder(zone', filled)
    BY <1>3 DEF Engine!Bar
  <2>2. ~Engine!Unfillable(pending, account, open)
    BY <1>3
  <2>3. Explained(filled, booked)
    <3>1. CASE pending.direction = "BUY"
      <4>1. account.quantity = 0 /\ Engine!Afforded(account.cash, open) # 0
        BY <1>1, <2>2, <3>1 DEF Placed, Engine!Unfillable
      <4>2. Explained(Engine!Bought(account, open), [books EXCEPT !.buys = @ + 1])
        BY <1>1, <4>1, BuyExplained
      <4> QED BY <3>1, <4>2
    <3>2. CASE pending.direction = "SELL"
      <4>1. account.quantity > 0
        BY <1>1, <2>2, <3>2 DEF Explained, Account, Engine!Unfillable
      <4>2. Explained(Engine!Sold(account, open),
                      Engine!BookedSale(books, Engine!Realized(account, open)))
        BY <1>1, <4>1, SellExplained
      <4> QED BY <3>2, <4>2
    <3>3. CASE pending.direction \notin {"BUY", "SELL"}
      BY <1>1, <3>3
    <3> QED BY <3>1, <3>2, <3>3
  <2>4. Placed(pending', filled)
    <3>1. filled \in Account
      BY <2>3 DEF Explained
    <3> HIDE DEF filled
    <3>2. \/ pending' = Engine!NoOrder
          \/ \E side \in {"BUY", "SELL"} :
               /\ pending' = [direction |-> side, cash |-> filled.cash,
                               position |-> filled.quantity]
               /\ side = "BUY" => ~(filled.quantity > 0)
      BY <2>1 DEF Engine!NewOrder, Engine!Held
    <3>3. CASE pending' = Engine!NoOrder
      BY <3>3 DEF Placed, Order, Engine!NoOrder
    <3> QED BY <3>1, <3>2, <3>3 DEF Placed, Order, Account
  <2> HIDE DEF filled, booked
  <2>5. Explained(account', books') /\ Placed(pending', account')
    BY <2>1, <2>3, <2>4
  <2> QED BY <1>1, <2>1, <2>5 DEF EngineInv, Placed, Explained, Worth
<1> QED BY <1>2, <1>3

LEMMA EngineStep ==
  ASSUME EngineInv, [Engine!ENext]_(Engine!evars)
  PROVE  EngineInv'
<1>1. CASE UNCHANGED Engine!evars \/ Engine!Report
  BY <1>1 DEF Engine!evars, Engine!Report, EngineInv, Explained, Worth, Placed
<1>2. ASSUME NEW f \in Factor, Engine!Adjust(f)
      PROVE  EngineInv'
  BY <1>2, AdjustKeeps, EngineAssumption DEF Factors
<1>3. ASSUME NEW open \in OpenPrice, NEW close \in ClosePrice, NEW values,
             Engine!Bar(open, close, values)
      PROVE  EngineInv'
  BY <1>3, BarKeeps
<1> QED BY <1>1, <1>2, <1>3 DEF Engine!ENext

LEMMA EngineStart == Engine!EInit => EngineInv
<1> SUFFICES ASSUME Engine!EInit PROVE EngineInv
  OBVIOUS
<1>1. /\ capital \in Nat /\ account = [cash |-> capital, quantity |-> 0, entry |-> 0]
      /\ pending = Engine!NoOrder /\ books = Engine!NoBooks
  BY EngineAssumption DEF Engine!EInit
<1>2. account \in Account /\ account.quantity = 0 /\ account.cash = capital
  BY <1>1 DEF Account
<1>3. books \in Books /\ Sales(books) = 0 /\ Net(books) = 0 /\ books.buys = 0
      /\ books.adjustments = 0
  BY <1>1 DEF Engine!NoBooks, Books, Sales, Net
<1>4. Worth(account, books)
  BY <1>1, <1>2, <1>3 DEF Worth
<1>5. Placed(pending, account)
  BY <1>1 DEF Placed, Order, Engine!NoOrder
<1> QED BY <1>1, <1>2, <1>3, <1>4, <1>5 DEF EngineInv, Explained, HeldNow, Engine!EInit

\* An order fills against what it was placed with, and the trades of a backtest
\* explain its cash, whatever the bars, the company actions and the versions of the
\* prices.
THEOREM Trades == Engine!ESpec => []EngineSound
<1>1. EngineInv /\ [Engine!ENext]_(Engine!evars) => EngineInv'
  BY EngineStep
<1>2. EngineInv => EngineSound
  <2> SUFFICES ASSUME EngineInv PROVE EngineSound
    OBVIOUS
  <2>1. Explained(account, books) /\ account \in Account /\ books \in Books
    BY DEF EngineInv, Explained
  <2>2. Engine!Held(account) <=> account.quantity > 0
    BY DEF Engine!Held
  <2>3. Engine!OrderMatchesPosition
    BY <2>1, <2>2 DEF EngineInv, Placed, Account, Engine!OrderMatchesPosition
  <2>4. Engine!TradesExplainCash
    BY <2>1, <2>2 DEF EngineInv, Engine!TradesExplainCash, Explained,
          Worth, HeldNow, Sales, Net, Account, Books
  <2> QED BY <2>3, <2>4 DEF EngineSound, Engine!EngineSound
<1> QED BY <1>1, <1>2, EngineStart, PTL DEF Engine!ESpec

-----------------------------------------------------------------------------
(* The notification events.                                                 *)

LEMMA EventsCounting == \A S : Events!Cardinality(S) = Cardinality(S)
BY DEF Events!Cardinality, Cardinality

Statuses == [Events!Id -> Events!DeliveryStatus]

\* The newest deliveries by recipient, and where they are.
Tops(f) ==
  {d \in Events!Existing(f) :
     \A e \in Events!Existing(f) : e[1] = d[1] => e[2] <= d[2]}
TopStatuses(f) == {f[d] : d \in Tops(f)}

\* The status of the event is the sum of its newest deliveries, unless one of them
\* is being sent again.
Tells(status, f) ==
  "COMPENSATING" \in TopStatuses(f) \/ status = Events!Aggregate(TopStatuses(f))

Recorded == {"WAITING", "SENT", "FAILED", "CANCELED", "SKIPPED", "UNKNOWN_DUE", "UNKNOWN_KEPT"}
Changes == {"retry", "cancel"} \cup Recorded
Published == Events!EventStatus \ {"ABSENT"}

Transaction ==
  {Events!Idle}
    \cup [pc : {"row"}, delivery : Events!Id, change : Changes]
    \cup [pc : {"event"}, delivery : Events!Id, change : Changes, event : Published]

EventsTyped ==
  /\ notice \in Events!EventStatus
  /\ rows \in Statuses
  /\ session \in [Session -> Transaction]

\* Generations are numbered without a gap, and the newest alone is under way.
Generations(f) ==
  /\ \A d \in Events!Existing(f) : \A g \in 1 .. d[2] : <<d[1], g>> \in Events!Existing(f)
  /\ \A d \in Events!Existing(f) : f[d] \in {"WAITING", "SENDING"} => d \in Tops(f)

Busy(s) == session[s].pc # "idle"

\* The rows and the event are locked by one session each, which changes what it found.
LocksSound ==
  /\ \A s \in Session : Busy(s) =>
       /\ session[s].delivery \in Events!Existing(rows)
       /\ session[s].change = "WAITING" => rows[session[s].delivery] = "SENDING"
  /\ \A s, t \in Session :
       Busy(s) /\ Busy(t) /\ session[s].delivery = session[t].delivery => s = t
  /\ \A s, t \in Session : session[s].pc = "event" /\ session[t].pc = "event" => s = t
  /\ \A s \in Session, d \in Events!Id :
       session[s].pc = "event" /\ session[s].delivery = d =>
         /\ session[s].change = "retry" => Events!MayRetry(d)
         /\ session[s].change = "cancel" => Events!MayCancel(d)

Unpublished == notice = "ABSENT" => Events!Existing(rows) = {}

DeliveriesInv == EventsTyped /\ Generations(rows) /\ LocksSound /\ Unpublished

SumsTrue ==
  /\ notice # "ABSENT" => Tells(notice, rows)
  /\ \A s \in Session, d \in Events!Id, change \in Changes :
       session[s].pc = "event" /\ session[s].delivery = d /\ session[s].change = change =>
         Tells(session[s].event, Events!After(d, change))

OwnChannel == \A r, q \in Recipient : ChannelOf[r] = ChannelOf[q] => r = q

LEMMA PairParts ==
  /\ \A d \in Events!Id : /\ d[1] \in Recipient /\ d[2] \in 1 .. MaxGeneration
                          /\ d[2] \in Nat /\ d = <<d[1], d[2]>>
  /\ \A r \in Recipient, g \in 1 .. MaxGeneration :
       <<r, g>> \in Events!Id /\ <<r, g>>[1] = r /\ <<r, g>>[2] = g
BY EventsAssumption DEF Events!Id, Events!Generation

LEMMA AggregateKnown ==
  ASSUME NEW S \in SUBSET (Events!DeliveryStatus \ {"ABSENT"})
  PROVE  Events!Aggregate(S) \in Published
BY DEF Events!Aggregate, Events!DeliveryStatus, Events!EventStatus, Events!Active,
       Events!Sending, Events!Final, Events!Unknown, Published

LEMMA ActiveSum ==
  ASSUME NEW S, S \cap Events!Active # {}
  PROVE  Events!Aggregate(S) = "DISPATCHED"
BY DEF Events!Aggregate, Events!Active, Events!Sending

\* The newest deliveries of a recipient are one.
LEMMA OneTop ==
  ASSUME NEW f \in Statuses, NEW d \in Tops(f), NEW e \in Tops(f), d[1] = e[1]
  PROVE  d = e
<1>1. d \in Events!Id /\ e \in Events!Id /\ d \in Events!Existing(f) /\ e \in Events!Existing(f)
  BY DEF Tops, Events!Existing
<1>2. e[2] <= d[2] /\ d[2] <= e[2] /\ d[2] \in Nat /\ e[2] \in Nat
  BY <1>1, PairParts DEF Tops
<1>3. d = <<d[1], d[2]>> /\ e = <<e[1], e[2]>>
  BY <1>1, PairParts
<1> QED BY <1>2, <1>3

\* A recipient's deliveries are as many as its newest one says.
LEMMA NextIsNew ==
  ASSUME EventsTyped, Generations(rows), NEW d \in Tops(rows)
  PROVE  Events!NextGeneration(d[1]) = d[2] + 1
<1> DEFINE own == {e \in Events!Existing(rows) : e[1] = d[1]}
           f == [g \in 1 .. d[2] |-> <<d[1], g>>]
<1>1. d \in Events!Id /\ d \in Events!Existing(rows) /\ d[2] \in Nat
      /\ d[1] \in Recipient /\ d[2] <= MaxGeneration
  BY PairParts DEF Tops, Events!Existing
<1>2. \A g \in 1 .. d[2] : <<d[1], g>> \in own
  BY <1>1 DEF Generations
<1>3. \A e \in own : e = <<d[1], e[2]>> /\ e[2] \in 1 .. d[2]
  BY PairParts DEF Tops, Events!Existing
<1>4. f \in Bijection(1 .. d[2], own)
  <2>1. f \in [1 .. d[2] -> own]
    BY <1>2
  <2>2. \A a, b \in 1 .. d[2] : f[a] = f[b] => a = b
    OBVIOUS
  <2>3. \A e \in own : \E g \in 1 .. d[2] : f[g] = e
    BY <1>3
  <2> QED BY <2>1, <2>2, <2>3 DEF Bijection, Injection, Surjection, IsInjective
<1>5. IsFiniteSet(1 .. d[2]) /\ Cardinality(1 .. d[2]) = d[2]
  <2> DEFINE n == d[2]
  <2>1. n \in Nat
    BY <1>1
  <2> HIDE DEF n
  <2>2. IsFiniteSet(1 .. n) /\ Cardinality(1 .. n) = n
    BY <2>1, FS_Interval
  <2> QED BY <2>2 DEF n
<1>6. Cardinality(own) = d[2]
  BY <1>4, <1>5, FS_Bijection DEF ExistsBijection
<1> QED BY <1>6, EventsCounting DEF Events!NextGeneration

\* A change that is due, and the row it sets.
LEMMA AfterSets ==
  ASSUME EventsTyped, Generations(rows), NEW d \in Events!Existing(rows), NEW change \in Changes,
         change = "retry" => Events!MayRetry(d)
  PROVE  /\ change = "retry" =>
              /\ d \in Tops(rows) /\ rows[d] \notin Events!Active
              /\ <<d[1], d[2] + 1>> \in Events!Id \ Events!Existing(rows)
              /\ Events!After(d, change) = [rows EXCEPT ![<<d[1], d[2] + 1>>] = "WAITING"]
         /\ change = "cancel" => Events!After(d, change) = [rows EXCEPT ![d] = "CANCELED"]
         /\ change \notin {"retry", "cancel"} =>
              /\ change \in Events!DeliveryStatus \ {"ABSENT"}
              /\ Events!After(d, change) = [rows EXCEPT ![d] = change]
         /\ Events!After(d, change) \in Statuses
         /\ Events!Existing(rows) \subseteq Events!Existing(Events!After(d, change))
<1>1. d \in Events!Id /\ d[1] \in Recipient /\ d[2] \in 1 .. MaxGeneration /\ rows \in Statuses
      /\ rows[d] # "ABSENT"
  BY PairParts DEF Events!Existing, EventsTyped
<1>2. CASE change = "retry"
  <2>1. /\ d \in Events!Newest(rows, ChannelOf[d[1]]) /\ d[2] < MaxGeneration
        /\ rows[d] \in {"FAILED", "SENT"} \cup Events!Unknown
    BY <1>2 DEF Events!MayRetry, Events!IsCurrent
  <2>2. d \in Tops(rows)
    BY <2>1 DEF Events!Newest, Tops
  <2>3. <<d[1], d[2] + 1>> \in Events!Id
    <3>1. d[2] + 1 \in 1 .. MaxGeneration
      BY <1>1, <2>1, EventsAssumption
    <3> QED BY <1>1, <3>1, PairParts
  <2>4. <<d[1], d[2] + 1>> \notin Events!Existing(rows)
    <3> SUFFICES ASSUME <<d[1], d[2] + 1>> \in Events!Existing(rows) PROVE FALSE
      OBVIOUS
    <3>1. d[2] + 1 <= d[2]
      BY <2>2, <2>3 DEF Tops
    <3> QED BY <1>1, <3>1
  <2>5. Events!After(d, change) = [rows EXCEPT ![<<d[1], d[2] + 1>>] = "WAITING"]
    <3>1. "retry" \notin Events!DeliveryStatus
      BY DEF Events!DeliveryStatus, Events!Active, Events!Sending, Events!Final
    <3>2. Events!NextGeneration(d[1]) = d[2] + 1
      BY <2>2, NextIsNew
    <3> QED BY <1>2, <3>1, <3>2 DEF Events!After
  <2>6. "WAITING" \in Events!DeliveryStatus /\ rows[d] \notin Events!Active
    BY <2>1 DEF Events!DeliveryStatus, Events!Active, Events!Sending, Events!Unknown
  <2>7. Events!After(d, change) \in Statuses
    BY <1>1, <2>3, <2>5, <2>6 DEF Statuses
  <2>8. Events!Existing(rows) \subseteq Events!Existing(Events!After(d, change))
    BY <1>1, <2>3, <2>5 DEF Events!Existing, Statuses
  <2> QED BY <1>2, <2>2, <2>3, <2>4, <2>5, <2>6, <2>7, <2>8
<1>3. CASE change = "cancel"
  <2>1. Events!After(d, change) = [rows EXCEPT ![d] = "CANCELED"]
    <3>1. "cancel" \notin Events!DeliveryStatus
      BY DEF Events!DeliveryStatus, Events!Active, Events!Sending, Events!Final
    <3> QED BY <1>3, <3>1 DEF Events!After
  <2>2. "CANCELED" \in Events!DeliveryStatus
    BY DEF Events!DeliveryStatus, Events!Final
  <2> QED BY <1>1, <1>3, <2>1, <2>2 DEF Statuses, Events!Existing
<1>4. CASE change \notin {"retry", "cancel"}
  <2>1. change \in Events!DeliveryStatus \ {"ABSENT"}
    BY <1>4 DEF Changes, Recorded, Events!DeliveryStatus, Events!Active, Events!Final
  <2>2. Events!After(d, change) = [rows EXCEPT ![d] = change]
    BY <1>4, <2>1 DEF Events!After
  <2> QED BY <1>1, <1>4, <2>1, <2>2 DEF Statuses, Events!Existing
<1> QED BY <1>2, <1>3, <1>4

\* The newest alone is under way, after a change that is due as before.
LEMMA ChangeKeepsGenerations ==
  ASSUME EventsTyped, Generations(rows), NEW d \in Events!Existing(rows), NEW change \in Changes,
         change = "retry" => Events!MayRetry(d),
         change = "WAITING" => rows[d] = "SENDING"
  PROVE  Generations(Events!After(d, change))
<1> DEFINE f == Events!After(d, change)
<1>1. d \in Events!Id /\ d[1] \in Recipient /\ d[2] \in Nat /\ d = <<d[1], d[2]>>
      /\ rows \in Statuses /\ rows[d] # "ABSENT"
  BY PairParts DEF Events!Existing, EventsTyped
<1>2. CASE change = "retry"
  <2> DEFINE n == <<d[1], d[2] + 1>>
  <2>1. /\ d \in Tops(rows) /\ rows[d] \notin Events!Active
        /\ n \in Events!Id \ Events!Existing(rows)
        /\ f = [rows EXCEPT ![n] = "WAITING"] /\ f \in Statuses
    BY <1>2, AfterSets
  <2> HIDE DEF f
  <2>2. Events!Existing(f) = Events!Existing(rows) \cup {n}
    BY <1>1, <2>1 DEF Events!Existing, Statuses
  <2>3. n[1] = d[1] /\ n[2] = d[2] + 1
    OBVIOUS
  <2>4. \A e \in Events!Existing(rows) : e[1] = d[1] => e[2] <= d[2]
    BY <2>1 DEF Tops
  <2>5. n \in Tops(f)
    <3>1. \A e \in Events!Existing(rows) : e[2] \in Nat
      BY PairParts DEF Events!Existing
    <3> QED BY <1>1, <2>2, <2>3, <2>4, <3>1 DEF Tops
  <2>6. ASSUME NEW e \in Events!Existing(f), NEW g \in 1 .. e[2]
        PROVE  <<e[1], g>> \in Events!Existing(f)
    <3>1. CASE e \in Events!Existing(rows)
      BY <2>2, <3>1 DEF Generations
    <3>2. CASE e = n
      <4>1. g \in 1 .. d[2] \/ g = d[2] + 1
        BY <1>1, <2>3, <3>2
      <4> QED BY <2>2, <2>3, <3>2, <4>1 DEF Generations
    <3> QED BY <2>2, <3>1, <3>2
  <2>7. ASSUME NEW e \in Events!Existing(f), f[e] \in {"WAITING", "SENDING"}
        PROVE  e \in Tops(f)
    <3>1. CASE e = n
      BY <2>5, <3>1
    <3>2. CASE e # n
      <4>1. e \in Events!Existing(rows) /\ rows[e] = f[e] /\ e \in Tops(rows)
        BY <2>1, <2>2, <2>7, <3>2 DEF Generations, Statuses, Events!Existing
      <4>2. e[1] # d[1]
        <5> SUFFICES ASSUME e[1] = d[1] PROVE FALSE
          OBVIOUS
        <5>1. e = d
          BY <1>1, <2>1, <4>1, OneTop
        <5> QED BY <2>1, <2>7, <4>1, <5>1 DEF Events!Active, Events!Sending
      <4> QED BY <2>2, <2>3, <4>1, <4>2 DEF Tops
    <3> QED BY <3>1, <3>2
  <2> QED BY <2>6, <2>7 DEF Generations, f
<1>3. CASE change # "retry"
  <2>1. PICK x \in Events!DeliveryStatus \ {"ABSENT"} :
          /\ f = [rows EXCEPT ![d] = x]
          /\ x = IF change = "cancel" THEN "CANCELED" ELSE change
    <3>1. "CANCELED" \in Events!DeliveryStatus
      BY DEF Events!DeliveryStatus, Events!Final
    <3> QED BY <1>3, <3>1, AfterSets
  <2>2. x \in {"WAITING", "SENDING"} => rows[d] \in {"WAITING", "SENDING"}
    BY <1>3, <2>1 DEF Changes, Recorded
  <2> HIDE DEF f
  <2>3. Events!Existing(f) = Events!Existing(rows)
    BY <1>1, <2>1 DEF Events!Existing, Statuses
  <2>4. Tops(f) = Tops(rows)
    BY <2>3 DEF Tops
  <2>5. \A e \in Events!Existing(f) : f[e] = IF e = d THEN x ELSE rows[e]
    BY <1>1, <2>1 DEF Events!Existing, Statuses
  <2> QED BY <1>1, <2>2, <2>3, <2>4, <2>5 DEF Generations, f
<1> QED BY <1>2, <1>3

\* What is known of the transactions.
LEMMA Transactions ==
  ASSUME DeliveriesInv
  PROVE  \A s \in Session :
           /\ session[s] \in Transaction
           /\ Busy(s) => /\ session[s].pc \in {"row", "event"}
                         /\ session[s].delivery \in Events!Existing(rows)
                         /\ session[s].delivery \in Events!Id
                         /\ session[s].change \in Changes
           /\ session[s].pc = "event" => Busy(s) /\ session[s].event \in Published
BY DEF DeliveriesInv, EventsTyped, LocksSound, Transaction, Busy, Events!Idle

LEMMA EventsStart == Events!Init => DeliveriesInv /\ SumsTrue
<1> SUFFICES ASSUME Events!Init PROVE DeliveriesInv /\ SumsTrue
  OBVIOUS
<1>1. notice = "ABSENT" /\ rows = [d \in Events!Id |-> "ABSENT"]
      /\ session = [s \in Session |-> Events!Idle] /\ "ABSENT" \in Events!DeliveryStatus
      /\ "ABSENT" \in Events!EventStatus
  BY DEF Events!Init, Events!DeliveryStatus, Events!EventStatus
<1>2. Events!Existing(rows) = {} /\ \A s \in Session : session[s].pc = "idle"
  BY <1>1 DEF Events!Existing, Events!Idle
<1>3. EventsTyped
  BY <1>1 DEF EventsTyped, Statuses, Transaction
<1> QED BY <1>1, <1>2, <1>3 DEF DeliveriesInv, SumsTrue, Generations, LocksSound, Busy, Unpublished

\* Before it is published the event has no deliveries, so nobody works on it.
LEMMA PublishKeeps ==
  ASSUME DeliveriesInv, Events!Publish
  PROVE  DeliveriesInv' /\ (\A s \in Session : ~Busy(s)) /\ SumsTrue'
<1>1. EventsTyped /\ notice = "ABSENT" /\ session' = session
  BY DEF DeliveriesInv, Events!Publish
<1>2. \A s \in Session : ~Busy(s)
  BY <1>1, Transactions DEF DeliveriesInv, Unpublished
<1>3. PICK chosen \in SUBSET Recipient :
        /\ rows' = [d \in Events!Id |-> IF d[1] \in chosen /\ d[2] = 1 THEN "WAITING"
                                                                      ELSE "ABSENT"]
        /\ notice' = IF chosen = {} THEN "SUPPRESSED" ELSE "DISPATCHED"
  BY DEF Events!Publish
<1>4. rows' \in Statuses /\ notice' \in Events!EventStatus /\ notice' # "ABSENT"
  BY <1>3 DEF Statuses, Events!DeliveryStatus, Events!EventStatus, Events!Active
<1>5. \A d \in Events!Existing(rows') :
        /\ d \in Events!Id /\ d[2] = 1 /\ d[1] \in chosen /\ rows'[d] = "WAITING"
        /\ d = <<d[1], 1>>
  BY <1>3, PairParts DEF Events!Existing
<1>6. Tops(rows') = Events!Existing(rows')
  BY <1>5 DEF Tops
<1>7. Generations(rows')
  <2>1. ASSUME NEW d \in Events!Existing(rows'), NEW g \in 1 .. d[2]
        PROVE  <<d[1], g>> \in Events!Existing(rows')
    <3>1. g = 1
      BY <1>5
    <3> QED BY <1>5, <3>1
  <2> QED BY <1>6, <2>1 DEF Generations
<1>8. EventsTyped' /\ LocksSound' /\ Unpublished'
  BY <1>1, <1>2, <1>4 DEF EventsTyped, LocksSound, Unpublished, Busy
<1>9. SumsTrue'
  <2>1. CASE chosen = {}
    <3>1. TopStatuses(rows') = {}
      BY <1>5, <1>6, <2>1 DEF TopStatuses
    <3>2. Events!Aggregate({}) = "SUPPRESSED"
      BY DEF Events!Aggregate
    <3> QED BY <1>1, <1>2, <1>3, <2>1, <3>1, <3>2 DEF SumsTrue, Tells, Busy
  <2>2. CASE chosen # {}
    <3>1. PICK r \in chosen : TRUE
      BY <2>2
    <3>2. r \in Recipient /\ 1 \in 1 .. MaxGeneration
      BY EventsAssumption
    <3>3. <<r, 1>> \in Events!Id /\ <<r, 1>>[1] = r /\ <<r, 1>>[2] = 1
      BY <3>2, PairParts
    <3>4. <<r, 1>> \in Events!Existing(rows') /\ rows'[<<r, 1>>] = "WAITING"
      BY <1>3, <3>1, <3>3 DEF Events!Existing
    <3>5. "WAITING" \in TopStatuses(rows')
      BY <1>6, <3>4 DEF TopStatuses
    <3>6. Events!Aggregate(TopStatuses(rows')) = "DISPATCHED"
      BY <3>5, ActiveSum DEF Events!Active
    <3> QED BY <1>1, <1>2, <1>3, <2>2, <3>6 DEF SumsTrue, Tells, Busy
  <2> QED BY <2>1, <2>2
<1> QED BY <1>2, <1>7, <1>8, <1>9 DEF DeliveriesInv

\* A claim alters no sum, unless it compensates.
LEMMA ClaimTells ==
  ASSUME NEW f \in Statuses, NEW d \in Events!Id, NEW x, NEW status, Tells(status, f),
         \/ f[d] = "WAITING" /\ x = "SENDING"
         \/ f[d] = "UNKNOWN_DUE" /\ x = "COMPENSATING"
  PROVE  Tells(status, [f EXCEPT ![d] = x])
<1> DEFINE g == [f EXCEPT ![d] = x]
<1>1. \A e \in Events!Id : g[e] = IF e = d THEN x ELSE f[e]
  BY DEF Statuses
<1>2. Events!Existing(g) = Events!Existing(f) /\ d \in Events!Existing(f)
  BY <1>1 DEF Events!Existing
<1> HIDE DEF g
<1>3. Tops(g) = Tops(f) /\ \A e \in Tops(f) : e \in Events!Id
  BY <1>2 DEF Tops, Events!Existing
<1>4. CASE d \notin Tops(f)
  <2>1. TopStatuses(g) = TopStatuses(f)
    BY <1>1, <1>3, <1>4 DEF TopStatuses
  <2> QED BY <2>1 DEF Tells, g
<1>5. CASE d \in Tops(f)
  <2>1. x \in TopStatuses(g) /\ f[d] \in TopStatuses(f)
    BY <1>1, <1>3, <1>5 DEF TopStatuses
  <2>2. CASE x = "COMPENSATING"
    BY <2>1, <2>2 DEF Tells, g
  <2>3. CASE x = "SENDING" /\ f[d] = "WAITING"
    <3>1. CASE "COMPENSATING" \in TopStatuses(f)
      <4>1. PICK e \in Tops(f) : f[e] = "COMPENSATING"
        BY <3>1 DEF TopStatuses
      <4>2. e # d /\ g[e] = "COMPENSATING"
        BY <1>1, <1>3, <2>3, <4>1
      <4> QED BY <1>3, <4>1, <4>2 DEF TopStatuses, Tells, g
    <3>2. CASE "COMPENSATING" \notin TopStatuses(f)
      <4>1. Events!Aggregate(TopStatuses(f)) = "DISPATCHED"
        BY <2>1, <2>3, ActiveSum DEF Events!Active
      <4>2. Events!Aggregate(TopStatuses(g)) = "DISPATCHED"
        BY <2>1, <2>3, ActiveSum DEF Events!Active, Events!Sending
      <4> QED BY <3>2, <4>1, <4>2 DEF Tells, g
    <3> QED BY <3>1, <3>2
  <2> QED BY <2>2, <2>3
<1> QED BY <1>4, <1>5

\* A claim takes no row that is locked.
LEMMA ClaimKeeps ==
  ASSUME DeliveriesInv, NEW d \in Events!Id, Events!Claim(d)
  PROVE  DeliveriesInv' /\ (SumsTrue => SumsTrue')
<1>1. PICK x \in {"SENDING", "COMPENSATING"} :
        /\ rows' = [rows EXCEPT ![d] = x]
        /\ \/ rows[d] = "WAITING" /\ x = "SENDING"
           \/ rows[d] = "UNKNOWN_DUE" /\ x = "COMPENSATING"
  BY DEF Events!Claim
<1>2. EventsTyped /\ rows \in Statuses /\ Generations(rows) /\ LocksSound /\ Unpublished
      /\ notice' = notice /\ session' = session /\ ~Events!RowLocked(d)
  BY DEF DeliveriesInv, EventsTyped, Events!Claim
<1>3. \A e \in Events!Id : rows'[e] = IF e = d THEN x ELSE rows[e]
  BY <1>1, <1>2 DEF Statuses
<1>4. Events!Existing(rows') = Events!Existing(rows) /\ d \in Events!Existing(rows)
  BY <1>1, <1>3 DEF Events!Existing
<1>5. Tops(rows') = Tops(rows)
  BY <1>4 DEF Tops
<1>6. rows' \in Statuses
  BY <1>1, <1>2 DEF Statuses, Events!DeliveryStatus, Events!Active, Events!Sending
<1>7. Generations(rows')
  <2>1. \A e \in Events!Existing(rows) : e \in Events!Id
    BY DEF Events!Existing
  <2> QED BY <1>1, <1>2, <1>3, <1>4, <1>5, <2>1 DEF Generations
<1>8. \A s \in Session : Busy(s) => session[s].delivery # d
  BY <1>2 DEF Events!RowLocked, Busy
<1>9. \A c : Events!Newest(rows', c) = Events!Newest(rows, c)
  BY <1>4 DEF Events!Newest
<1>10. \A e \in Events!Existing(rows) : e # d =>
         (Events!MayRetry(e) => Events!MayRetry(e)') /\ (Events!MayCancel(e) => Events!MayCancel(e)')
  BY <1>3, <1>9 DEF Events!MayRetry, Events!MayCancel, Events!IsCurrent, Events!Existing
<1>11. LocksSound'
  <2>1. \A s \in Session : Busy(s)' <=> Busy(s)
    BY <1>2 DEF Busy
  <2>2. \A s \in Session : Busy(s) =>
          /\ session[s].delivery \in Events!Existing(rows')
          /\ session[s].change = "WAITING" => rows'[session[s].delivery] = "SENDING"
    BY <1>2, <1>3, <1>4, <1>8 DEF LocksSound, Events!Existing
  <2>3. \A s \in Session, e \in Events!Id :
          session[s].pc = "event" /\ session[s].delivery = e =>
            /\ session[s].change = "retry" => Events!MayRetry(e)'
            /\ session[s].change = "cancel" => Events!MayCancel(e)'
    BY <1>2, <1>8, <1>10, Transactions DEF LocksSound
  <2> QED BY <1>2, <2>1, <2>2, <2>3 DEF LocksSound
<1>12. DeliveriesInv'
  BY <1>2, <1>4, <1>6, <1>7, <1>11 DEF DeliveriesInv, EventsTyped, Unpublished
<1>13. ASSUME SumsTrue
       PROVE  SumsTrue'
  <2>1. notice # "ABSENT" => Tells(notice, rows')
    BY <1>1, <1>2, <1>13, ClaimTells DEF SumsTrue
  <2>2. ASSUME NEW s \in Session, session[s].pc = "event", NEW e \in Events!Id,
               NEW change \in Changes, e = session[s].delivery, change = session[s].change
        PROVE  Tells(session[s].event, Events!After(e, change)')
    <3> DEFINE f == Events!After(e, change)
    <3>1. /\ e \in Events!Existing(rows) /\ e # d /\ change \in Changes /\ e \in Events!Id
          /\ change = "retry" => Events!MayRetry(e)
          /\ Tells(session[s].event, f)
      BY <1>2, <1>8, <1>13, <2>2, Transactions DEF LocksSound, SumsTrue
    <3>2. f \in Statuses /\ f[d] = rows[d] /\ Events!After(e, change)' = [f EXCEPT ![d] = x]
      <4>1. CASE change = "retry"
        <5>1. /\ f = [rows EXCEPT ![<<e[1], e[2] + 1>>] = "WAITING"] /\ f \in Statuses
              /\ <<e[1], e[2] + 1>> \in Events!Id \ Events!Existing(rows)
              /\ e \in Tops(rows)
          BY <1>2, <3>1, <4>1, AfterSets
        <5>2. Events!After(e, change)' = [rows' EXCEPT ![<<e[1], e[2] + 1>>] = "WAITING"]
          <6>1. Events!NextGeneration(e[1]) = e[2] + 1
            BY <1>2, <5>1, NextIsNew
          <6>2. Events!NextGeneration(e[1])' = Events!NextGeneration(e[1])
            BY <1>4 DEF Events!NextGeneration
          <6>3. "retry" \notin Events!DeliveryStatus
            BY DEF Events!DeliveryStatus, Events!Active, Events!Sending, Events!Final
          <6> QED BY <4>1, <6>1, <6>2, <6>3 DEF Events!After
        <5>3. <<e[1], e[2] + 1>> # d
          BY <1>4, <5>1
        <5> HIDE DEF f
        <5>4. f[d] = rows[d]
          BY <1>2, <5>1, <5>3 DEF Statuses
        <5>5. [rows' EXCEPT ![<<e[1], e[2] + 1>>] = "WAITING"] = [f EXCEPT ![d] = x]
          BY <1>1, <1>2, <5>1, <5>3 DEF Statuses
        <5> QED BY <5>1, <5>2, <5>4, <5>5
      <4>2. CASE change # "retry"
        <5>1. PICK y : f = [rows EXCEPT ![e] = y]
                       /\ y = IF change = "cancel" THEN "CANCELED" ELSE change
          BY <1>2, <3>1, <4>2, AfterSets
        <5>2. f \in Statuses
          BY <1>2, <3>1, <4>2, AfterSets
        <5>3. Events!After(e, change)' = [rows' EXCEPT ![e] = y]
          <6>1. change = "cancel" \/ change \in Events!DeliveryStatus
            BY <3>1, <4>2 DEF Changes, Recorded, Events!DeliveryStatus, Events!Active,
               Events!Final
          <6>2. "cancel" \notin Events!DeliveryStatus
            BY DEF Events!DeliveryStatus, Events!Active, Events!Sending, Events!Final
          <6> QED BY <4>2, <5>1, <6>1, <6>2 DEF Events!After
        <5> HIDE DEF f
        <5>4. f[d] = rows[d] /\ [rows' EXCEPT ![e] = y] = [f EXCEPT ![d] = x]
          BY <1>1, <1>2, <3>1, <5>1 DEF Statuses
        <5> QED BY <5>2, <5>3, <5>4
      <4> QED BY <4>1, <4>2
    <3> DEFINE status == session[s].event
    <3> HIDE DEF f, status
    <3>3. Tells(status, f)
      BY <3>1 DEF status
    <3>4. f \in Statuses /\ f[d] = rows[d]
      BY <3>2
    <3>5. Tells(status, [f EXCEPT ![d] = x])
      BY <1>1, <3>3, <3>4, ClaimTells
    <3> QED BY <3>2, <3>5 DEF status
  <2> QED BY <1>2, <2>1, <2>2 DEF SumsTrue
<1> QED BY <1>12, <1>13

\* Whatever deliveries the sum is made of, it is a status of a published event; and
\* where each recipient has a channel of its own, they are the newest by recipient.
LEMMA SumOf ==
  ASSUME NEW f \in Statuses, NEW status \in Events!Aggregates(f)
  PROVE  /\ status \in Published
         /\ OwnChannel => status = Events!Aggregate(TopStatuses(f))
<1>1. PICK pick \in [Events!Channels(f) -> Events!Existing(f)] :
        /\ \A c \in Events!Channels(f) : pick[c] \in Events!Newest(f, c)
        /\ status = Events!Aggregate({f[pick[c]] : c \in Events!Channels(f)})
  BY DEF Events!Aggregates
<1> DEFINE S == {f[pick[c]] : c \in Events!Channels(f)}
<1>2. \A d \in Events!Existing(f) : d \in Events!Id /\ f[d] \in Events!DeliveryStatus \ {"ABSENT"}
  BY DEF Events!Existing, Statuses
<1>3. S \in SUBSET (Events!DeliveryStatus \ {"ABSENT"})
  BY <1>1, <1>2
<1>4. status \in Published
  BY <1>1, <1>3, AggregateKnown
<1>5. ASSUME OwnChannel
      PROVE  S = TopStatuses(f)
  <2>1. ASSUME NEW c \in Events!Channels(f)
        PROVE  pick[c] \in Tops(f) /\ ChannelOf[pick[c][1]] = c
    BY <1>1, <2>1 DEF Events!Newest, Tops
  <2>2. ASSUME NEW d \in Tops(f)
        PROVE  ChannelOf[d[1]] \in Events!Channels(f) /\ pick[ChannelOf[d[1]]] = d
    <3>1. d \in Events!Existing(f) /\ ChannelOf[d[1]] \in Events!Channels(f)
      BY DEF Tops, Events!Channels
    <3> DEFINE e == pick[ChannelOf[d[1]]]
    <3>2. e \in Tops(f) /\ ChannelOf[e[1]] = ChannelOf[d[1]]
      BY <2>1, <3>1
    <3>3. e[1] = d[1]
      BY <1>2, <1>5, <3>1, <3>2, PairParts DEF OwnChannel, Tops
    <3> QED BY <3>1, <3>2, <3>3, OneTop
  <2>3. S \subseteq TopStatuses(f)
    BY <2>1 DEF TopStatuses
  <2>4. TopStatuses(f) \subseteq S
    BY <2>2 DEF TopStatuses
  <2> QED BY <2>3, <2>4
<1> QED BY <1>1, <1>4, <1>5

\* A transaction begins, on a row that nobody has locked, or is rolled back.
LEMMA SessionKeeps ==
  ASSUME DeliveriesInv, NEW s \in Session,
         \/ \E d \in Events!Id : Events!BeginResult(s, d) \/ Events!BeginAdmin(s, d)
         \/ Events!Rollback(s)
  PROVE  DeliveriesInv' /\ (SumsTrue => SumsTrue')
<1>1. EventsTyped /\ Generations(rows) /\ LocksSound /\ Unpublished
      /\ UNCHANGED <<notice, rows>>
  BY DEF DeliveriesInv, Events!BeginResult, Events!BeginAdmin, Events!Rollback
<1> DEFINE Fine(new) ==
             /\ new \in Transaction /\ new.pc # "event"
             /\ new.pc # "idle" =>
                  /\ new.delivery \in Events!Existing(rows)
                  /\ new.change = "WAITING" => rows[new.delivery] = "SENDING"
                  /\ \A t \in Session : Busy(t) => session[t].delivery # new.delivery
<1>2. PICK new : session' = [session EXCEPT ![s] = new] /\ Fine(new)
  <2>2. ASSUME NEW d \in Events!Id, Events!BeginResult(s, d)
        PROVE  \E change \in Recorded :
                 /\ session' = [session EXCEPT ![s] = Events!Open(d, change)]
                 /\ d \in Events!Existing(rows) /\ ~Events!RowLocked(d)
                 /\ change = "WAITING" => rows[d] = "SENDING"
    <3>1. PICK change \in Events!Results(d) : session' = [session EXCEPT ![s] = Events!Open(d, change)]
      BY <2>2 DEF Events!BeginResult
    <3>2. change \in Recorded /\ (change = "WAITING" => rows[d] = "SENDING")
      BY <3>1 DEF Events!Results, Recorded
    <3>3. d \in Events!Existing(rows) /\ ~Events!RowLocked(d)
      BY <2>2 DEF Events!BeginResult, Events!Existing, Events!Sending
    <3> QED BY <3>1, <3>2, <3>3
  <2>3. ASSUME NEW d \in Events!Id, Events!BeginAdmin(s, d)
        PROVE  \E change \in {"retry", "cancel"} :
                 /\ session' = [session EXCEPT ![s] = Events!Open(d, change)]
                 /\ d \in Events!Existing(rows) /\ ~Events!RowLocked(d)
    BY <2>3 DEF Events!BeginAdmin
  <2>4. ASSUME NEW d \in Events!Existing(rows), NEW change \in Changes, ~Events!RowLocked(d),
               change = "WAITING" => rows[d] = "SENDING"
        PROVE  Fine(Events!Open(d, change))
    BY <2>4 DEF Events!Open, Transaction, Events!Existing, Busy, Events!RowLocked
  <2>5. Recorded \subseteq Changes /\ {"retry", "cancel"} \subseteq Changes
    BY DEF Changes
  <2>6. Fine(Events!Idle)
    BY DEF Transaction, Events!Idle
  <2>7. Events!Rollback(s) => session' = [session EXCEPT ![s] = Events!Idle]
    BY DEF Events!Rollback
  <2> HIDE DEF Fine
  <2> QED BY <2>2, <2>3, <2>4, <2>5, <2>6, <2>7
<1>3. session' \in [Session -> Transaction]
      /\ \A t \in Session : session'[t] = IF t = s THEN new ELSE session[t]
  BY <1>1, <1>2 DEF EventsTyped
<1>4. \A t \in Session : Busy(t)' <=> session'[t].pc # "idle"
  BY DEF Busy
<1>5. \A d : (Events!MayRetry(d)' <=> Events!MayRetry(d)) /\ (Events!MayCancel(d)' <=> Events!MayCancel(d))
  BY <1>1 DEF Events!MayRetry, Events!MayCancel, Events!IsCurrent, Events!Newest, Events!Existing
<1>6. LocksSound'
  <2>1. \A t \in Session : Busy(t)' => t = s \/ Busy(t)
    BY <1>3, <1>4 DEF Busy
  <2>2. \A t \in Session : Busy(t)' =>
          /\ session'[t].delivery \in Events!Existing(rows')
          /\ session'[t].change = "WAITING" => rows'[session'[t].delivery] = "SENDING"
    BY <1>1, <1>2, <1>3, <1>4, <2>1 DEF LocksSound
  <2>3. \A t, u \in Session :
          Busy(t)' /\ Busy(u)' /\ session'[t].delivery = session'[u].delivery => t = u
    BY <1>1, <1>2, <1>3, <1>4, <2>1 DEF LocksSound
  <2>4. \A t \in Session : session'[t].pc = "event" => session'[t] = session[t]
    BY <1>2, <1>3
  <2>5. \A t, u \in Session : session'[t].pc = "event" /\ session'[u].pc = "event" => t = u
    BY <1>1, <2>4 DEF LocksSound
  <2>6. \A t \in Session, d \in Events!Id :
          session'[t].pc = "event" /\ session'[t].delivery = d =>
            /\ session'[t].change = "retry" => Events!MayRetry(d)'
            /\ session'[t].change = "cancel" => Events!MayCancel(d)'
    BY <1>1, <1>5, <2>4 DEF LocksSound
  <2> QED BY <2>2, <2>3, <2>5, <2>6 DEF LocksSound
<1>7. DeliveriesInv'
  BY <1>1, <1>3, <1>6 DEF DeliveriesInv, EventsTyped, Unpublished
<1>8. ASSUME SumsTrue
      PROVE  SumsTrue'
  <2>1. \A d, change : Events!After(d, change)' = Events!After(d, change)
    BY <1>1 DEF Events!After, Events!NextGeneration, Events!Existing
  <2>2. \A t \in Session : session'[t].pc = "event" => session'[t] = session[t]
    BY <1>2, <1>3
  <2> QED BY <1>1, <1>8, <2>1, <2>2 DEF SumsTrue
<1> QED BY <1>7, <1>8

\* The event is locked by one session, and the sum is that of what it will leave.
LEMMA LockEventKeeps ==
  ASSUME DeliveriesInv, NEW s \in Session, Events!LockEvent(s)
  PROVE  DeliveriesInv' /\ (OwnChannel /\ SumsTrue => SumsTrue')
<1> DEFINE d == session[s].delivery
           change == session[s].change
           f == Events!After(d, change)
<1>1. CASE session' = [session EXCEPT ![s] = Events!Idle]
  <2>1. Events!Rollback(s)
    BY <1>1 DEF Events!LockEvent, Events!Rollback
  <2> QED BY <2>1, SessionKeeps
<1>2. ASSUME change = "retry" => Events!MayRetry(d),
             change = "cancel" => Events!MayCancel(d),
             NEW status \in Events!Aggregates(f),
             session' = [session EXCEPT ![s] =
               [pc |-> "event", delivery |-> d, change |-> change, event |-> status]]
      PROVE  DeliveriesInv' /\ (OwnChannel /\ SumsTrue => SumsTrue')
  <2>1. EventsTyped /\ Generations(rows) /\ LocksSound /\ Unpublished
        /\ UNCHANGED <<notice, rows>> /\ Events!EventFree /\ session[s].pc = "row"
    BY DEF DeliveriesInv, Events!LockEvent
  <2>2. d \in Events!Existing(rows) /\ d \in Events!Id /\ change \in Changes
    BY <2>1, Transactions DEF Busy
  <2>3. f \in Statuses
    BY <1>2, <2>1, <2>2, AfterSets
  <2> HIDE DEF d, change, f
  <2>4. status \in Published /\ (OwnChannel => Tells(status, f))
    BY <1>2, <2>3, SumOf DEF Tells
  <2> DEFINE new == [pc |-> "event", delivery |-> d, change |-> change, event |-> status]
  <2>5. new \in Transaction
    BY <2>2, <2>4 DEF Transaction
  <2>6. session' \in [Session -> Transaction]
        /\ \A t \in Session : session'[t] = IF t = s THEN new ELSE session[t]
    BY <1>2, <2>1, <2>5 DEF EventsTyped
  <2>7. \A t \in Session : Busy(t)' <=> Busy(t)
    BY <2>1, <2>6 DEF Busy
  <2>8. \A t \in Session : session'[t].pc = "event" => t = s
    BY <2>1, <2>6 DEF Events!EventFree
  <2>9. \A t \in Session : Busy(t) => session'[t].delivery = session[t].delivery
                                      /\ session'[t].change = session[t].change
    BY <2>6 DEF d, change
  <2>10. \A e : (Events!MayRetry(e)' <=> Events!MayRetry(e))
                /\ (Events!MayCancel(e)' <=> Events!MayCancel(e))
    BY <2>1 DEF Events!MayRetry, Events!MayCancel, Events!IsCurrent, Events!Newest, Events!Existing
  <2>11. LocksSound'
    <3>1. \A t \in Session, e \in Events!Id :
            session'[t].pc = "event" /\ session'[t].delivery = e =>
              /\ session'[t].change = "retry" => Events!MayRetry(e)'
              /\ session'[t].change = "cancel" => Events!MayCancel(e)'
      BY <1>2, <2>6, <2>8, <2>10
    <3>2. \A t \in Session : Busy(t)' =>
            /\ session'[t].delivery \in Events!Existing(rows')
            /\ session'[t].change = "WAITING" => rows'[session'[t].delivery] = "SENDING"
      BY <2>1, <2>7, <2>9 DEF LocksSound
    <3>3. \A t, u \in Session :
            Busy(t)' /\ Busy(u)' /\ session'[t].delivery = session'[u].delivery => t = u
      BY <2>1, <2>7, <2>9 DEF LocksSound
    <3> QED BY <2>8, <3>1, <3>2, <3>3 DEF LocksSound
  <2>12. DeliveriesInv'
    BY <2>1, <2>6, <2>11 DEF DeliveriesInv, EventsTyped, Unpublished
  <2>13. ASSUME OwnChannel, SumsTrue
         PROVE  SumsTrue'
    <3>1. \A e, c : Events!After(e, c)' = Events!After(e, c)
      BY <2>1 DEF Events!After, Events!NextGeneration, Events!Existing
    <3>2. \A t \in Session : session'[t].pc = "event" =>
            session'[t].event = status /\ session'[t].delivery = d /\ session'[t].change = change
      BY <2>6, <2>8
    <3>3. \A t \in Session, e \in Events!Id, c \in Changes :
            session'[t].pc = "event" /\ session'[t].delivery = e /\ session'[t].change = c =>
              Tells(session'[t].event, Events!After(e, c)')
      BY <2>4, <2>13, <3>1, <3>2 DEF f
    <3> QED BY <2>1, <2>13, <3>3 DEF SumsTrue
  <2> QED BY <2>12, <2>13
<1> QED BY <1>1, <1>2 DEF Events!LockEvent

\* The sum and the deliveries it was made of are written together.
LEMMA CommitKeeps ==
  ASSUME DeliveriesInv, NEW s \in Session, Events!Commit(s)
  PROVE  DeliveriesInv' /\ (SumsTrue => SumsTrue')
<1> DEFINE d == session[s].delivery
           change == session[s].change
<1>1. EventsTyped /\ Generations(rows) /\ LocksSound /\ session[s].pc = "event"
      /\ rows' = Events!After(d, change) /\ notice' = session[s].event
      /\ session' = [session EXCEPT ![s] = Events!Idle]
  BY DEF DeliveriesInv, Events!Commit
<1>2. d \in Events!Existing(rows) /\ d \in Events!Id /\ change \in Changes
      /\ session[s].event \in Published /\ Busy(s)
  BY <1>1, Transactions
<1>3. /\ change = "retry" => Events!MayRetry(d)
      /\ change = "WAITING" => rows[d] = "SENDING"
  BY <1>1, <1>2 DEF LocksSound
<1>4. session' \in [Session -> Transaction]
      /\ \A t \in Session : session'[t] = IF t = s THEN Events!Idle ELSE session[t]
  BY <1>1 DEF EventsTyped, Transaction
<1>5. \A t \in Session : Busy(t)' => Busy(t) /\ t # s /\ session'[t] = session[t]
  BY <1>4 DEF Busy, Events!Idle
<1>6. \A t \in Session : session'[t].pc # "event"
  BY <1>1, <1>4 DEF LocksSound, Events!Idle
<1>7. \A t \in Session : Busy(t)' =>
        session[t].delivery # d /\ session[t].delivery \in Events!Existing(rows)
  BY <1>1, <1>2, <1>5 DEF LocksSound
<1> HIDE DEF d, change
<1>8. rows' \in Statuses /\ Events!Existing(rows) \subseteq Events!Existing(rows')
  BY <1>1, <1>2, <1>3, AfterSets
<1>9. Generations(rows')
  BY <1>1, <1>2, <1>3, ChangeKeepsGenerations
<1>10. \A e \in Events!Existing(rows) : e # d => rows'[e] = rows[e]
  <2>1. rows \in Statuses /\ \A e \in Events!Existing(rows) : e \in Events!Id
    BY <1>1 DEF EventsTyped, Events!Existing
  <2>2. PICK n \in Events!Id :
          /\ n = d \/ n \notin Events!Existing(rows)
          /\ \E x : rows' = [rows EXCEPT ![n] = x]
    <3>1. CASE change = "retry"
      <4> DEFINE n == <<d[1], d[2] + 1>>
      <4>1. n \in Events!Id \ Events!Existing(rows) /\ rows' = [rows EXCEPT ![n] = "WAITING"]
        BY <1>1, <1>2, <1>3, <3>1, AfterSets
      <4> HIDE DEF n
      <4> QED BY <4>1
    <3>2. CASE change # "retry"
      <4>1. PICK x : rows' = [rows EXCEPT ![d] = x]
        BY <1>1, <1>2, <1>3, <3>2, AfterSets
      <4> QED BY <1>2, <4>1
    <3> QED BY <3>1, <3>2
  <2> QED BY <2>1, <2>2 DEF Statuses
<1>11. LocksSound'
  <2>1. \A t \in Session : Busy(t)' =>
          /\ session'[t].delivery \in Events!Existing(rows')
          /\ session'[t].change = "WAITING" => rows'[session'[t].delivery] = "SENDING"
    BY <1>1, <1>5, <1>7, <1>8, <1>10 DEF LocksSound
  <2>2. \A t, u \in Session :
          Busy(t)' /\ Busy(u)' /\ session'[t].delivery = session'[u].delivery => t = u
    BY <1>1, <1>5 DEF LocksSound
  <2> QED BY <1>6, <2>1, <2>2 DEF LocksSound
<1>12. DeliveriesInv'
  BY <1>1, <1>2, <1>4, <1>8, <1>9, <1>11 DEF DeliveriesInv, EventsTyped, Unpublished, Published
<1>13. ASSUME SumsTrue
       PROVE  SumsTrue'
  <2>1. Tells(session[s].event, Events!After(d, change))
    BY <1>1, <1>2, <1>13 DEF SumsTrue, d, change
  <2>2. Tells(notice', rows')
    BY <1>1, <2>1
  <2> QED BY <1>6, <2>2 DEF SumsTrue
<1> QED BY <1>12, <1>13

\* A step of the deliveries, or none.
LEMMA EventsStep ==
  ASSUME DeliveriesInv, Events!Next \/ UNCHANGED Events!vars
  PROVE  DeliveriesInv' /\ (OwnChannel /\ SumsTrue => SumsTrue')
<1>1. CASE Events!Publish
  BY <1>1, PublishKeeps
<1>2. CASE \E d \in Events!Id : Events!Claim(d)
  BY <1>2, ClaimKeeps
<1>3. CASE \E s \in Session, d \in Events!Id : Events!BeginResult(s, d) \/ Events!BeginAdmin(s, d)
  BY <1>3, SessionKeeps
<1>4. CASE \E s \in Session : Events!LockEvent(s) \/ Events!Commit(s) \/ Events!Rollback(s)
  BY <1>4, LockEventKeeps, CommitKeeps, SessionKeeps
<1>5. CASE UNCHANGED Events!vars
  <2>1. UNCHANGED <<notice, rows, session>>
    BY <1>5 DEF Events!vars
  <2>2. DeliveriesInv'
    <3>1. \A d : (Events!MayRetry(d)' <=> Events!MayRetry(d)) /\ (Events!MayCancel(d)' <=> Events!MayCancel(d))
      BY <2>1 DEF Events!MayRetry, Events!MayCancel, Events!IsCurrent, Events!Newest, Events!Existing
    <3> QED BY <2>1, <3>1 DEF DeliveriesInv, EventsTyped, LocksSound, Unpublished, Busy
  <2>3. SumsTrue => SumsTrue'
    <3>1. \A d, change : Events!After(d, change)' = Events!After(d, change)
      BY <2>1 DEF Events!After, Events!NextGeneration, Events!Existing
    <3> QED BY <2>1, <3>1 DEF SumsTrue
  <2> QED BY <2>2, <2>3
<1> QED BY <1>1, <1>2, <1>3, <1>4, <1>5 DEF Events!Next

\* At most one generation of a recipient waits or is sent for the first time.
LEMMA OneWaits ==
  ASSUME EventsTyped, Generations(rows)
  PROVE  Events!OneUnderWay
<1> SUFFICES ASSUME NEW r \in Recipient
             PROVE  Cardinality({g \in Events!Generation :
                                   rows[<<r, g>>] \in {"WAITING", "SENDING"}}) <= 1
  BY DEF Events!OneUnderWay, Events!Cardinality, Cardinality
<1> DEFINE S == {g \in Events!Generation : rows[<<r, g>>] \in {"WAITING", "SENDING"}}
<1>1. ASSUME NEW g \in S, NEW h \in S
      PROVE  g = h
  <2>1. /\ <<r, g>> \in Events!Id /\ <<r, h>> \in Events!Id
        /\ rows[<<r, g>>] \in {"WAITING", "SENDING"} /\ rows[<<r, h>>] \in {"WAITING", "SENDING"}
    BY <1>1, PairParts DEF Events!Generation
  <2>2. <<r, g>> \in Tops(rows) /\ <<r, h>> \in Tops(rows)
    BY <2>1 DEF Generations, Events!Existing
  <2>3. <<r, g>>[1] = r /\ <<r, h>>[1] = r /\ <<r, g>>[2] = g /\ <<r, h>>[2] = h
    OBVIOUS
  <2>4. <<r, g>> = <<r, h>>
    BY <2>2, <2>3, OneTop DEF EventsTyped
  <2> QED BY <2>3, <2>4
<1> HIDE DEF S
<1>2. CASE S = {}
  <2>1. Cardinality(S) = 0
    BY <1>2, FS_EmptySet
  <2> QED BY <2>1 DEF S
<1>3. CASE S # {}
  <2>1. PICK g : S = {g}
    BY <1>1, <1>3
  <2>2. Cardinality(S) = 1
    BY <2>1, FS_Singleton
  <2> QED BY <2>2 DEF S
<1> QED BY <1>2, <1>3

\* What the sum of the newest deliveries says, when none of them is being sent.
LEMMA SumTells ==
  ASSUME NEW S \in SUBSET (Events!DeliveryStatus \ {"ABSENT"}), S \cap Events!Sending = {},
         NEW status, status = Events!Aggregate(S)
  PROVE  /\ status = "DELIVERED" <=> S = {"SENT"}
         /\ status = "PARTIAL" <=> "SENT" \in S /\ S # {"SENT"} /\ "WAITING" \notin S
         /\ status = "CANCELED" <=> S = {"CANCELED"}
         /\ status = "FAILED" => "SENT" \notin S /\ S \cap Events!Unknown = {}
         /\ "WAITING" \in S => status = "DISPATCHED"
         /\ status = "SUPPRESSED" <=> S \subseteq {"SKIPPED"}
BY DEF Events!Aggregate, Events!DeliveryStatus, Events!Active, Events!Sending, Events!Final,
       Events!Unknown

LEMMA NewestsAreTops ==
  ASSUME EventsTyped
  PROVE  Events!Newests = TopStatuses(rows)
<1>1. \A d \in Events!Existing(rows) : d[1] \in Recipient
  BY PairParts DEF Events!Existing
<1>2. ASSUME NEW r \in Recipient
      PROVE  Events!NewestOf(r) = {rows[d] : d \in {e \in Tops(rows) : e[1] = r}}
  BY DEF Events!NewestOf, Tops
<1>3. \A d \in Tops(rows) : d[1] \in Recipient
  BY <1>1 DEF Tops
<1> QED BY <1>2, <1>3 DEF Events!Newests, TopStatuses

THEOREM EventsInvariant == Events!Spec => []DeliveriesInv
<1>1. DeliveriesInv /\ [Events!Next]_(Events!vars) => DeliveriesInv'
  BY EventsStep
<1>2. Events!Init => DeliveriesInv
  BY EventsStart
<1> QED BY <1>1, <1>2, PTL DEF Events!Spec

\* A message to a recipient is under way in one generation only, but for the
\* compensation of an unknown outcome, whatever retries, cancellations and results
\* race each other and whichever channels the recipients share.
THEOREM OneMessage == Events!Spec => []Events!OneUnderWay
<1>1. DeliveriesInv => Events!OneUnderWay
  BY OneWaits DEF DeliveriesInv
<1> QED BY <1>1, EventsInvariant, PTL

\* Where each recipient has a channel of its own, the status of an event tells where
\* its deliveries are: transactions of different deliveries do not overwrite each
\* other's sum with a stale one.  (With a shared channel it does not: the sum takes
\* one delivery by channel.)
THEOREM EventsTold == OwnChannel => (Events!Spec => []EventsSound)
<1> SUFFICES ASSUME OwnChannel PROVE Events!Spec => []EventsSound
  OBVIOUS
<1>1. DeliveriesInv /\ SumsTrue /\ [Events!Next]_(Events!vars) => DeliveriesInv' /\ SumsTrue'
  BY EventsStep
<1>2. Events!Init => DeliveriesInv /\ SumsTrue
  BY EventsStart
<1>3. DeliveriesInv /\ SumsTrue => EventsSound
  <2> SUFFICES ASSUME DeliveriesInv, SumsTrue PROVE EventsSound
    OBVIOUS
  <2>1. Events!OneUnderWay
    BY OneWaits DEF DeliveriesInv
  <2>2. ASSUME notice # "ABSENT", Events!Newests \cap Events!Sending = {}
        PROVE  /\ notice = Events!Aggregate(Events!Newests)
               /\ Events!Newests \in SUBSET (Events!DeliveryStatus \ {"ABSENT"})
    <3>1. Events!Newests = TopStatuses(rows)
      BY NewestsAreTops DEF DeliveriesInv
    <3>2. "COMPENSATING" \notin TopStatuses(rows)
      BY <2>2, <3>1 DEF Events!Sending
    <3>3. notice = Events!Aggregate(Events!Newests)
      BY <2>2, <3>1, <3>2 DEF SumsTrue, Tells
    <3>4. \A d \in Tops(rows) : rows[d] \in Events!DeliveryStatus \ {"ABSENT"}
      BY DEF DeliveriesInv, EventsTyped, Tops, Events!Existing, Statuses
    <3> QED BY <3>1, <3>3, <3>4 DEF TopStatuses
  <2>3. Events!EventTellsTruth
    BY <2>2, SumTells DEF Events!EventTellsTruth
  <2> QED BY <2>1, <2>3 DEF EventsSound, Events!EventsSound
<1> QED BY <1>1, <1>2, <1>3, PTL DEF Events!Spec

=============================================================================
