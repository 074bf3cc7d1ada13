---------------------------- MODULE TargetsProofs ----------------------------
(***************************************************************************)
(* Theorems about the targets of a subscription (Targets), for any numbers *)
(* of calculations, attempts, reviews and revisions: a calculated target   *)
(* replaces only what it was calculated against, a binding that says it is *)
(* being calculated is, and the whole implements the promise that signals  *)
(* rely on (TargetInForce).                                                *)
(*                                                                         *)
(* The inductive invariant says what the locks protect: while an execution *)
(* holds the subscription's row its calculation is current, and a review   *)
(* that is being decided is pending.  That a version tells one target from *)
(* another needs a bound on versions: each is accounted for by a reserved  *)
(* calculation or by a revision, the revision of a pending review counting *)
(* once it is approved.                                                    *)
(***************************************************************************)
EXTENDS Targets, SequenceTheorems, TLAPS

(***************************************************************************)
(* The inductive invariant.                                                *)
(***************************************************************************)
Subscription == [status : {"CONFIGURING", "ENABLED", "PAUSED", "ARCHIVED"},
                 version : Nat, config : Config \cup {Manual}]
Binding == [status : {"MISSING", "CALCULATING", "READY", "STALE", "FAILED",
                      "REVIEW_REQUIRED"},
            version : Nat, current : Nat]
RunRow == [status : Live \cup {"SUCCEEDED", "FAILED", "NOT_MATCHED"},
         subscription : Nat, config : Config \cup {Manual}, binding : Nat,
         base : Nat, data : Nat,
         review : {"NONE", "PENDING", "SUPERSEDED", "APPROVED", "REJECTED"}]
Progress == [pc : {"none", "unmatched", "failing", "locked", "crashed", "done"}]
            \cup [pc : {"trained", "matched"}, data : Nat]
Request == [pc : {"idle", "done"}]
           \cup [pc : {"read", "review"}, calculation : Nat, data : Nat, binding : Nat]

TargetsTyped ==
  /\ subscription \in Subscription
  /\ binding \in Binding
  /\ revisions \in Seq(Nat) /\ Len(revisions) <= MaxRevisions
  /\ calculation \in Seq(RunRow) /\ Len(calculation) <= MaxCalculations
  /\ execution \in [Calculation -> [Attempt -> Progress]]
  /\ decision \in [Admin -> Request]
  /\ data \in Nat
  /\ binding.version >= 1 /\ binding.current <= Len(revisions)

\* A calculation whose version is the binding's was reserved for the revision
\* that is current.
BasesKnown ==
  \A k \in DOMAIN calculation :
    /\ calculation[k].binding <= binding.version
    /\ calculation[k].binding = binding.version => calculation[k].base = binding.current

Locked(k, a) == execution[k][a].pc = "locked"

\* One execution holds the subscription's row, and under it nothing has changed
\* since the calculation was reserved.
LocksProtect ==
  /\ \A j, k \in Calculation : \A a, b \in Attempt :
       Locked(j, a) /\ Locked(k, b) => j = k /\ a = b
  /\ \A k \in Calculation : \A a \in Attempt :
       Locked(k, a) => /\ k <= Len(calculation)
                       /\ subscription.config = calculation[k].config
                       /\ binding.version = calculation[k].binding

Pending(k) == k \in DOMAIN calculation /\ calculation[k].review = "PENDING"

\* One review is pending, of a revision that could replace another.
ReviewsSound ==
  /\ \A j, k \in Nat : Pending(j) /\ Pending(k) => j = k
  /\ \A k \in Nat :
       Pending(k) => /\ binding.current # 0
                     /\ \E r \in 1 .. Len(revisions) : revisions[r] = k

\* A review that is being decided is pending, and decided once.
DecisionsSound ==
  /\ \A d \in Admin :
       /\ decision[d].pc \in {"read", "review"} =>
            decision[d].calculation \in DOMAIN calculation
       /\ decision[d].pc = "review" => Pending(decision[d].calculation)
  /\ \A d, e \in Admin :
       decision[d].pc = "review" /\ decision[e].pc = "review"
         /\ decision[d].calculation = decision[e].calculation => d = e

\* Every version is accounted for.
VersionsCounted ==
  /\ binding.version - 1 <= Len(revisions) + Len(calculation)
  /\ (\E k \in Nat : Pending(k)) => binding.version <= Len(revisions) + Len(calculation)

\* The second half of NoOrphan.
BeingCalculated ==
  binding.status = "CALCULATING" =>
    \E k \in DOMAIN calculation :
      calculation[k].status \in Live /\ calculation[k].binding = binding.version

TargetsInv ==
  /\ TargetsTyped
  /\ BasesKnown
  /\ LocksProtect
  /\ ReviewsSound
  /\ DecisionsSound
  /\ VersionsCounted
  /\ BeingCalculated

(***************************************************************************)
(* What the steps share.                                                   *)
(***************************************************************************)
LEMMA RowTyped ==
  ASSUME TargetsTyped
  PROVE  /\ DOMAIN calculation = 1 .. Len(calculation) /\ Len(calculation) \in Nat
         /\ \A k \in DOMAIN calculation :
              /\ calculation[k] \in RunRow /\ k \in Nat
              /\ calculation[k].binding \in Nat /\ calculation[k].base \in Nat
<1>1. DOMAIN calculation = 1 .. Len(calculation) /\ Len(calculation) \in Nat
  BY LenProperties DEF TargetsTyped
<1>2. \A k \in 1 .. Len(calculation) : calculation[k] \in RunRow
  BY ElementOfSeq DEF TargetsTyped
<1> QED BY <1>1, <1>2 DEF RunRow

\* configure, and the other changes of the subscription's row.
LEMMA SwitchedTyped ==
  ASSUME TargetsTyped, NEW config \in Config \cup {Manual}
  PROVE  Switched(config) \in Subscription
<1> DEFINE next == subscription.version + 1
<1>1. subscription \in Subscription /\ next \in Nat
  BY DEF TargetsTyped, Subscription
<1>2. Switched(config) = [subscription EXCEPT !.config = config, !.version = next]
  BY DEF Switched
<1> HIDE DEF next
<1> QED BY <1>1, <1>2 DEF Subscription

\* A step of one execution.
LEMMA StepOf ==
  ASSUME TargetsTyped, NEW k \in Calculation, NEW a \in Attempt, NEW step \in Progress,
         Step(k, a, step)
  PROVE  /\ execution' \in [Calculation -> [Attempt -> Progress]]
         /\ \A j \in Calculation : \A b \in Attempt :
              execution'[j][b] = IF j = k /\ b = a THEN step ELSE execution[j][b]
BY DEF TargetsTyped, Step

\* A step that leaves the numbers of the binding, the reviews and what was frozen
\* of the calculations alone.
LEMMA QuietStep ==
  ASSUME TargetsInv, TargetsTyped', LocksProtect', BeingCalculated',
         UNCHANGED <<revisions, decision>>,
         binding'.version = binding.version, binding'.current = binding.current,
         DOMAIN calculation' = DOMAIN calculation,
         \A k \in DOMAIN calculation :
           /\ calculation'[k].binding = calculation[k].binding
           /\ calculation'[k].base = calculation[k].base
           /\ calculation'[k].review = calculation[k].review
  PROVE  TargetsInv'
<1>1. \A k \in Nat : Pending(k)' <=> Pending(k)
  BY DEF Pending
<1>2. Len(calculation') = Len(calculation)
  BY LenProperties DEF TargetsInv, TargetsTyped
<1>3. BasesKnown'
  BY DEF TargetsInv, BasesKnown
<1>4. ReviewsSound'
  BY <1>1 DEF TargetsInv, ReviewsSound
<1>5. DecisionsSound'
  <2>1. \A d \in Admin : decision[d].pc = "review" => Pending(decision[d].calculation)'
    BY DEF TargetsInv, DecisionsSound, Pending
  <2> QED BY <2>1 DEF TargetsInv, DecisionsSound, Pending
<1>6. VersionsCounted'
  BY <1>1, <1>2 DEF TargetsInv, VersionsCounted
<1> QED BY <1>3, <1>4, <1>5, <1>6 DEF TargetsInv

\* With the row of the subscription free nothing is locked, and the locks of a
\* step that takes none protect.
LEMMA FreeStep ==
  ASSUME TargetsTyped, Free, UNCHANGED execution
  PROVE  LocksProtect'
BY DEF Free, LocksProtect, Locked

\* The same while other executions end: a step to `step`, which is not locked,
\* when the row is free.
LEMMA FreeStepOf ==
  ASSUME TargetsTyped, Free, NEW k \in Calculation, NEW a \in Attempt,
         NEW step \in Progress, step.pc # "locked", Step(k, a, step)
  PROVE  LocksProtect'
<1>1. \A j \in Calculation : \A b \in Attempt : ~Locked(j, b)'
  BY StepOf DEF Free, Locked
<1> QED BY <1>1 DEF LocksProtect

\* A step of one execution alone, which takes no lock.
LEMMA ExecutionStep ==
  ASSUME TargetsInv, NEW k \in Calculation, NEW a \in Attempt,
         NEW step \in Progress, step.pc # "locked", Step(k, a, step),
         UNCHANGED <<subscription, binding, revisions, calculation, decision, data>>
  PROVE  TargetsInv'
<1>1. TargetsTyped
  BY DEF TargetsInv
<1>2. TargetsTyped'
  BY <1>1, StepOf DEF TargetsTyped
<1>3. LocksProtect'
  <2>1. \A j \in Calculation : \A b \in Attempt : Locked(j, b)' => Locked(j, b)
    BY <1>1, StepOf DEF Locked
  <2> QED BY <2>1 DEF TargetsInv, LocksProtect
<1>4. BeingCalculated'
  BY DEF TargetsInv, BeingCalculated
<1> QED BY <1>2, <1>3, <1>4, QuietStep

LEMMA TargetsInit ==
  ASSUME Init
  PROVE  TargetsInv
<1>1. PICK config \in Config \cup {Manual} :
        subscription = [status |-> "CONFIGURING", version |-> 1, config |-> config]
  BY DEF Init
<1>2. revisions = <<>> /\ calculation = <<>> /\ Len(revisions) = 0
      /\ Len(calculation) = 0 /\ DOMAIN calculation = {}
  BY DEF Init
<1>3. TargetsTyped
  BY <1>1, <1>2, TargetsAssumption
  DEF Init, TargetsTyped, Subscription, Binding, Progress, Request
<1>4. BasesKnown /\ ReviewsSound /\ VersionsCounted
  BY <1>2 DEF Init, BasesKnown, ReviewsSound, Pending, VersionsCounted
<1>5. LocksProtect /\ DecisionsSound /\ BeingCalculated
  BY DEF Init, LocksProtect, Locked, DecisionsSound, BeingCalculated
<1> QED BY <1>3, <1>4, <1>5 DEF TargetsInv

(***************************************************************************)
(* Every action keeps the invariant.                                       *)
(***************************************************************************)
LEMMA SubscriptionKeeps ==
  ASSUME TargetsInv,
         Transition \/ \E config \in Config \cup {Manual} : Configure(config)
  PROVE  TargetsInv'
<1>1. TargetsTyped
  BY DEF TargetsInv
<1>2. UNCHANGED <<binding, revisions, calculation, execution, decision, data>> /\ Free
  BY DEF Transition, Configure
<1>3. subscription' \in Subscription
  <2>1. ASSUME NEW config \in Config \cup {Manual}, Configure(config)
        PROVE  subscription' \in Subscription
    BY <1>1, <2>1, SwitchedTyped DEF Configure
  <2>2. CASE Transition
    <3> DEFINE next == subscription.version + 1
    <3>1. PICK status \in {"CONFIGURING", "ENABLED", "PAUSED", "ARCHIVED"} :
            subscription' = [subscription EXCEPT !.status = status, !.version = next]
      <4>1. PICK change \in
              {<<"CONFIGURING", "ENABLED">>, <<"PAUSED", "ENABLED">>,
               <<"CONFIGURING", "PAUSED">>, <<"ENABLED", "PAUSED">>,
               <<"PAUSED", "ARCHIVED">>, <<"ARCHIVED", "PAUSED">>} :
              subscription' = [subscription EXCEPT !.status = change[2], !.version = next]
        BY <2>2 DEF Transition
      <4>2. change[2] \in {"ENABLED", "PAUSED", "ARCHIVED"}
        OBVIOUS
      <4> QED BY <4>1, <4>2
    <3>2. subscription \in Subscription /\ next \in Nat
      BY <1>1 DEF TargetsTyped, Subscription
    <3> HIDE DEF next
    <3> QED BY <3>1, <3>2 DEF Subscription
  <2> QED BY <2>1, <2>2
<1>4. TargetsTyped'
  BY <1>1, <1>2, <1>3 DEF TargetsTyped
<1>5. LocksProtect'
  BY <1>1, <1>2, FreeStep
<1>6. BeingCalculated'
  BY <1>2 DEF TargetsInv, BeingCalculated
<1> QED BY <1>2, <1>4, <1>5, <1>6, QuietStep

LEMMA ByHandKeeps ==
  ASSUME TargetsInv, SetByHand
  PROVE  TargetsInv'
<1> DEFINE n == Len(revisions)
<1>1. TargetsTyped
  BY DEF TargetsInv
<1>2. /\ n \in Nat /\ n < MaxRevisions /\ Len(revisions') = n + 1
      /\ revisions' \in Seq(Nat)
      /\ \A r \in 1 .. n : revisions'[r] = revisions[r]
  BY <1>1, AppendProperties, LenProperties DEF SetByHand, TargetsTyped
<1>3. /\ binding' = [status |-> "READY", version |-> binding.version + 1,
                     current |-> n + 1]
      /\ UNCHANGED <<calculation, execution, decision, data>> /\ Free
  BY DEF SetByHand, InForce
<1>4. subscription' \in Subscription
  BY <1>1, SwitchedTyped DEF SetByHand, TargetsTyped, Manual
<1>5. binding.version \in Nat /\ binding.version >= 1 /\ MaxRevisions \in Nat
  BY <1>1, TargetsAssumption DEF TargetsTyped, Binding
<1> HIDE DEF n
<1>6. TargetsTyped'
  BY <1>1, <1>2, <1>3, <1>4, <1>5 DEF TargetsTyped, Binding
<1>7. BasesKnown'
  <2>1. \A k \in DOMAIN calculation : calculation[k].binding \in Nat
    BY <1>1, RowTyped
  <2> QED BY <1>3, <1>5, <2>1 DEF TargetsInv, BasesKnown
<1>8. LocksProtect'
  BY <1>1, <1>3, FreeStep
<1>9. \A k : Pending(k)' <=> Pending(k)
  BY <1>3 DEF Pending
<1>10. ReviewsSound'
  BY <1>2, <1>3, <1>9 DEF TargetsInv, ReviewsSound, n
<1>11. DecisionsSound'
  BY <1>3, <1>9 DEF TargetsInv, DecisionsSound, Pending
<1>12. VersionsCounted'
  <2>1. Len(calculation) \in Nat
    BY <1>1, LenProperties DEF TargetsTyped
  <2> QED BY <1>2, <1>3, <1>5, <1>9, <2>1 DEF TargetsInv, VersionsCounted, n
<1>13. BeingCalculated'
  BY <1>3 DEF BeingCalculated
<1> QED BY <1>6, <1>7, <1>8, <1>10, <1>11, <1>12, <1>13 DEF TargetsInv

\* Reserving a calculation, whatever the rest of the transaction does to the
\* subscription and to the request that asks for it.
LEMMA ReserveKeeps ==
  ASSUME TargetsInv, Free, NEW owner \in Subscription, Reserve(owner),
         subscription' \in Subscription, UNCHANGED <<revisions, execution, data>>,
         \/ UNCHANGED decision
         \/ \E d \in Admin : decision' = [decision EXCEPT ![d] = Done]
  PROVE  TargetsInv'
<1> DEFINE n == Len(calculation)
           new == Reserved(owner)
           v == binding.version + 1
<1>1. TargetsTyped
  BY DEF TargetsInv
<1>2. /\ new \in RunRow /\ new.binding = v /\ new.base = binding.current
      /\ new.review = "NONE" /\ new.status \in Live
  BY <1>1 DEF Reserved, RunRow, TargetsTyped, Binding, Subscription, Live
<1>3. /\ calculation' = Append(calculation, new) /\ n < MaxCalculations
      /\ binding' = [binding EXCEPT !.status = "CALCULATING", !.version = v]
  BY DEF Reserve
<1> HIDE DEF new
<1>4. /\ n \in Nat /\ Len(calculation') = n + 1 /\ calculation' \in Seq(RunRow)
      /\ DOMAIN calculation = 1 .. n /\ DOMAIN calculation' = 1 .. n + 1
      /\ calculation'[n + 1] = new
      /\ \A k \in 1 .. n : calculation'[k] = calculation[k]
  BY <1>1, <1>2, <1>3, AppendProperties, LenProperties DEF TargetsTyped
<1>5. binding.version \in Nat /\ binding.version >= 1 /\ MaxCalculations \in Nat
  BY <1>1, TargetsAssumption DEF TargetsTyped, Binding
<1> HIDE DEF n
<1>6. /\ binding' \in Binding /\ binding'.version = v
      /\ binding'.current = binding.current /\ binding'.status = "CALCULATING"
  <2>1. v \in Nat /\ binding \in Binding
    BY <1>1, <1>5 DEF TargetsTyped
  <2> HIDE DEF v
  <2> QED BY <1>3, <2>1 DEF Binding
<1>7. /\ decision' \in [Admin -> Request]
      /\ \A d \in Admin : decision'[d] = decision[d] \/ decision'[d] = Done
  BY <1>1 DEF TargetsTyped, Request, Done
<1>8. TargetsTyped'
  BY <1>1, <1>3, <1>4, <1>5, <1>6, <1>7 DEF TargetsTyped
<1>9. BasesKnown'
  <2>1. SUFFICES ASSUME NEW k \in 1 .. n + 1
                 PROVE  /\ calculation'[k].binding <= v
                        /\ calculation'[k].binding = v
                             => calculation'[k].base = binding.current
    BY <1>4, <1>6 DEF BasesKnown
  <2>2. CASE k = n + 1
    BY <1>2, <1>4, <1>5, <2>2
  <2>3. CASE k \in 1 .. n
    <3>1. calculation[k].binding \in Nat /\ calculation[k].binding <= binding.version
      BY <1>1, <1>4, <2>3, RowTyped DEF TargetsInv, BasesKnown
    <3> QED BY <3>1, <1>4, <1>5, <2>3
  <2> QED BY <2>2, <2>3, <1>4
<1>10. LocksProtect'
  BY <1>1, FreeStep
<1>11. \A k \in Nat : Pending(k)' <=> Pending(k)
  BY <1>2, <1>4 DEF Pending
<1>12. ReviewsSound'
  BY <1>6, <1>11 DEF TargetsInv, ReviewsSound
<1>13. DecisionsSound'
  <2>1. \A d \in Admin : decision'[d].pc \in {"read", "review"} => decision'[d] = decision[d]
    BY <1>7 DEF Done
  <2>2. \A k \in DOMAIN calculation : k \in DOMAIN calculation' /\ k \in Nat
    BY <1>4
  <2> QED BY <1>11, <2>1, <2>2 DEF TargetsInv, DecisionsSound
<1>14. VersionsCounted'
  <2>1. Len(revisions) \in Nat
    BY <1>1, LenProperties DEF TargetsTyped
  <2> QED BY <1>4, <1>5, <1>6, <1>11, <2>1 DEF TargetsInv, VersionsCounted, n
<1>15. BeingCalculated'
  BY <1>2, <1>4, <1>6 DEF BeingCalculated
<1> QED BY <1>8, <1>9, <1>10, <1>12, <1>13, <1>14, <1>15 DEF TargetsInv

\* An execution goes on without a lock and leaves the rest alone.
LEMMA ExecutionKeeps ==
  ASSUME TargetsInv, NEW k \in Calculation, NEW a \in Attempt,
         Start(k, a) \/ CompleteAborted(k, a) \/ Crash(k, a)
  PROVE  TargetsInv'
<1>1. UNCHANGED <<subscription, binding, revisions, calculation, decision, data>>
  BY DEF Start, CompleteAborted, Crash
<1>2. \E step \in Progress : step.pc # "locked" /\ Step(k, a, step)
  <2>1. data \in Nat
    BY DEF TargetsInv, TargetsTyped
  <2>2. CASE Start(k, a)
    <3>1. /\ [pc |-> "trained", data |-> data] \in Progress
          /\ Failing \in Progress /\ Failing.pc # "locked"
          /\ [pc |-> "trained", data |-> data].pc # "locked"
      BY <2>1 DEF Progress, Failing
    <3> QED BY <2>2, <3>1 DEF Start
  <2>3. CASE CompleteAborted(k, a)
    BY <2>3 DEF CompleteAborted, Progress, Failing
  <2>4. CASE Crash(k, a)
    <3>1. [pc |-> "crashed"] \in Progress /\ [pc |-> "crashed"].pc # "locked"
      BY DEF Progress
    <3> QED BY <2>4, <3>1 DEF Crash
  <2> QED BY <2>2, <2>3, <2>4
<1> QED BY <1>1, <1>2, ExecutionStep

\* The status of a calculation changes, and what its data were.
LEMMA RowStep ==
  ASSUME TargetsTyped, NEW k \in DOMAIN calculation, NEW row \in RunRow,
         calculation' = [calculation EXCEPT ![k] = row]
  PROVE  /\ calculation' \in Seq(RunRow) /\ Len(calculation') = Len(calculation)
         /\ DOMAIN calculation' = DOMAIN calculation
         /\ \A j \in DOMAIN calculation :
              calculation'[j] = IF j = k THEN row ELSE calculation[j]
BY RowTyped, ExceptSeq, LenProperties DEF TargetsTyped

LEMMA RunKeeps ==
  ASSUME TargetsInv, NEW k \in Calculation, NEW a \in Attempt, Run(k, a)
  PROVE  TargetsInv'
<1>1. TargetsTyped
  BY DEF TargetsInv
<1>2. k \in DOMAIN calculation /\ calculation[k] \in RunRow /\ execution[k][a] \in Progress
      /\ execution[k][a].pc = "trained"
  BY <1>1, RowTyped DEF Run, At, TargetsTyped, Calculation
<1>3. execution[k][a].data \in Nat
  BY <1>2 DEF Progress
<1>4. PICK step \in Progress : step.pc # "locked" /\ Step(k, a, step)
  <2>1. [pc |-> "matched", data |-> data] \in Progress
    BY <1>1 DEF Progress, TargetsTyped
  <2>2. [pc |-> "unmatched"] \in Progress /\ Failing \in Progress
    BY DEF Progress, Failing
  <2>3. /\ [pc |-> "matched", data |-> data].pc # "locked"
        /\ [pc |-> "unmatched"].pc # "locked" /\ Failing.pc # "locked"
    BY DEF Failing
  <2> QED BY <2>1, <2>2, <2>3 DEF Run
<1>5. UNCHANGED <<subscription, binding, revisions, decision, data>>
  BY DEF Run
<1> DEFINE seen == execution[k][a].data
           row == IF calculation[k].status = "PENDING"
                  THEN [calculation[k] EXCEPT !.status = "RUNNING", !.data = seen]
                  ELSE calculation[k]
<1>6. calculation' = [calculation EXCEPT ![k] = row]
  <2>1. calculation \in [1 .. Len(calculation) -> RunRow]
    BY <1>1, LenProperties, ElementOfSeq DEF TargetsTyped
  <2>2. calculation = [calculation EXCEPT ![k] = calculation[k]]
    BY <1>2, <2>1
  <2>3. CASE calculation[k].status = "PENDING"
    BY <1>2, <2>1, <2>3 DEF Run
  <2>4. CASE calculation[k].status # "PENDING"
    BY <2>2, <2>4 DEF Run
  <2> QED BY <2>3, <2>4
<1> HIDE DEF seen
<1>7. /\ row \in RunRow /\ row.binding = calculation[k].binding
      /\ row.base = calculation[k].base /\ row.review = calculation[k].review
      /\ row.config = calculation[k].config
      /\ calculation[k].status \in Live => row.status \in Live
  BY <1>2, <1>3 DEF RunRow, seen, Live
<1> HIDE DEF row
<1>8. /\ calculation' \in Seq(RunRow) /\ Len(calculation') = Len(calculation)
      /\ DOMAIN calculation' = DOMAIN calculation
      /\ \A j \in DOMAIN calculation :
           calculation'[j] = IF j = k THEN row ELSE calculation[j]
  BY <1>1, <1>2, <1>6, <1>7, RowStep
<1>9. TargetsTyped'
  BY <1>1, <1>4, <1>5, <1>8, StepOf DEF TargetsTyped
<1>10. LocksProtect'
  <2>1. \A j \in Calculation : \A b \in Attempt : Locked(j, b)' => Locked(j, b)
    BY <1>1, <1>4, StepOf DEF Locked
  <2>2. \A j \in Calculation : j <= Len(calculation) => j \in DOMAIN calculation
    BY <1>1, RowTyped DEF Calculation
  <2> QED BY <2>1, <2>2, <1>5, <1>7, <1>8 DEF TargetsInv, LocksProtect
<1>11. BeingCalculated'
  BY <1>5, <1>7, <1>8 DEF TargetsInv, BeingCalculated
<1> QED BY <1>5, <1>7, <1>8, <1>9, <1>10, <1>11, QuietStep

\* A calculation ends and the binding's status tells how, while the row of the
\* subscription is free.
LEMMA EndKeeps ==
  ASSUME TargetsInv, Free, NEW k \in DOMAIN calculation, NEW a \in Attempt,
         k \in Calculation, Step(k, a, Done),
         UNCHANGED <<subscription, revisions, decision, data>>,
         NEW status \in {"FAILED", "NOT_MATCHED"},
         calculation' = [calculation EXCEPT ![k].status = status],
         \/ UNCHANGED binding /\ binding.version # calculation[k].binding
         \/ \E s \in {"MISSING", "READY", "STALE", "FAILED"} :
              binding' = [binding EXCEPT !.status = s]
  PROVE  TargetsInv'
<1>1. TargetsTyped
  BY DEF TargetsInv
<1>2. calculation[k] \in RunRow
  BY <1>1, RowTyped
<1> DEFINE row == [calculation[k] EXCEPT !.status = status]
<1>3. calculation' = [calculation EXCEPT ![k] = row]
  BY <1>1, <1>2 DEF TargetsTyped
<1>4. /\ row \in RunRow /\ row.binding = calculation[k].binding
      /\ row.base = calculation[k].base /\ row.review = calculation[k].review
  BY <1>2 DEF RunRow
<1> HIDE DEF row
<1>5. /\ calculation' \in Seq(RunRow) /\ Len(calculation') = Len(calculation)
      /\ DOMAIN calculation' = DOMAIN calculation
      /\ \A j \in DOMAIN calculation :
           calculation'[j] = IF j = k THEN row ELSE calculation[j]
  BY <1>1, <1>3, <1>4, RowStep
<1>6. Done \in Progress /\ Done.pc # "locked"
  BY DEF Done, Progress
<1>7. /\ binding' \in Binding /\ binding'.version = binding.version
      /\ binding'.current = binding.current
      /\ \/ binding'.status # "CALCULATING"
         \/ UNCHANGED binding /\ binding.version # calculation[k].binding
  BY <1>1 DEF TargetsTyped, Binding
<1>8. TargetsTyped'
  BY <1>1, <1>5, <1>6, <1>7, StepOf DEF TargetsTyped
<1>9. LocksProtect'
  BY <1>1, <1>6, FreeStepOf
<1>10. BeingCalculated'
  BY <1>4, <1>5, <1>7 DEF TargetsInv, BeingCalculated
<1> QED BY <1>4, <1>5, <1>7, <1>8, <1>9, <1>10, QuietStep

LEMMA NotMatchedKeeps ==
  ASSUME TargetsInv, NEW k \in Calculation, NEW a \in Attempt, NotMatched(k, a)
  PROVE  TargetsInv'
<1>1. k \in DOMAIN calculation
  BY RowTyped DEF NotMatched, At, TargetsInv, Calculation
<1>2. CASE calculation[k].status \in Live
  BY <1>1, <1>2, EndKeeps DEF NotMatched
<1>3. CASE calculation[k].status \notin Live
  BY <1>3, ExecutionStep DEF NotMatched, Done, Progress
<1> QED BY <1>2, <1>3

LEMMA FailedKeeps ==
  ASSUME TargetsInv, Free, NEW k \in Calculation, NEW a \in Attempt,
         k \in DOMAIN calculation, Failed(k), Step(k, a, Done),
         UNCHANGED <<subscription, revisions, decision, data>>
  PROVE  TargetsInv'
BY EndKeeps DEF Failed

LEMMA FailKeeps ==
  ASSUME TargetsInv, NEW k \in Calculation, NEW a \in Attempt, Fail(k, a)
  PROVE  TargetsInv'
<1>1. k \in DOMAIN calculation
  BY RowTyped DEF Fail, At, TargetsInv, Calculation
<1>2. CASE calculation[k].status \in Live
  BY <1>1, <1>2, FailedKeeps DEF Fail
<1>3. CASE calculation[k].status \notin Live
  BY <1>3, ExecutionStep DEF Fail, Done, Progress
<1> QED BY <1>2, <1>3

LEMMA LockKeeps ==
  ASSUME TargetsInv, NEW k \in Calculation, NEW a \in Attempt, Lock(k, a)
  PROVE  TargetsInv'
<1>1. TargetsTyped /\ Free /\ k \in DOMAIN calculation /\ k <= Len(calculation)
  BY RowTyped DEF Lock, At, TargetsInv, Calculation
<1>2. UNCHANGED <<subscription, revisions, decision, data>>
  BY DEF Lock
<1>3. CASE Step(k, a, Done) /\ UNCHANGED <<calculation, binding>>
  BY <1>2, <1>3, ExecutionStep DEF Done, Progress
<1>4. CASE /\ Frozen(k, execution[k][a].data) /\ Step(k, a, [pc |-> "locked"])
           /\ UNCHANGED <<calculation, binding>>
  <2>1. [pc |-> "locked"] \in Progress
    BY DEF Progress
  <2>2. TargetsTyped'
    BY <1>1, <1>2, <1>4, <2>1, StepOf DEF TargetsTyped
  <2>3. \A j \in Calculation : \A b \in Attempt : Locked(j, b)' => j = k /\ b = a
    BY <1>1, <1>4, <2>1, StepOf DEF Free, Locked
  <2>4. LocksProtect'
    BY <1>1, <1>2, <1>4, <2>3 DEF LocksProtect, Frozen
  <2>5. BeingCalculated'
    BY <1>4 DEF TargetsInv, BeingCalculated
  <2> QED BY <1>2, <1>4, <2>2, <2>4, <2>5, QuietStep
<1>5. CASE Step(k, a, Done) /\ Failed(k)
  BY <1>1, <1>2, <1>5, FailedKeeps
<1> QED BY <1>3, <1>4, <1>5 DEF Lock

\* complete, from the pending reviews on.
LEMMA CompleteKeeps ==
  ASSUME TargetsInv, NEW k \in Calculation, NEW a \in Attempt, Complete(k, a)
  PROVE  TargetsInv'
<1> DEFINE n == Len(revisions)
           candidate == n + 1
           m == Len(calculation)
<1>1. /\ TargetsTyped /\ n \in Nat /\ m \in Nat
      /\ binding \in Binding /\ binding.version \in Nat /\ binding.version >= 1
      /\ MaxRevisions \in Nat
  BY RowTyped, LenProperties, TargetsAssumption DEF TargetsInv, TargetsTyped, Binding
<1>2. /\ Locked(k, a) /\ k \in DOMAIN calculation /\ DOMAIN calculation = 1 .. m
      /\ k \in Nat /\ k # 0 /\ ~PendingLocked
  BY <1>1, RowTyped DEF Complete, At, Locked, Calculation
<1>3. binding.version = calculation[k].binding
  BY <1>2 DEF TargetsInv, LocksProtect
<1>4. UNCHANGED <<subscription, decision, data>> /\ Step(k, a, Done)
  BY DEF Complete
<1>5. Done \in Progress /\ Done.pc # "locked"
  BY DEF Done, Progress
<1>6. \A j \in DOMAIN Superseded :
        /\ Superseded[j] \in RunRow
        /\ Superseded[j].binding = calculation[j].binding
        /\ Superseded[j].base = calculation[j].base
        /\ Superseded[j].config = calculation[j].config
        /\ Superseded[j].status = calculation[j].status
        /\ Superseded[j].review # "PENDING"
  <2>1. SUFFICES ASSUME NEW j \in DOMAIN calculation
                 PROVE  /\ Superseded[j] \in RunRow
                        /\ Superseded[j].binding = calculation[j].binding
                        /\ Superseded[j].base = calculation[j].base
                        /\ Superseded[j].config = calculation[j].config
                        /\ Superseded[j].status = calculation[j].status
                        /\ Superseded[j].review # "PENDING"
    BY DEF Superseded
  <2>2. calculation[j] \in RunRow
    BY <1>1, RowTyped
  <2>3. Superseded[j] = IF calculation[j].review = "PENDING"
                        THEN [calculation[j] EXCEPT !.review = "SUPERSEDED"]
                        ELSE calculation[j]
    BY DEF Superseded
  <2> QED BY <2>2, <2>3 DEF RunRow
<1>7. Superseded \in [1 .. m -> RunRow] /\ DOMAIN Superseded = 1 .. m
  BY <1>2, <1>6 DEF Superseded
<1>8. \/ /\ calculation' = [Superseded EXCEPT ![k].status = "SUCCEEDED"]
         /\ \/ /\ binding.current # 0 /\ UNCHANGED revisions
               /\ binding' = [binding EXCEPT !.status = "READY"]
            \/ /\ n < MaxRevisions /\ revisions' = Append(revisions, k)
               /\ binding' = InForce(candidate)
      \/ /\ calculation' = [[Superseded EXCEPT ![k].status = "SUCCEEDED"]
                              EXCEPT ![k].review = "PENDING"]
         /\ n < MaxRevisions /\ revisions' = Append(revisions, k)
         /\ binding.current # 0
         /\ binding' = [binding EXCEPT !.status = "REVIEW_REQUIRED"]
  BY DEF Complete
<1>9. PICK pending \in {"PENDING", Superseded[k].review} :
        /\ calculation' = [Superseded EXCEPT ![k] =
             [Superseded[k] EXCEPT !.status = "SUCCEEDED", !.review = pending]]
        /\ \/ /\ binding.current # 0 /\ UNCHANGED revisions /\ pending # "PENDING"
              /\ binding' = [binding EXCEPT !.status = "READY"]
           \/ /\ n < MaxRevisions /\ revisions' = Append(revisions, k)
              /\ binding' = InForce(candidate) /\ pending # "PENDING"
           \/ /\ n < MaxRevisions /\ revisions' = Append(revisions, k)
              /\ binding.current # 0 /\ pending = "PENDING"
              /\ binding' = [binding EXCEPT !.status = "REVIEW_REQUIRED"]
  <2>0. Superseded[k] \in RunRow /\ Superseded[k].review # "PENDING"
    BY <1>2, <1>6, <1>7
  <2>1. CASE calculation' = [Superseded EXCEPT ![k].status = "SUCCEEDED"]
             /\ \/ /\ binding.current # 0 /\ UNCHANGED revisions
                   /\ binding' = [binding EXCEPT !.status = "READY"]
                \/ /\ n < MaxRevisions /\ revisions' = Append(revisions, k)
                   /\ binding' = InForce(candidate)
    <3>1. [Superseded[k] EXCEPT !.status = "SUCCEEDED"]
            = [Superseded[k] EXCEPT !.status = "SUCCEEDED",
                                    !.review = Superseded[k].review]
      BY <2>0 DEF RunRow
    <3>2. calculation' = [Superseded EXCEPT ![k] =
                            [Superseded[k] EXCEPT !.status = "SUCCEEDED"]]
      BY <2>1, <1>7
    <3> QED BY <2>0, <2>1, <3>1, <3>2
  <2>2. CASE calculation' = [[Superseded EXCEPT ![k].status = "SUCCEEDED"]
                               EXCEPT ![k].review = "PENDING"]
             /\ n < MaxRevisions /\ revisions' = Append(revisions, k)
             /\ binding.current # 0
             /\ binding' = [binding EXCEPT !.status = "REVIEW_REQUIRED"]
    <3>1. calculation' = [Superseded EXCEPT ![k] =
            [Superseded[k] EXCEPT !.status = "SUCCEEDED", !.review = "PENDING"]]
      BY <2>2, <1>2, <1>7
    <3> QED BY <2>2, <3>1
  <2> QED BY <1>8, <2>1, <2>2
<1> DEFINE row == [Superseded[k] EXCEPT !.status = "SUCCEEDED", !.review = pending]
<1>10. /\ row \in RunRow /\ row.binding = calculation[k].binding
       /\ row.base = calculation[k].base /\ row.review = pending
       /\ row.status = "SUCCEEDED"
  <2>1. Superseded[k] \in RunRow /\ pending \in {"NONE", "PENDING", "SUPERSEDED",
                                                "APPROVED", "REJECTED"}
    BY <1>2, <1>6, <1>7 DEF RunRow
  <2> QED BY <2>1, <1>2, <1>6, <1>7 DEF RunRow
<1>11. /\ calculation' \in Seq(RunRow) /\ Len(calculation') = m
       /\ DOMAIN calculation' = 1 .. m
       /\ \A j \in 1 .. m : calculation'[j] = IF j = k THEN row ELSE Superseded[j]
  <2> HIDE DEF row
  <2>1. calculation' = [Superseded EXCEPT ![k] = row]
    BY <1>9 DEF row
  <2>2. calculation' \in [1 .. m -> RunRow]
    BY <2>1, <1>2, <1>7, <1>10
  <2>3. \A j \in 1 .. m : calculation'[j] = IF j = k THEN row ELSE Superseded[j]
    BY <2>1, <1>2, <1>7
  <2>4. calculation' \in Seq(RunRow)
    BY <2>2, <1>1
  <2>5. Len(calculation') = m
    BY <2>2, <2>4, <1>1, LenProperties
  <2> QED BY <2>2, <2>3, <2>4, <2>5
<1> HIDE DEF row, n, m
<1>12. \A j \in Nat : Pending(j)' <=> j = k /\ pending = "PENDING"
  BY <1>2, <1>6, <1>7, <1>10, <1>11 DEF Pending
<1>13. \/ UNCHANGED revisions /\ Len(revisions') = n
       \/ /\ n < MaxRevisions /\ revisions' = Append(revisions, k)
          /\ revisions' \in Seq(Nat) /\ Len(revisions') = n + 1
          /\ revisions'[n + 1] = k
          /\ \A r \in 1 .. n : revisions'[r] = revisions[r]
  <2>1. CASE n < MaxRevisions /\ revisions' = Append(revisions, k)
    BY <2>1, <1>1, <1>2, AppendProperties, LenProperties DEF TargetsTyped, n
  <2>2. CASE UNCHANGED revisions
    BY <2>2 DEF n
  <2> HIDE DEF n
  <2> QED BY <1>9, <2>1, <2>2
<1>14. /\ revisions' \in Seq(Nat) /\ Len(revisions') <= MaxRevisions
       /\ Len(revisions') \in Nat /\ n <= Len(revisions')
  BY <1>1, <1>13 DEF TargetsTyped, n
<1>15. \/ /\ binding'.version = binding.version /\ binding'.current = binding.current
          /\ pending # "PENDING" => UNCHANGED revisions /\ binding.current # 0
       \/ /\ binding'.version = binding.version + 1 /\ binding'.current = n + 1
          /\ Len(revisions') = n + 1 /\ pending # "PENDING"
  <2>1. CASE binding' = InForce(candidate) /\ n < MaxRevisions
             /\ revisions' = Append(revisions, k) /\ pending # "PENDING"
    <3>1. Len(revisions') = n + 1
      BY <2>1, <1>1, <1>2, AppendProperties DEF TargetsTyped, n
    <3> QED BY <2>1, <3>1 DEF InForce
  <2>2. CASE binding' = [binding EXCEPT !.status = "READY"] /\ binding.current # 0
             /\ UNCHANGED revisions
    BY <2>2, <1>1 DEF Binding
  <2>3. CASE binding' = [binding EXCEPT !.status = "REVIEW_REQUIRED"] /\ pending = "PENDING"
    BY <2>3, <1>1 DEF Binding
  <2> QED BY <2>1, <2>2, <2>3, <1>9
<1>16. TargetsTyped'
  <2>1. binding' \in Binding
    <3>1. n + 1 \in Nat /\ binding.version + 1 \in Nat
      BY <1>1
    <3> QED BY <3>1, <1>1, <1>9 DEF InForce, Binding
  <2>2. execution' \in [Calculation -> [Attempt -> Progress]]
    BY <1>1, <1>4, <1>5, StepOf
  <2>3. binding'.version >= 1 /\ binding'.current <= Len(revisions')
    <3>1. binding.current \in Nat /\ binding.current <= n
      BY <1>1 DEF TargetsTyped, Binding, n
    <3> QED BY <3>1, <1>1, <1>14, <1>15
  <2> QED BY <2>1, <2>2, <2>3, <1>1, <1>4, <1>11, <1>14 DEF TargetsTyped, m
<1>17. BasesKnown'
  <2>1. SUFFICES ASSUME NEW j \in 1 .. m
                 PROVE  /\ calculation'[j].binding <= binding'.version
                        /\ calculation'[j].binding = binding'.version
                             => calculation'[j].base = binding'.current
    BY <1>11 DEF BasesKnown
  <2>2. /\ calculation'[j].binding = calculation[j].binding
        /\ calculation'[j].base = calculation[j].base
    BY <1>6, <1>7, <1>10, <1>11
  <2>3. /\ calculation[j].binding \in Nat
        /\ calculation[j].binding <= binding.version
        /\ calculation[j].binding = binding.version
             => calculation[j].base = binding.current
    BY <1>1, <1>2, RowTyped DEF TargetsInv, BasesKnown
  <2> QED BY <1>1, <1>15, <2>2, <2>3
<1>18. LocksProtect'
  <2>1. \A j \in Calculation : \A b \in Attempt : ~Locked(j, b)'
    <3>1. \A j \in Calculation : \A b \in Attempt : Locked(j, b) => j = k /\ b = a
      BY <1>2 DEF TargetsInv, LocksProtect
    <3> QED BY <3>1, <1>1, <1>4, <1>5, StepOf DEF Locked
  <2> QED BY <2>1 DEF LocksProtect
<1>19. ReviewsSound'
  <2>1. SUFFICES ASSUME pending = "PENDING"
                 PROVE  /\ binding'.current # 0
                        /\ \E r \in 1 .. Len(revisions') : revisions'[r] = k
    BY <1>12 DEF ReviewsSound
  <2>2. revisions'[n + 1] = k /\ Len(revisions') = n + 1
    BY <2>1, <1>1, <1>2, <1>9, AppendProperties DEF TargetsTyped, n
  <2> QED BY <2>1, <2>2, <1>1, <1>9, <1>15
<1>20. DecisionsSound'
  <2>1. \A d \in Admin : decision[d].pc # "review"
    <3>1. SUFFICES ASSUME NEW d \in Admin, decision[d].pc = "review"
                   PROVE  FALSE
      OBVIOUS
    <3>2. Pending(decision[d].calculation)
      BY <3>1 DEF TargetsInv, DecisionsSound
    <3> QED BY <1>2, <3>1, <3>2 DEF PendingLocked, Deciding, Pending, m
  <2> QED BY <2>1, <1>2, <1>4, <1>11 DEF TargetsInv, DecisionsSound
<1>21. VersionsCounted'
  <2>1. binding.version - 1 <= n + m
    BY DEF TargetsInv, VersionsCounted, n, m
  <2>2. pending = "PENDING" => Len(revisions') = n + 1
    BY <1>1, <1>2, <1>9, AppendProperties DEF TargetsTyped, n
  <2> QED BY <2>1, <2>2, <1>1, <1>11, <1>12, <1>14, <1>15 DEF VersionsCounted
<1>22. BeingCalculated'
  <2>1. binding'.status # "CALCULATING"
    BY <1>1, <1>9 DEF InForce, Binding
  <2> QED BY <2>1 DEF BeingCalculated
<1> QED BY <1>16, <1>17, <1>18, <1>19, <1>20, <1>21, <1>22 DEF TargetsInv

\* The request of an administrator goes on; a review is locked by one.
LEMMA RequestKeeps ==
  ASSUME TargetsInv, NEW d \in Admin, Read(d) \/ LockReview(d) \/ Abandon(d)
  PROVE  TargetsInv'
<1>1. TargetsTyped
  BY DEF TargetsInv
<1>2. UNCHANGED <<subscription, binding, revisions, calculation, execution, data>>
  BY DEF Read, LockReview, Abandon
<1> DEFINE Taken(step) ==
        /\ step \in Request /\ decision' = [decision EXCEPT ![d] = step]
        /\ step.pc \in {"read", "review"} => step.calculation \in DOMAIN calculation
        /\ step.pc = "review" =>
             /\ Pending(step.calculation)
             /\ \A e \in Admin : decision[e].pc = "review"
                                   => decision[e].calculation # step.calculation
<1>3. PICK step : Taken(step)
  <2>1. Done \in Request /\ Done.pc = "done"
    BY DEF Done, Request
  <2>2. ASSUME NEW k \in 1 .. Len(calculation),
               Ask(d, [pc |-> "read", calculation |-> k, data |-> data,
                       binding |-> binding.version])
        PROVE  \E step : Taken(step)
    <3> DEFINE step == [pc |-> "read", calculation |-> k, data |-> data,
                        binding |-> binding.version]
    <3>1. step \in Request
      BY <1>1 DEF Request, TargetsTyped, Binding
    <3>2. step.pc = "read" /\ step.calculation \in DOMAIN calculation
      BY <1>1, RowTyped
    <3>3. Taken(step)
      BY <2>2, <3>1, <3>2 DEF Ask
    <3> QED BY <3>3
  <2>3. ASSUME LockReview(d), Ask(d, [decision[d] EXCEPT !.pc = "review"]),
               calculation[decision[d].calculation].review = "PENDING"
        PROVE  \E step : Taken(step)
    <3> DEFINE step == [decision[d] EXCEPT !.pc = "review"]
    <3>1. decision[d] \in Request /\ decision[d].pc = "read"
      BY <1>1, <2>3 DEF TargetsTyped, LockReview
    <3>2. step \in Request /\ step.pc = "review"
          /\ step.calculation = decision[d].calculation
      BY <3>1 DEF Request
    <3>3. decision[d].calculation \in DOMAIN calculation
      BY <3>1 DEF TargetsInv, DecisionsSound
    <3>4. Taken(step)
      BY <2>3, <3>2, <3>3 DEF Ask, LockReview, Deciding, Pending
    <3> QED BY <3>4
  <2>4. ASSUME Ask(d, Done)
        PROVE  Taken(Done)
    BY <2>1, <2>4 DEF Ask
  <2> HIDE DEF Taken
  <2> QED BY <2>2, <2>3, <2>4 DEF Read, LockReview, Abandon
<1>4. TargetsTyped'
  BY <1>1, <1>2, <1>3 DEF TargetsTyped
<1>5. \A e \in Admin : decision'[e] = IF e = d THEN step ELSE decision[e]
  BY <1>1, <1>3 DEF TargetsTyped
<1>6. DecisionsSound'
  BY <1>2, <1>3, <1>5 DEF TargetsInv, DecisionsSound, Pending
<1> QED BY <1>2, <1>4, <1>6
        DEF TargetsInv, BasesKnown, LocksProtect, Locked, ReviewsSound, Pending,
            VersionsCounted, BeingCalculated

\* A review ends.
LEMMA DecideKeeps ==
  ASSUME TargetsInv, NEW d \in Admin, Decide(d)
  PROVE  TargetsInv'
<1> DEFINE k == decision[d].calculation
           m == Len(calculation)
           n == Len(revisions)
<1>1. /\ TargetsTyped /\ Free /\ m \in Nat /\ n \in Nat /\ DOMAIN calculation = 1 .. m
      /\ binding \in Binding /\ binding.version \in Nat /\ binding.version >= 1
      /\ binding.current \in Nat /\ binding.current <= n
  BY RowTyped, LenProperties DEF TargetsInv, TargetsTyped, Binding, Decide
<1>2. Pending(k) /\ k \in 1 .. m /\ calculation[k] \in RunRow /\ binding.current # 0
      /\ \A j \in Nat : Pending(j) => j = k
  BY <1>1, RowTyped DEF Decide, TargetsInv, DecisionsSound, ReviewsSound, Pending
<1>3. Candidate(k) \in 1 .. n
  BY <1>1, <1>2 DEF TargetsInv, ReviewsSound, Candidate
<1>4. PICK status \in {"SUPERSEDED", "APPROVED", "REJECTED"} :
        /\ calculation' = [calculation EXCEPT ![k].review = status]
        /\ \/ UNCHANGED binding
           \/ binding' = InForce(Candidate(k))
           \/ binding' = [binding EXCEPT !.status = "STALE"]
  BY DEF Decide, Reviewed
<1> DEFINE row == [calculation[k] EXCEPT !.review = status]
<1>5. /\ row \in RunRow /\ row.review = status /\ row.binding = calculation[k].binding
      /\ row.base = calculation[k].base /\ row.status = calculation[k].status
  BY <1>2 DEF RunRow
<1>6. calculation' = [calculation EXCEPT ![k] = row]
  BY <1>1, <1>2, <1>4 DEF TargetsTyped
<1> HIDE DEF row
<1>7. /\ calculation' \in Seq(RunRow) /\ Len(calculation') = m
      /\ DOMAIN calculation' = 1 .. m
      /\ \A j \in 1 .. m : calculation'[j] = IF j = k THEN row ELSE calculation[j]
  BY <1>1, <1>2, <1>5, <1>6, RowStep
<1>8. UNCHANGED <<subscription, revisions, execution, data>>
      /\ decision' = [decision EXCEPT ![d] = Done]
  BY DEF Decide, Ask
<1>9. \A j \in Nat : ~Pending(j)'
  <2> HIDE DEF k
  <2> QED BY <1>1, <1>2, <1>5, <1>7 DEF Pending
<1>10. /\ binding' \in Binding
       /\ \/ /\ binding'.version = binding.version /\ binding'.current = binding.current
             /\ binding'.status = "CALCULATING" => binding.status = "CALCULATING"
          \/ /\ binding'.version = binding.version + 1 /\ binding'.current \in 1 .. n
             /\ binding'.status = "READY"
  <2>1. CASE binding' = InForce(Candidate(k))
    <3>1. binding.version + 1 \in Nat /\ Candidate(k) \in Nat
      BY <1>1, <1>3
    <3> QED BY <2>1, <3>1, <1>3 DEF InForce, Binding
  <2> QED BY <2>1, <1>1, <1>4 DEF Binding
<1>11. /\ decision' \in [Admin -> Request]
       /\ \A e \in Admin : decision'[e] = IF e = d THEN Done ELSE decision[e]
  BY <1>1, <1>8 DEF TargetsTyped, Done, Request
<1>12. Done.pc = "done"
  BY DEF Done
<1> HIDE DEF k, m, n
<1>13. TargetsTyped'
  BY <1>1, <1>7, <1>8, <1>10, <1>11 DEF TargetsTyped, m, n
<1>14. BasesKnown'
  <2>1. SUFFICES ASSUME NEW j \in 1 .. m
                 PROVE  /\ calculation'[j].binding <= binding'.version
                        /\ calculation'[j].binding = binding'.version
                             => calculation'[j].base = binding'.current
    BY <1>7 DEF BasesKnown
  <2>2. /\ calculation'[j].binding = calculation[j].binding
        /\ calculation'[j].base = calculation[j].base
    BY <1>5, <1>7
  <2>3. /\ calculation[j].binding \in Nat
        /\ calculation[j].binding <= binding.version
        /\ calculation[j].binding = binding.version
             => calculation[j].base = binding.current
    BY <1>1, RowTyped DEF TargetsInv, BasesKnown
  <2> QED BY <1>1, <1>10, <2>2, <2>3
<1>15. LocksProtect'
  BY <1>1, <1>8, FreeStep
<1>16. ReviewsSound'
  BY <1>9 DEF ReviewsSound
<1>17. DecisionsSound'
  <2>1. \A e \in Admin : decision'[e].pc # "review"
    <3>1. SUFFICES ASSUME NEW e \in Admin, decision'[e].pc = "review"
                   PROVE  FALSE
      OBVIOUS
    <3>2. e # d /\ decision[e].pc = "review"
      BY <1>11, <1>12, <3>1
    <3>3. Pending(decision[e].calculation) /\ decision[d].pc = "review"
      BY <3>2 DEF TargetsInv, DecisionsSound, Decide
    <3>4. decision[e].calculation \in Nat
      BY <1>1, <3>3, RowTyped DEF Pending
    <3>5. decision[e].calculation = decision[d].calculation
      BY <1>2, <3>3, <3>4 DEF k
    <3> QED BY <3>2, <3>3, <3>5 DEF TargetsInv, DecisionsSound
  <2> QED BY <1>1, <1>7, <1>11, <1>12, <2>1 DEF TargetsInv, DecisionsSound
<1>18. VersionsCounted'
  <2>1. binding.version <= n + m
    <3>1. \E j \in Nat : Pending(j)
      BY <1>1, <1>2
    <3> QED BY <3>1 DEF TargetsInv, VersionsCounted, n, m
  <2> QED BY <1>1, <1>7, <1>8, <1>9, <1>10, <2>1 DEF VersionsCounted, n
<1>19. BeingCalculated'
  BY <1>1, <1>5, <1>7, <1>10 DEF TargetsInv, BeingCalculated
<1> QED BY <1>13, <1>14, <1>15, <1>16, <1>17, <1>18, <1>19 DEF TargetsInv

LEMMA TargetsStep ==
  ASSUME TargetsInv, [Next]_vars
  PROVE  TargetsInv'
<1>1. TargetsTyped
  BY DEF TargetsInv
<1>2. CASE Transition \/ \E config \in Config \cup {Manual} : Configure(config)
  BY <1>2, SubscriptionKeeps
<1>3. CASE SetByHand
  BY <1>3, ByHandKeeps
<1>4. CASE Calculate \/ Retry
  <2>1. subscription \in Subscription
    BY <1>1 DEF TargetsTyped
  <2> QED BY <1>4, <2>1, ReserveKeeps DEF Calculate, Retry
<1>5. ASSUME NEW config \in Config, Apply(config)
      PROVE  TargetsInv'
  <2>1. subscription' \in Subscription
    BY <1>1, <1>5, SwitchedTyped DEF Apply
  <2> QED BY <1>5, <2>1, ReserveKeeps DEF Apply
<1>6. ASSUME NEW d \in Admin, Recalculate(d)
      PROVE  TargetsInv'
  <2>1. subscription \in Subscription
    BY <1>1 DEF TargetsTyped
  <2> QED BY <1>6, <2>1, ReserveKeeps DEF Recalculate, Ask
<1>7. ASSUME NEW k \in Calculation, NEW a \in Attempt,
             Start(k, a) \/ Execute(k, a) \/ CompleteAborted(k, a) \/ Crash(k, a)
      PROVE  TargetsInv'
  BY <1>7, ExecutionKeeps, RunKeeps, NotMatchedKeeps, FailKeeps, LockKeeps, CompleteKeeps
  DEF Execute
<1>8. CASE \E d \in Admin : Read(d) \/ LockReview(d) \/ Decide(d) \/ Abandon(d)
  BY <1>8, RequestKeeps, DecideKeeps
<1>9. CASE NewData
  <2>1. TargetsTyped'
    BY <1>1, <1>9 DEF NewData, TargetsTyped
  <2> QED BY <1>9, <2>1
      DEF NewData, TargetsInv, BasesKnown, LocksProtect, Locked, ReviewsSound, Pending,
          DecisionsSound, VersionsCounted, BeingCalculated
<1>10. CASE UNCHANGED vars
  BY <1>10, SMTT(30) DEF vars, TargetsInv, TargetsTyped, BasesKnown, LocksProtect, Locked,
               ReviewsSound, Pending, DecisionsSound, VersionsCounted, BeingCalculated
<1> QED BY <1>2, <1>3, <1>4, <1>5, <1>6, <1>7, <1>8, <1>9, <1>10 DEF Next

\* The invariant holds in every reachable state.
THEOREM TargetsInvariant == Spec => []TargetsInv
<1>1. Init => TargetsInv
  BY TargetsInit
<1>2. TargetsInv /\ [Next]_vars => TargetsInv'
  BY TargetsStep
<1> QED BY <1>1, <1>2, PTL DEF Spec

(***************************************************************************)
(* The theorems.                                                           *)
(***************************************************************************)
\* What a step may do to the target that is offered, and why.
LEMMA OfferedStep ==
  ASSUME TargetsInv, [Next]_vars
  PROVE  \/ binding'.version = binding.version /\ binding'.current = binding.current
         \/ /\ binding'.version = binding.version + 1
            /\ binding'.current = binding.current /\ binding'.status = "CALCULATING"
         \/ /\ binding'.version = binding.version + 1
            /\ binding'.current \in 1 .. Len(revisions') /\ binding'.status = "READY"
            /\ \/ revisions'[binding'.current] = 0
               \/ \E k \in Calculation :
                    /\ revisions'[binding'.current] = k
                    /\ binding.current = calculation[k].base
                    /\ subscription.config = calculation[k].config
<1> DEFINE n == Len(revisions)
           Quiet == binding'.version = binding.version /\ binding'.current = binding.current
           Reserves == /\ binding'.version = binding.version + 1
                       /\ binding'.current = binding.current
                       /\ binding'.status = "CALCULATING"
           Activates(k) ==
             /\ binding'.version = binding.version + 1
             /\ binding'.current \in 1 .. Len(revisions') /\ binding'.status = "READY"
             /\ revisions'[binding'.current] = k
             /\ k # 0 => /\ k \in Calculation
                         /\ binding.current = calculation[k].base
                         /\ subscription.config = calculation[k].config
           Goal == Quiet \/ Reserves \/ \E k : Activates(k)
<1>1. TargetsTyped /\ binding \in Binding /\ n \in Nat
  BY LenProperties DEF TargetsInv, TargetsTyped
<1>2. CASE SetByHand
  <2>1. Len(revisions') = n + 1 /\ revisions'[n + 1] = 0
    BY <1>1, <1>2, AppendProperties DEF SetByHand, TargetsTyped
  <2>2. Activates(0)
    BY <1>1, <1>2, <2>1 DEF SetByHand, InForce
  <2> QED BY <2>2
<1>3. CASE \E owner : Reserve(owner)
  BY <1>1, <1>3 DEF Reserve, Binding
<1>4. ASSUME NEW k \in Calculation, NEW a \in Attempt, Complete(k, a)
      PROVE  Goal
  <2>1. CASE binding' = InForce(n + 1) /\ revisions' = Append(revisions, k)
    <3>1. Len(revisions') = n + 1 /\ revisions'[n + 1] = k
      BY <1>1, <2>1, AppendProperties DEF TargetsTyped, Calculation
    <3>2. k \in DOMAIN calculation /\ Locked(k, a) /\ k <= Len(calculation)
      BY <1>1, <1>4, RowTyped DEF Complete, At, Locked, Calculation
    <3>3. /\ subscription.config = calculation[k].config
          /\ binding.current = calculation[k].base
      BY <3>2 DEF TargetsInv, LocksProtect, BasesKnown
    <3>4. Activates(k)
      BY <1>1, <2>1, <3>1, <3>3 DEF InForce
    <3> QED BY <3>4
  <2>2. CASE \E s : binding' = [binding EXCEPT !.status = s]
    BY <1>1, <2>2 DEF Binding
  <2> QED BY <1>4, <2>1, <2>2 DEF Complete
<1>5. ASSUME NEW d \in Admin, Decide(d)
      PROVE  Goal
  <2> DEFINE k == decision[d].calculation
  <2>1. CASE Valid(d) /\ binding' = InForce(Candidate(k))
    <3>1. Pending(k) /\ k \in Calculation
      <4>1. Pending(k)
        BY <1>5 DEF Decide, TargetsInv, DecisionsSound
      <4>2. Len(calculation) \in Nat /\ Len(calculation) <= MaxCalculations
            /\ MaxCalculations \in Nat /\ DOMAIN calculation = 1 .. Len(calculation)
        BY <1>1, RowTyped, TargetsAssumption DEF TargetsTyped
      <4> QED BY <4>1, <4>2 DEF Pending, Calculation
    <3>2. Candidate(k) \in 1 .. n /\ revisions[Candidate(k)] = k
      BY <3>1 DEF TargetsInv, ReviewsSound, Candidate, Calculation
    <3>3. Activates(k)
      BY <1>5, <2>1, <3>1, <3>2 DEF Decide, Valid, InForce
    <3> QED BY <3>3
  <2>2. CASE UNCHANGED binding
    BY <2>2
  <2>3. CASE binding' = [binding EXCEPT !.status = "STALE"]
    BY <1>1, <2>3 DEF Binding
  <2> QED BY <1>5, <2>1, <2>2, <2>3 DEF Decide
<1>6. CASE \E k \in Calculation : \E a \in Attempt :
             NotMatched(k, a) \/ Fail(k, a) \/ Lock(k, a)
  <2>1. UNCHANGED binding \/ \E s : binding' = [binding EXCEPT !.status = s]
    BY <1>6 DEF NotMatched, Fail, Lock, Failed
  <2> QED BY <1>1, <2>1 DEF Binding
<1>7. Goal
  BY <1>2, <1>3, <1>4, <1>5, <1>6, ZenonT(30)
  DEF Next, vars, Configure, Apply, Transition, Calculate, Retry, Start, Execute, Run,
      CompleteAborted, Crash, Read, LockReview, Recalculate, Abandon, NewData
<1> QED BY <1>7

\* A binding without a revision is not put to use again.
LEMMA UsableStep ==
  ASSUME TargetsInv, [Next]_vars,
         binding'.version = binding.version, binding'.current = binding.current,
         binding.current = 0,
         binding'.status \in {"READY", "STALE"}
  PROVE  binding.status \in {"READY", "STALE"}
<1>1. TargetsTyped /\ binding \in Binding /\ binding.version \in Nat
  BY DEF TargetsInv, TargetsTyped, Binding
<1>2. ~SetByHand
  BY <1>1 DEF SetByHand, InForce
<1>3. ~ \E owner : Reserve(owner)
  BY <1>1 DEF Reserve, Binding
<1>4. ASSUME NEW k \in Calculation, NEW a \in Attempt, Complete(k, a)
      PROVE  FALSE
  <2>1. binding' # InForce(Len(revisions) + 1)
    BY <1>1 DEF InForce
  <2> QED BY <1>4, <2>1 DEF Complete
<1>5. ASSUME NEW d \in Admin, Decide(d)
      PROVE  UNCHANGED binding
  <2>1. Pending(decision[d].calculation) /\ decision[d].calculation \in Nat
    BY <1>1, <1>5, RowTyped DEF Decide, TargetsInv, DecisionsSound, Pending
  <2> QED BY <2>1 DEF TargetsInv, ReviewsSound
<1>6. CASE \E k \in Calculation : \E a \in Attempt :
             NotMatched(k, a) \/ Fail(k, a) \/ Lock(k, a)
  <2>1. UNCHANGED binding
        \/ \E s \in {"MISSING", "FAILED"} : binding' = [binding EXCEPT !.status = s]
    BY <1>6 DEF NotMatched, Fail, Lock, Failed
  <2> QED BY <1>1, <2>1 DEF Binding
<1> QED BY <1>2, <1>3, <1>4, <1>5, <1>6
    DEF Next, vars, Configure, Apply, Transition, Calculate, Retry, Start, Execute, Run,
        CompleteAborted, Crash, Read, LockReview, Recalculate, Abandon, NewData

\* A calculated target comes into force only in place of the target that was in
\* force when its calculation was reserved, and under its configuration.
THEOREM Replacements == Spec => ReplacesWhatItSaw
<1> DEFINE Replaces ==
             LET k == revisions'[binding'.current] IN
             binding'.current # binding.current /\ k # 0 =>
               /\ binding.current = calculation[k].base
               /\ subscription.config = calculation[k].config
<1>1. TargetsInv /\ [Next]_vars => [Replaces]_vars
  BY OfferedStep
<1> QED BY <1>1, TargetsInvariant, PTL DEF Spec, ReplacesWhatItSaw

\* Two changes of what is offered.
LEMMA OfferedRows ==
  ASSUME NEW r \in [usable : BOOLEAN, version : Nat, revision : Nat],
         NEW s \in [usable : BOOLEAN, version : Nat, revision : Nat],
         s.revision = r.revision
  PROVE  /\ s.usable = TRUE /\ s.version = r.version => s = [r EXCEPT !.usable = TRUE]
         /\ s.usable = FALSE
              => s = [r EXCEPT !.usable = FALSE, !.version = s.version]
OBVIOUS

\* Targets keep the promise that signals rely on: a version tells one target from
\* another, and what is withheld comes back as it was or as something newer.
THEOREM PromiseKept == Spec => ImplementsPromise
<1>1. Init => Promise!TargetInit
  <2> SUFFICES ASSUME Init
               PROVE  Promise!TargetInit
    OBVIOUS
  <2>1. (binding.status \in {"READY", "STALE"}) = FALSE /\ binding.version - 1 = 0
        /\ binding.current = 0
    BY DEF Init
  <2> QED BY <2>1 DEF Promise!TargetInit, Promise!NoTarget, Offered
<1>2. ASSUME TargetsInv, TargetsInv', [Next]_vars
      PROVE  [Promise!TargetNext]_Offered
  <2> DEFINE max == MaxRevisions + MaxCalculations + 1
             v == binding.version - 1
             w == binding'.version - 1
             c == binding.current
             d == binding'.current
             used == binding.status \in {"READY", "STALE"}
             usable == binding'.status \in {"READY", "STALE"}
  <2>1. /\ v \in Nat /\ w \in Nat /\ w <= max /\ v < max /\ max \in Nat
        /\ c \in Nat /\ d \in Nat /\ d <= max
        /\ Len(revisions') \in Nat /\ Len(revisions') <= max
    <3>1. /\ Len(revisions) \in Nat /\ Len(revisions) <= MaxRevisions
          /\ Len(calculation) \in Nat /\ Len(calculation) <= MaxCalculations
          /\ binding.version \in Nat /\ binding.version >= 1 /\ c \in Nat
          /\ binding.version - 1 <= Len(revisions) + Len(calculation)
      BY <1>2, LenProperties DEF TargetsInv, TargetsTyped, VersionsCounted, Binding
    <3>2. /\ Len(revisions') \in Nat /\ Len(revisions') <= MaxRevisions
          /\ Len(calculation') \in Nat /\ Len(calculation') <= MaxCalculations
          /\ binding'.version \in Nat /\ binding'.version >= 1 /\ d \in Nat
          /\ binding'.version - 1 <= Len(revisions') + Len(calculation')
          /\ d <= Len(revisions')
      BY <1>2, LenProperties DEF TargetsInv, TargetsTyped, VersionsCounted, Binding
    <3>3. MaxRevisions \in Nat /\ MaxCalculations \in Nat
      BY TargetsAssumption
    <3>4. max \in Nat /\ v \in Nat /\ w \in Nat
      BY <3>1, <3>2, <3>3, SMTT(30)
    <3>5. v < max
      BY <3>1, <3>3
    <3>6. w <= max /\ d <= max /\ Len(revisions') <= max
      BY <3>2, <3>3
    <3> QED BY <3>1, <3>2, <3>4, <3>5, <3>6
  <2>5. /\ Offered = [usable |-> used, version |-> v, revision |-> c]
        /\ Offered' = [usable |-> usable, version |-> w, revision |-> d]
        /\ used \in BOOLEAN /\ usable \in BOOLEAN
    BY DEF Offered
  <2>6. \/ w = v /\ d = c
        \/ w = v + 1 /\ d = c /\ ~usable
        \/ w = v + 1 /\ d \in 1 .. Len(revisions') /\ usable
    <3>1. binding.version \in Nat
      BY <1>2 DEF TargetsInv, TargetsTyped, Binding
    <3> QED BY <1>2, <3>1, OfferedStep
  <2>7. w = v /\ d = c /\ c = 0 /\ usable => used
    <3>1. binding.version \in Nat /\ binding'.version \in Nat
      BY <1>2 DEF TargetsInv, TargetsTyped, Binding
    <3>2. w = v => binding'.version = binding.version
      BY <3>1
    <3> QED BY <1>2, <3>2, UsableStep
  <2> HIDE DEF max, v, w, c, d, used, usable
  <2>8. /\ Offered \in [usable : BOOLEAN, version : Nat, revision : Nat]
        /\ Offered' \in [usable : BOOLEAN, version : Nat, revision : Nat]
        /\ Offered.version = v /\ Offered.revision = c /\ Offered.usable = used
        /\ Offered'.version = w /\ Offered'.revision = d /\ Offered'.usable = usable
    BY <2>1, <2>5
  <2>2. CASE w = v /\ d = c
    <3>1. CASE usable = used
      BY <2>2, <2>5, <3>1
    <3>2. CASE usable /\ ~used
      <4>1. Offered' = [Offered EXCEPT !.usable = TRUE]
        BY <2>2, <2>8, <3>2, OfferedRows
      <4>2. Offered.revision # 0 /\ ~Offered.usable
        BY <2>2, <2>8, <2>7, <3>2
      <4> QED BY <4>1, <4>2 DEF Promise!Resume, Promise!TargetNext
    <3>3. CASE ~usable /\ used
      <4>1. Offered' = [Offered EXCEPT !.usable = FALSE, !.version = v]
        BY <2>2, <2>8, <3>3, OfferedRows
      <4>2. Offered.version = v /\ v \in v .. max
        BY <2>1, <2>8
      <4> QED BY <4>1, <4>2 DEF Promise!Withhold, Promise!TargetNext, max
    <3> QED BY <3>1, <3>2, <3>3, <2>5
  <2>3. CASE w = v + 1 /\ d = c /\ ~usable
    <3>1. Offered' = [Offered EXCEPT !.usable = FALSE, !.version = w]
      BY <2>3, <2>8, OfferedRows
    <3>2. Offered.version = v /\ w \in v .. max
      BY <2>1, <2>3, <2>8
    <3> QED BY <3>1, <3>2 DEF Promise!Withhold, Promise!TargetNext, max
  <2>4. CASE w = v + 1 /\ d \in 1 .. Len(revisions') /\ usable
    <3>1. Offered' = [usable |-> TRUE, version |-> w, revision |-> d]
      BY <2>4, <2>5
    <3>2. Offered.version = v /\ w \in v + 1 .. max /\ d \in 1 .. max
      BY <2>1, <2>4, <2>5
    <3>3. Promise!Activate(d)
      BY <2>1, <3>1, <3>2 DEF Promise!Activate, max
    <3> QED BY <3>2, <3>3 DEF Promise!TargetNext, max
  <2> QED BY <2>2, <2>3, <2>4, <2>6
<1> QED BY <1>1, <1>2, TargetsInvariant, PTL DEF Spec, ImplementsPromise, Promise!TargetSpec
=============================================================================
