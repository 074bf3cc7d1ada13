------------------------------- MODULE Targets ------------------------------
(***************************************************************************)
(* The target prices of one subscription: backend/src/long_invest/modules/ *)
(* targets (service.py, strategy_service.py, application.py) and the part  *)
(* of modules/monitoring that they read and switch.                        *)
(*                                                                         *)
(* A transaction locks the subscription before the target binding, so most *)
(* are one action that waits for the subscription's row (Free).  Two kinds *)
(* are not: completing a calculation goes on to lock the pending reviews,  *)
(* deciding a review locks the review first.                               *)
(*                                                                         *)
(* Executions of a calculation's job overlap when a lease was lost.        *)
(***************************************************************************)
EXTENDS Naturals, Sequences, FiniteSets

CONSTANTS
  Config,             \* strategy versions with their parameters
  Admin,              \* the requests that decide reviews, one each
  Attempts,           \* max_attempts of a calculation's job
  MaxCalculations,    \* bounds on calculations, revisions of the target,
  MaxRevisions,       \*   versions of the training data and of the
  MaxData,            \*   subscription
  MaxSubscription

ASSUME TargetsAssumption ==
  /\ Attempts \in Nat \ {0}
  /\ {MaxCalculations, MaxRevisions, MaxData, MaxSubscription} \subseteq Nat

VARIABLES
  subscription,       \* [status, version, config]; config "MANUAL": no strategy
  binding,            \* [status, version, current]; current 0: no revision
  revisions,          \* the calculation of each target revision, 0: set by hand
  calculation,        \* the calculation runs, in order of creation
  execution,          \* the executions of each calculation's job
  decision,           \* the request of each administrator
  data                \* version of the training data

vars == <<subscription, binding, revisions, calculation, execution, decision, data>>

Calculation == 1 .. MaxCalculations
Attempt == 1 .. Attempts
Manual == "MANUAL"
Live == {"PENDING", "RUNNING"}

Init ==
  /\ \E config \in Config \cup {Manual} :
       subscription = [status |-> "CONFIGURING", version |-> 1, config |-> config]
  /\ binding = [status |-> "MISSING", version |-> 1, current |-> 0]
  /\ revisions = <<>>
  /\ calculation = <<>>
  /\ execution = [k \in Calculation |-> [a \in Attempt |-> [pc |-> "none"]]]
  /\ decision = [d \in Admin |-> [pc |-> "idle"]]
  /\ data = 1

\* The subscription's row, and with it the binding's, is not locked.
Free == \A k \in Calculation, a \in Attempt : execution[k][a].pc # "locked"

(***************************************************************************)
(* The subscription (monitoring/service.py).                               *)
(***************************************************************************)
Switched(config) ==
  [subscription EXCEPT !.config = config, !.version = @ + 1]

\* configure, as an administrator calls it.
Configure(config) ==
  /\ Free /\ subscription.version < MaxSubscription
  /\ subscription.status # "ARCHIVED"
  /\ subscription' = Switched(config)
  /\ UNCHANGED <<binding, revisions, calculation, execution, decision, data>>

\* enable (when the targets are ready), pause, archive, restore.
Transition ==
  /\ Free /\ subscription.version < MaxSubscription
  /\ \E change \in
       {<<"CONFIGURING", "ENABLED">>, <<"PAUSED", "ENABLED">>,
        <<"CONFIGURING", "PAUSED">>, <<"ENABLED", "PAUSED">>,
        <<"PAUSED", "ARCHIVED">>, <<"ARCHIVED", "PAUSED">>} :
       /\ subscription.status = change[1]
       /\ change[2] = "ENABLED" => binding.status \in {"READY", "STALE"}
       /\ subscription' = [subscription EXCEPT !.status = change[2], !.version = @ + 1]
  /\ UNCHANGED <<binding, revisions, calculation, execution, decision, data>>

(***************************************************************************)
(* Targets set by hand (service.py).  The version the administrator        *)
(* expects is the current one, or the request is refused.                  *)
(***************************************************************************)
\* Faulty variant: a target comes into force without a version of its own.
InForceSameVersion(revision) ==
  [status |-> "READY", version |-> binding.version, current |-> revision]

InForce(revision) ==
  [status |-> "READY", version |-> binding.version + 1, current |-> revision]

\* set_manual, and restore of any revision, were it never in force: a strategy
\* subscription is switched to manual.
SetByHand ==
  /\ Free /\ subscription.status # "ARCHIVED"
  /\ Len(revisions) < MaxRevisions
  /\ IF subscription.config = Manual
     THEN UNCHANGED subscription
     ELSE /\ subscription.version < MaxSubscription
          /\ subscription' = Switched(Manual)
  /\ revisions' = Append(revisions, 0)
  /\ binding' = InForce(Len(revisions) + 1)
  /\ UNCHANGED <<calculation, execution, decision, data>>

(***************************************************************************)
(* Reserving a calculation (strategy_service.py).  Its job is submitted in *)
(* the same transaction.                                                   *)
(***************************************************************************)
Reserved(owner) ==
  [status |-> "PENDING", subscription |-> owner.version, config |-> owner.config,
   binding |-> binding.version + 1, base |-> binding.current, data |-> 0,
   review |-> "NONE"]

\* reserve, for the subscription as the transaction has left it.
Reserve(owner) ==
  /\ Len(calculation) < MaxCalculations
  /\ owner.status # "ARCHIVED" /\ owner.config # Manual
  /\ binding' = [binding EXCEPT !.status = "CALCULATING", !.version = @ + 1]
  /\ calculation' = Append(calculation, Reserved(owner))

Calculate ==
  /\ Free /\ Reserve(subscription)
  /\ UNCHANGED <<subscription, revisions, execution, decision, data>>

\* apply_and_reserve
Apply(config) ==
  /\ Free /\ subscription.version < MaxSubscription
  /\ subscription' = Switched(config)
  /\ Reserve(subscription')
  /\ UNCHANGED <<revisions, execution, decision, data>>

\* retry: the latest calculation has failed.
Retry ==
  /\ Free /\ calculation # <<>>
  /\ calculation[Len(calculation)].status = "FAILED"
  /\ Reserve(subscription)
  /\ UNCHANGED <<subscription, revisions, execution, decision, data>>

(***************************************************************************)
(* Executing a calculation's job (application.execute).                    *)
(***************************************************************************)
At(k, a, pc) == k <= Len(calculation) /\ execution[k][a].pc = pc

Step(k, a, step) == execution' = [execution EXCEPT ![k][a] = step]
Done == [pc |-> "done"]
Failing == [pc |-> "failing"]

\* The calculation's row is locked by the execution that completes it.
RunFree(k) == \A a \in Attempt : execution[k][a].pc # "locked"

\* The plan and the training data are read.  A later attempt is made when the
\* earlier has crashed, or when its lease was lost though it still runs; one that
\* finds the calculation ended does nothing.
Start(k, a) ==
  /\ At(k, a, "none") /\ \A b \in 1 .. a - 1 : execution[k][b].pc # "none"
  /\ calculation[k].status \in Live
  /\ \/ Step(k, a, [pc |-> "trained", data |-> data])
     \/ Step(k, a, Failing)
  /\ UNCHANGED <<subscription, binding, revisions, calculation, decision, data>>

\* mark_running; the strategy ends, and when it matched the version of the data
\* is read again.
Run(k, a) ==
  /\ At(k, a, "trained") /\ RunFree(k)
  /\ calculation' =
       IF calculation[k].status = "PENDING"
       THEN [calculation EXCEPT ![k].status = "RUNNING",
                                ![k].data = execution[k][a].data]
       ELSE calculation
  /\ \/ Step(k, a, [pc |-> "matched", data |-> data])
     \/ Step(k, a, [pc |-> "unmatched"])
     \/ Step(k, a, Failing)
  /\ UNCHANGED <<subscription, binding, revisions, decision, data>>

\* not_matched locks the binding and looks at its revision alone.
NotMatched(k, a) ==
  /\ At(k, a, "unmatched") /\ Free
  /\ IF calculation[k].status \in Live
     THEN /\ calculation' = [calculation EXCEPT ![k].status = "NOT_MATCHED"]
          /\ binding' = [binding EXCEPT
               !.status = IF binding.current = 0 THEN "MISSING" ELSE "READY"]
     ELSE UNCHANGED <<calculation, binding>>
  /\ Step(k, a, Done)
  /\ UNCHANGED <<subscription, revisions, decision, data>>

\* _fail_locked: the binding is left alone when it has moved on.
Failed(k) ==
  /\ calculation' = [calculation EXCEPT ![k].status = "FAILED"]
  /\ binding' = IF binding.version = calculation[k].binding
                THEN [binding EXCEPT
                      !.status = IF binding.current = 0 THEN "FAILED" ELSE "STALE"]
                ELSE binding

Fail(k, a) ==
  /\ At(k, a, "failing") /\ Free
  /\ IF calculation[k].status \in Live
     THEN Failed(k)
     ELSE UNCHANGED <<calculation, binding>>
  /\ Step(k, a, Done)
  /\ UNCHANGED <<subscription, revisions, decision, data>>

\* Faulty variant: a target set meanwhile is not seen.
FrozenConfigOnly(k, current) ==
  /\ subscription.version = calculation[k].subscription
  /\ subscription.config = calculation[k].config
  /\ calculation[k].data = current

\* Nothing has changed since the calculation was reserved.
Frozen(k, current) ==
  /\ subscription.version = calculation[k].subscription
  /\ subscription.config = calculation[k].config
  /\ binding.version = calculation[k].binding
  /\ calculation[k].data = current

\* complete: up to the check that nothing has changed ...
Lock(k, a) ==
  /\ At(k, a, "matched") /\ Free
  /\ \/ /\ calculation[k].status \in {"SUCCEEDED", "FAILED"}
        /\ Step(k, a, Done) /\ UNCHANGED <<calculation, binding>>
     \/ /\ calculation[k].status \notin {"SUCCEEDED", "FAILED"}
        /\ Frozen(k, execution[k][a].data)
        /\ Step(k, a, [pc |-> "locked"]) /\ UNCHANGED <<calculation, binding>>
     \/ /\ calculation[k].status \notin {"SUCCEEDED", "FAILED"}
        /\ ~Frozen(k, execution[k][a].data)
        /\ Step(k, a, Done) /\ Failed(k)
  /\ UNCHANGED <<subscription, revisions, decision, data>>

\* A pending review is locked by the request that decides it.
Deciding(k) == \E d \in Admin : decision[d].pc = "review" /\ decision[d].calculation = k

PendingLocked ==
  \E k \in 1 .. Len(calculation) : calculation[k].review = "PENDING" /\ Deciding(k)

\* Faulty variant: the reviews of earlier candidates stay.
SupersededNone == calculation

\* _supersede_pending
Superseded ==
  [k \in DOMAIN calculation |->
     IF calculation[k].review = "PENDING"
     THEN [calculation[k] EXCEPT !.review = "SUPERSEDED"]
     ELSE calculation[k]]

\* ... and from the pending reviews on: the values are the current ones, or a
\* candidate that is put in force or, changed a lot, is to be reviewed.
Complete(k, a) ==
  LET candidate == Len(revisions) + 1
      ended == [Superseded EXCEPT ![k].status = "SUCCEEDED"]
  IN
  /\ At(k, a, "locked") /\ ~PendingLocked
  /\ \/ /\ binding.current # 0
        /\ calculation' = ended
        /\ binding' = [binding EXCEPT !.status = "READY"]
        /\ UNCHANGED revisions
     \/ /\ Len(revisions) < MaxRevisions
        /\ revisions' = Append(revisions, k)
        /\ \/ calculation' = ended /\ binding' = InForce(candidate)
           \/ /\ binding.current # 0
              /\ calculation' = [ended EXCEPT ![k].review = "PENDING"]
              /\ binding' = [binding EXCEPT !.status = "REVIEW_REQUIRED"]
  /\ Step(k, a, Done)
  /\ UNCHANGED <<subscription, decision, data>>

\* Each waits for what the other has locked: the database aborts one.
Deadlocked(d) ==
  /\ decision[d].pc = "review" /\ ~Free
  /\ calculation[decision[d].calculation].review = "PENDING"

\* Faulty variant: the execution ends with the error.
CompleteAbortedLeft(k, a) ==
  /\ At(k, a, "locked") /\ \E d \in Admin : Deadlocked(d)
  /\ Step(k, a, Done)
  /\ UNCHANGED <<subscription, binding, revisions, calculation, decision, data>>

\* execute takes the error for the failure of the calculation.
CompleteAborted(k, a) ==
  /\ At(k, a, "locked") /\ \E d \in Admin : Deadlocked(d)
  /\ Step(k, a, Failing)
  /\ UNCHANGED <<subscription, binding, revisions, calculation, decision, data>>

\* The process dies; the last attempt is not lost.
Crash(k, a) ==
  /\ a < Attempts /\ k <= Len(calculation)
  /\ execution[k][a].pc \notin {"none", "done", "crashed"}
  /\ Step(k, a, [pc |-> "crashed"])
  /\ UNCHANGED <<subscription, binding, revisions, calculation, decision, data>>

(***************************************************************************)
(* Deciding a review.                                                      *)
(***************************************************************************)
Ask(d, step) == decision' = [decision EXCEPT ![d] = step]

\* The administrator sees the binding; review_freshness and the training data
\* are read before the transaction that decides.
Read(d) ==
  /\ decision[d].pc = "idle"
  /\ \E k \in 1 .. Len(calculation) :
       /\ calculation[k].review = "PENDING"
       /\ Ask(d, [pc |-> "read", calculation |-> k, data |-> data,
                  binding |-> binding.version])
  /\ UNCHANGED <<subscription, binding, revisions, calculation, execution, data>>

LockReview(d) ==
  LET k == decision[d].calculation IN
  /\ decision[d].pc = "read" /\ ~Deciding(k)
  /\ IF calculation[k].review = "PENDING"
     THEN Ask(d, [decision[d] EXCEPT !.pc = "review"])
     ELSE Ask(d, Done)
  /\ UNCHANGED <<subscription, binding, revisions, calculation, execution, data>>

\* What was reviewed is still what would be replaced.  The baseline is the
\* revision that was in force when the calculation ended.
Valid(d) ==
  LET c == calculation[decision[d].calculation] IN
  /\ subscription.config = c.config
  /\ binding.current = c.base
  /\ binding.version = decision[d].binding
  /\ decision[d].data = c.data

Candidate(k) == CHOOSE r \in 1 .. Len(revisions) : revisions[r] = k

Reviewed(d, status) ==
  calculation' = [calculation EXCEPT ![decision[d].calculation].review = status]

\* decide; a decision on something else only sets the review aside.
Decide(d) ==
  LET k == decision[d].calculation IN
  /\ decision[d].pc = "review" /\ Free
  /\ \/ ~Valid(d) /\ Reviewed(d, "SUPERSEDED") /\ UNCHANGED binding
     \/ Valid(d) /\ Reviewed(d, "APPROVED") /\ binding' = InForce(Candidate(k))
     \/ /\ Valid(d) /\ Reviewed(d, "REJECTED")
        /\ binding' = [binding EXCEPT !.status = "STALE"]
  /\ Ask(d, Done)
  /\ UNCHANGED <<subscription, revisions, execution, data>>

\* recalculate_review reserves another calculation, or is refused.
Recalculate(d) ==
  /\ decision[d].pc = "review" /\ Free
  /\ binding.version = decision[d].binding
  /\ Reserve(subscription)
  /\ Ask(d, Done)
  /\ UNCHANGED <<subscription, revisions, execution, data>>

\* The request is refused, fails, or is the one aborted in a deadlock.
Abandon(d) ==
  /\ decision[d].pc \in {"read", "review"}
  /\ Ask(d, Done)
  /\ UNCHANGED <<subscription, binding, revisions, calculation, execution, data>>

\* New daily bars.
NewData ==
  /\ data < MaxData /\ data' = data + 1
  /\ UNCHANGED <<subscription, binding, revisions, calculation, execution, decision>>

-----------------------------------------------------------------------------
Execute(k, a) ==
  \/ Run(k, a) \/ NotMatched(k, a) \/ Fail(k, a) \/ Lock(k, a) \/ Complete(k, a)

\* The database finds a deadlock and aborts one of the two.
BreakDeadlock ==
  \/ \E k \in Calculation, a \in Attempt : CompleteAborted(k, a)
  \/ \E d \in Admin : Deadlocked(d) /\ Abandon(d)

\* A first attempt, or one after a crash, is due.
StartDue(k, a) ==
  Start(k, a) /\ (a > 1 => execution[k][a - 1].pc = "crashed")

Next ==
  \/ \E config \in Config : Configure(config) \/ Apply(config)
  \/ Configure(Manual) \/ Transition \/ SetByHand \/ Calculate \/ Retry
  \/ \E k \in Calculation, a \in Attempt :
       Start(k, a) \/ Execute(k, a) \/ CompleteAborted(k, a) \/ Crash(k, a)
  \/ \E d \in Admin :
       Read(d) \/ LockReview(d) \/ Decide(d) \/ Recalculate(d) \/ Abandon(d)
  \/ NewData

Spec == Init /\ [][Next]_vars

\* The queue runs its jobs, and deciding requests end.
Fairness ==
  /\ \A k \in Calculation, a \in Attempt :
       WF_vars(Execute(k, a)) /\ WF_vars(StartDue(k, a))
  /\ \A d \in Admin : WF_vars(LockReview(d) \/ Decide(d))
  /\ WF_vars(BreakDeadlock)

FairSpec == Spec /\ Fairness

-----------------------------------------------------------------------------
(* Properties. *)

\* Types; what is reviewed is a revision.
TypeOK ==
  /\ subscription \in [status : {"CONFIGURING", "ENABLED", "PAUSED", "ARCHIVED"},
                       version : 1 .. MaxSubscription, config : Config \cup {Manual}]
  /\ binding.current \in 0 .. Len(revisions)
  /\ binding.status \in {"MISSING", "CALCULATING", "READY", "STALE", "FAILED",
                         "REVIEW_REQUIRED"}
  /\ binding.status = "MISSING" => binding.current = 0
  /\ \A k \in 1 .. Len(calculation) :
       /\ calculation[k].status \in Live \cup {"SUCCEEDED", "FAILED", "NOT_MATCHED"}
       /\ calculation[k].review # "NONE" => \E r \in 1 .. Len(revisions) : revisions[r] = k

(***************************************************************************)
(* A calculated target comes into force only in place of the target that   *)
(* was in force when its calculation was reserved, and only under the      *)
(* configuration it was calculated for: what an administrator has set by   *)
(* hand or approved in the meantime is not overwritten, by whichever of    *)
(* the overlapping executions, reviews and retries comes last.             *)
(***************************************************************************)
ReplacesWhatItSaw ==
  [][LET k == revisions'[binding'.current] IN
     binding'.current # binding.current /\ k # 0 =>
       /\ binding.current = calculation[k].base
       /\ subscription.config = calculation[k].config]_vars

(***************************************************************************)
(* One review at most is pending, and a binding that says it is being      *)
(* calculated is: a live run of its version exists.  Otherwise nothing     *)
(* would ever bring a target into force again.                             *)
(***************************************************************************)
NoOrphan ==
  /\ \A j, k \in 1 .. Len(calculation) :
       calculation[j].review = "PENDING" /\ calculation[k].review = "PENDING" => j = k
  /\ binding.status = "CALCULATING" =>
       \E k \in 1 .. Len(calculation) :
         calculation[k].status \in Live /\ calculation[k].binding = binding.version

(***************************************************************************)
(* Every calculation comes to an end, if one attempt is not lost: neither  *)
(* the deadlock with a review nor an overlapping execution stops it, and   *)
(* there is always again a time when none is under way.                    *)
(***************************************************************************)
CalculationsEnd ==
  []<>(\A k \in DOMAIN calculation : calculation[k].status \notin Live)

\* What signals see of the binding.
Offered ==
  [usable   |-> binding.status \in {"READY", "STALE"},
   version  |-> binding.version - 1,
   revision |-> binding.current]

Promise == INSTANCE TargetInForce WITH
  MaxTarget <- MaxRevisions + MaxCalculations + 1,
  target <- Offered

(***************************************************************************)
(* The code implements the promise made to signals: a version of the       *)
(* binding stands for one revision.                                        *)
(***************************************************************************)
ImplementsPromise == Promise!TargetSpec

(***************************************************************************)
(* The requirement that the old target stays in force while a change to it *)
(* waits for review.                                                       *)
(***************************************************************************)
OldTargetServes ==
  \A k \in DOMAIN calculation :
    calculation[k].review = "PENDING" /\ binding.current = calculation[k].base
      => binding.status \in {"READY", "STALE"}
=============================================================================
