------------------------ MODULE NotificationDelivery ------------------------
(***************************************************************************)
(* One notification channel of backend/src/long_invest/modules/            *)
(* notifications: its deliveries, the circuit that guards it, the          *)
(* background workers that run process_once (runtime.py), publishers,      *)
(* circuit probes and the administrator.  Processes overlap when one       *)
(* replaces another.                                                       *)
(*                                                                         *)
(* process_once records the result of a send in a transaction of its own,  *)
(* but hands the circuit a repository whose session has been closed.  That *)
(* session starts another transaction, takes the lock of the circuit's     *)
(* row, and nobody ever commits it: what it wrote is rolled back, and the  *)
(* lock is freed, when the session is garbage collected.  `leak` is the    *)
(* worker whose transaction is hanging.  If the circuit's change touches   *)
(* the very delivery whose result is being recorded, the second            *)
(* transaction waits for the row lock of the first, and the first for the  *)
(* worker, which waits for the second: the worker is stuck.                *)
(*                                                                         *)
(* Times are kept as what they decide: whether a lease is alive, whether   *)
(* next_retry_at and circuit_deferred_until are set and have come.  At     *)
(* most twenty leases are recovered by a scan; instances have fewer        *)
(* deliveries.  The channel adapters are trusted to report an unknown      *)
(* outcome whenever the message may have arrived, and closing their client *)
(* does not fail.                                                          *)
(***************************************************************************)
EXTENDS Naturals, FiniteSets

CONSTANTS
  Delivery,           \* rows of notification_delivery of this channel
  Worker,             \* executions of process_once that may overlap
  Prober,             \* requests to probe the channel
  MaxRequests,        \* RetryPolicy.max_requests
  MaxProbes           \* bound on probes

ASSUME NotificationDeliveryAssumption ==
  /\ MaxRequests \in Nat \ {0}
  /\ MaxProbes \in Nat
  /\ IsFiniteSet(Delivery)

VARIABLES
  delivery,           \* the rows
  circuit,            \* the row of notification_channel_circuit
  leak,               \* whose unfinished transaction locks the circuit
  worker, prober,     \* local state of the processes
  probes,             \* probe tokens drawn so far
  sent,               \* history: claims under which a request was made
  reached,            \* history: those whose message may have arrived
  streak              \* history: failed results recorded since the last
                      \* success, probe or reset, counted up to three

vars == <<delivery, circuit, leak, worker, prober, probes, sent, reached, streak>>
history == <<sent, reached, streak>>

UpToThree(n) == IF n < 3 THEN n ELSE 3

NoToken == 0
NoOne == "no one"

\* Before it is inserted a delivery is absent, or drafted by a publisher that
\* has read the circuit as closed or as open.
Unpublished == {"ABSENT", "DRAFT_CLOSED", "DRAFT_OPEN"}
Skipped == {"SKIPPED_DISABLED", "SKIPPED_INELIGIBLE"}
Status == Unpublished \cup Skipped \cup
          {"PENDING", "SENDING", "SENT", "RETRY_WAIT", "OUTCOME_UNKNOWN",
           "FAILED", "CANCELED"}
Outcome == {"SUCCESS", "TEMPORARY_FAILURE", "PERMANENT_FAILURE", "OUTCOME_UNKNOWN"}

Row == [status   : Status,
        attempts : Nat,             \* attempt_count
        unknowns : {0, 1},          \* unknown_compensation_count
        claims   : Nat,             \* claims so far; numbers the lease tokens
        token    : Nat,             \* lease_token
        alive    : BOOLEAN,         \* lease_expires_at is still to come
        wait     : {"due", "later", "never"},    \* next_retry_at
        deferred : {"past", "later", "never"}]   \* circuit_deferred_until

NewRow == [status |-> "ABSENT", attempts |-> 0, unknowns |-> 0, claims |-> 0,
           token |-> NoToken, alive |-> FALSE, wait |-> "never",
           deferred |-> "never"]

Circuit == [state: {"CLOSED", "OPEN", "HALF_OPEN"}, failures: Nat, level: 0 .. 2,
            cooling: BOOLEAN, probe: Nat]
Closed == [state |-> "CLOSED", failures |-> 0, level |-> 0, cooling |-> FALSE,
           probe |-> NoToken]

(***************************************************************************)
(* RetryPolicy.decide and _record_locked_result.                           *)
(***************************************************************************)
\* Faulty variants: the budget allows one more request; unknown outcomes are
\* compensated without being counted.
DecisionOneMore(outcome, count, unknowns) ==
  CASE outcome = "SUCCESS" -> "SENT"
    [] outcome = "PERMANENT_FAILURE" -> "FAIL"
    [] outcome = "OUTCOME_UNKNOWN" ->
         IF unknowns = 1 \/ count > MaxRequests THEN "KEEP_UNKNOWN" ELSE "RETRY"
    [] outcome = "TEMPORARY_FAILURE" ->
         IF unknowns = 1 \/ count > MaxRequests THEN "FAIL" ELSE "RETRY"
DecisionUncounted(outcome, count, unknowns) ==
  CASE outcome = "SUCCESS" -> "SENT"
    [] outcome = "PERMANENT_FAILURE" -> "FAIL"
    [] outcome = "OUTCOME_UNKNOWN" ->
         IF count >= MaxRequests THEN "KEEP_UNKNOWN" ELSE "RETRY"
    [] outcome = "TEMPORARY_FAILURE" ->
         IF count >= MaxRequests THEN "FAIL" ELSE "RETRY"

Decision(outcome, count, unknowns) ==
  CASE outcome = "SUCCESS" -> "SENT"
    [] outcome = "PERMANENT_FAILURE" -> "FAIL"
    [] outcome = "OUTCOME_UNKNOWN" ->
         IF unknowns = 1 \/ count >= MaxRequests THEN "KEEP_UNKNOWN" ELSE "RETRY"
    [] outcome = "TEMPORARY_FAILURE" ->
         IF unknowns = 1 \/ count >= MaxRequests THEN "FAIL" ELSE "RETRY"

Recorded(r, outcome) ==
  LET decision == Decision(outcome, r.attempts + 1, r.unknowns)
      unknown == outcome = "OUTCOME_UNKNOWN"
  IN  [r EXCEPT
        !.status = CASE decision = "SENT" -> "SENT"
                     [] decision = "FAIL" -> "FAILED"
                     [] decision = "KEEP_UNKNOWN" -> "OUTCOME_UNKNOWN"
                     [] decision = "RETRY" -> IF unknown THEN "OUTCOME_UNKNOWN"
                                                         ELSE "RETRY_WAIT",
        !.wait = IF decision = "RETRY" THEN "later" ELSE "never",
        !.unknowns = IF decision = "RETRY" /\ unknown THEN 1 ELSE @,
        !.attempts = @ + 1, !.token = NoToken, !.alive = FALSE]

Claimable(r) ==
  /\ r.deferred # "later"
  /\ \/ r.status = "PENDING"
     \/ r.status \in {"RETRY_WAIT", "OUTCOME_UNKNOWN"} /\ r.wait = "due"

Claimed(r) ==
  [r EXCEPT !.status = "SENDING", !.claims = @ + 1, !.token = r.claims + 1,
            !.alive = TRUE]

Expired(r) == r.status = "SENDING" /\ ~r.alive

\* Faulty variant: any worker may end a send that is under way.
HoldsAny(r, token) == r.status = "SENDING"

\* The token is checked, the time is not: a late result is accepted as long as
\* no one has recovered the delivery.
Holds(r, token) == r.status = "SENDING" /\ r.token = token

(***************************************************************************)
(* The circuit, and what its changes do to waiting deliveries.             *)
(***************************************************************************)
\* Faulty variants: the cooldown level is not bounded; the circuit opens one
\* failure too late.
CircuitFailedLevels(c) ==
  CASE c.state = "HALF_OPEN" ->
         [c EXCEPT !.state = "OPEN", !.failures = 3, !.level = @ + 1,
                   !.cooling = TRUE]
    [] c.state # "HALF_OPEN" /\ c.failures + 1 < 3 ->
         [Closed EXCEPT !.failures = c.failures + 1]
    [] c.state # "HALF_OPEN" /\ c.failures + 1 >= 3 ->
         [c EXCEPT !.state = "OPEN", !.failures = @ + 1, !.cooling = TRUE]
CircuitFailedOneMore(c) ==
  CASE c.state = "HALF_OPEN" ->
         [c EXCEPT !.state = "OPEN", !.failures = 3,
                   !.level = IF @ < 2 THEN @ + 1 ELSE 2, !.cooling = TRUE]
    [] c.state # "HALF_OPEN" /\ c.failures < 3 ->
         [Closed EXCEPT !.failures = c.failures + 1]
    [] c.state # "HALF_OPEN" /\ c.failures >= 3 ->
         [c EXCEPT !.state = "OPEN", !.failures = @ + 1, !.cooling = TRUE]

CircuitFailed(c) ==
  CASE c.state = "HALF_OPEN" ->
         [c EXCEPT !.state = "OPEN", !.failures = 3,
                   !.level = IF @ < 2 THEN @ + 1 ELSE 2, !.cooling = TRUE]
    [] c.state # "HALF_OPEN" /\ c.failures + 1 < 3 ->
         [Closed EXCEPT !.failures = c.failures + 1]
    [] c.state # "HALF_OPEN" /\ c.failures + 1 >= 3 ->
         [c EXCEPT !.state = "OPEN", !.failures = @ + 1, !.cooling = TRUE]

CircuitSucceeded(c) == IF c.state = "OPEN" THEN c ELSE Closed

Waiting == {"PENDING", "RETRY_WAIT", "OUTCOME_UNKNOWN"}

Deferred(r) ==
  CASE r.status = "PENDING" ->
         [r EXCEPT !.status = "RETRY_WAIT", !.wait = "later", !.deferred = "later"]
    [] r.status \in {"RETRY_WAIT", "OUTCOME_UNKNOWN"} ->
         [r EXCEPT !.deferred = "later"]
    [] r.status \notin Waiting -> r

\* A RETRY_WAIT without an attempt is there because of the circuit.
Released(r) ==
  IF r.status = "RETRY_WAIT" /\ r.attempts = 0
  THEN [r EXCEPT !.status = "PENDING", !.wait = "never", !.deferred = "never"]
  ELSE [r EXCEPT !.deferred = "never"]

DeferAll(rows) == [d \in Delivery |-> Deferred(rows[d])]
ReleaseAll(rows) == [d \in Delivery |-> Released(rows[d])]

\* Faulty variant: an outdated probe, or none, may answer for the circuit.
AnswersAnyProbe(c, token) == TRUE

\* While half open the circuit listens to the latest probe only.
Answers(c, token) == c.state # "HALF_OPEN" \/ c.probe = token

\* record_result: `counts` says that the result is a success or that its code is
\* not one that is excluded.
Told(c, counts, token) == Answers(c, token) /\ (counts \/ token # NoToken)

Updated(c, outcome) ==
  [IF outcome = "SUCCESS" THEN CircuitSucceeded(c) ELSE CircuitFailed(c)
     EXCEPT !.probe = NoToken]

\* Its effect on the pair of the circuit and the deliveries.
ResultRecorded(pair, outcome, counts, token) ==
  LET c == Updated(pair.circuit, outcome)
  IN  IF ~Told(pair.circuit, counts, token)
      THEN pair
      ELSE [circuit |-> c,
            rows |-> CASE c.state = "OPEN" -> DeferAll(pair.rows)
                       [] c.state = "CLOSED" -> ReleaseAll(pair.rows)]

\* It writes to this row.
Touches(c, r, result) ==
  /\ Told(c, result.counts, NoToken)
  /\ \/ Updated(c, result.outcome).state = "OPEN" /\ r.status \in Waiting
     \/ Updated(c, result.outcome).state = "CLOSED" /\ r.deferred # "never"

(***************************************************************************)
(* The processes.                                                          *)
(***************************************************************************)
NoResult == [outcome |-> "SUCCESS", counts |-> TRUE]
Result == [outcome: Outcome, counts: BOOLEAN]

Scanning == [pc |-> "scan", job |-> CHOOSE d \in Delivery : TRUE,
             token |-> NoToken, result |-> NoResult]
NotProbing == [probing |-> FALSE, token |-> NoToken]

Init ==
  /\ delivery = [d \in Delivery |-> NewRow]
  /\ circuit = Closed
  /\ leak = NoOne
  /\ worker = [w \in Worker |-> Scanning]
  /\ prober = [p \in Prober |-> NotProbing]
  /\ probes = 0
  /\ sent = [d \in Delivery |-> {}]
  /\ reached = [d \in Delivery |-> {}]
  /\ streak = 0

\* The row of the circuit can be locked.
Unlocked == leak = NoOne

\* publish reads the circuit without locking it and commits later.
Draft(d) ==
  /\ delivery[d].status = "ABSENT"
  /\ delivery' = [delivery EXCEPT ![d].status =
       IF circuit.state = "CLOSED" THEN "DRAFT_CLOSED" ELSE "DRAFT_OPEN"]
  /\ UNCHANGED <<circuit, leak, worker, prober, probes, history>>

Persist(d) ==
  /\ \/ /\ delivery[d].status = "DRAFT_CLOSED"
        /\ delivery' = [delivery EXCEPT ![d].status = "PENDING"]
     \/ /\ delivery[d].status = "DRAFT_OPEN"
        /\ delivery' = [delivery EXCEPT ![d].status = "RETRY_WAIT",
                                        ![d].wait = "later", ![d].deferred = "later"]
  /\ UNCHANGED <<circuit, leak, worker, prober, probes, history>>

\* What a number of failures in a row make of the circuit and the deliveries.
AfterFailures(pair, number) ==
  LET after[n \in 0 .. number] ==
        IF n = 0 THEN pair
        ELSE ResultRecorded(after[n - 1], "OUTCOME_UNKNOWN", TRUE, NoToken)
  IN  after[number]

\* Faulty variant: expired leases are left alone.
AfterRecoveryNone == [circuit |-> circuit, rows |-> delivery]

\* Expired leases are recovered, and each counts as a failure of the channel.
AfterRecovery ==
  LET expired == {d \in Delivery : Expired(delivery[d])}
      rows == [d \in Delivery |->
                 IF d \in expired THEN Recorded(delivery[d], "OUTCOME_UNKNOWN")
                                  ELSE delivery[d]]
  IN  AfterFailures([circuit |-> circuit, rows |-> rows], Cardinality(expired))

\* The first transaction of process_once: recover, ask the circuit, claim.
Scan(w) ==
  LET next == AfterRecovery
      recovered == Cardinality({d \in Delivery : Expired(delivery[d])})
      claimable == {d \in Delivery : Claimable(next.rows[d])}
  IN
  /\ worker[w].pc = "scan" /\ Unlocked
  /\ circuit' = next.circuit
  /\ \/ /\ next.circuit.state # "CLOSED"
        /\ delivery' = DeferAll(next.rows)
        /\ UNCHANGED worker
     \/ /\ next.circuit.state = "CLOSED" /\ claimable = {}
        /\ delivery' = next.rows
        /\ UNCHANGED worker
     \/ /\ next.circuit.state = "CLOSED"
        /\ \E d \in claimable :
             /\ delivery' = [next.rows EXCEPT ![d] = Claimed(@)]
             /\ worker' = [worker EXCEPT ![w] =
                  [pc |-> "claimed", job |-> d, token |-> next.rows[d].claims + 1,
                   result |-> NoResult]]
  /\ streak' = UpToThree(streak + recovered)
  /\ UNCHANGED <<leak, prober, probes, sent, reached>>

\* The event was canceled, the channel or the recipient changed, or the holding
\* was sold.
Skip(w) ==
  LET d == worker[w].job IN
  /\ worker[w].pc = "claimed"
  /\ worker' = [worker EXCEPT ![w] = Scanning]
  /\ IF Holds(delivery[d], worker[w].token)
     THEN \E status \in Skipped \cup {"CANCELED"} :
            delivery' = [delivery EXCEPT ![d].status = status, ![d].wait = "never",
                                         ![d].token = NoToken, ![d].alive = FALSE]
     ELSE UNCHANGED delivery
  /\ UNCHANGED <<circuit, leak, prober, probes, history>>

Streak(result) ==
  CASE result.outcome = "SUCCESS" -> 0
    [] result.outcome # "SUCCESS" /\ result.counts -> UpToThree(streak + 1)
    [] result.outcome # "SUCCESS" /\ ~result.counts -> streak

\* The channel cannot be built: _record_build_failure records the result and
\* tells the circuit in one transaction.
BuildFailure(w) ==
  LET d == worker[w].job IN
  /\ worker[w].pc = "claimed" /\ Unlocked
  /\ \E result \in {[outcome |-> "PERMANENT_FAILURE", counts |-> FALSE],
                    [outcome |-> "TEMPORARY_FAILURE", counts |-> TRUE]} :
       LET rows == IF Holds(delivery[d], worker[w].token)
                   THEN [delivery EXCEPT ![d] = Recorded(@, result.outcome)]
                   ELSE delivery
           next == ResultRecorded([circuit |-> circuit, rows |-> rows],
                                  result.outcome, result.counts, NoToken)
       IN  /\ delivery' = next.rows
           /\ circuit' = next.circuit
           /\ streak' = Streak(result)
  /\ worker' = [worker EXCEPT ![w] = Scanning]
  /\ UNCHANGED <<leak, prober, probes, sent, reached>>

\* The message is sent, whatever has become of the lease; a template that
\* cannot be rendered fails before that, with an excluded code.
Send(w) ==
  LET d == worker[w].job
      token == worker[w].token
  IN
  /\ worker[w].pc = "claimed"
  /\ \/ \E outcome \in Outcome :
          /\ worker' = [worker EXCEPT ![w].pc = "sent",
               ![w].result = [outcome |-> outcome, counts |-> TRUE]]
          /\ sent' = [sent EXCEPT ![d] = @ \cup {token}]
          /\ reached' = [reached EXCEPT ![d] =
               IF outcome \in {"SUCCESS", "OUTCOME_UNKNOWN"} THEN @ \cup {token} ELSE @]
     \/ /\ worker' = [worker EXCEPT ![w].pc = "sent",
             ![w].result = [outcome |-> "PERMANENT_FAILURE", counts |-> FALSE]]
        /\ UNCHANGED <<sent, reached>>
  /\ UNCHANGED <<delivery, circuit, leak, prober, probes, streak>>

\* The last transaction of process_once.  It ends after the circuit has been
\* told through the closed session, which needs the circuit's lock and keeps it.
Record(w) ==
  LET d == worker[w].job
      result == worker[w].result
      stumbles == Touches(circuit, delivery[d], result)
  IN
  /\ worker[w].pc = "sent" /\ Unlocked
  /\ leak' = w
  /\ \/ /\ ~stumbles
        /\ delivery' = IF Holds(delivery[d], worker[w].token)
                       THEN [delivery EXCEPT ![d] = Recorded(@, result.outcome)]
                       ELSE delivery
        /\ streak' = Streak(result)
        /\ worker' = [worker EXCEPT ![w] = Scanning]
     \/ /\ stumbles
        /\ worker' = [worker EXCEPT ![w].pc = "stuck"]
        /\ UNCHANGED <<delivery, streak>>
  /\ UNCHANGED <<circuit, prober, probes, sent, reached>>

\* A transaction fails: the loop logs it and scans again.
Lose(w) ==
  /\ worker[w].pc \in {"claimed", "sent"}
  /\ worker' = [worker EXCEPT ![w] = Scanning]
  /\ UNCHANGED <<delivery, circuit, leak, prober, probes, history>>

Crash(w) ==
  /\ worker[w].pc # "scan" \/ leak = w
  /\ worker' = [worker EXCEPT ![w] = Scanning]
  /\ leak' = IF leak = w THEN NoOne ELSE leak
  /\ UNCHANGED <<delivery, circuit, prober, probes, history>>

\* The abandoned session is garbage collected, unless the worker is still in it.
Collect ==
  /\ leak # NoOne /\ worker[leak].pc # "stuck"
  /\ leak' = NoOne
  /\ UNCHANGED <<delivery, circuit, worker, prober, probes, history>>

(***************************************************************************)
(* Probes, reset and cancel by the administrator.                          *)
(***************************************************************************)
Grant(p) ==
  /\ ~prober[p].probing /\ Unlocked /\ probes < MaxProbes
  /\ \/ circuit.state = "HALF_OPEN"
     \/ circuit.state = "OPEN" /\ ~circuit.cooling
  /\ probes' = probes + 1
  /\ circuit' = [circuit EXCEPT !.state = "HALF_OPEN", !.probe = probes + 1]
  /\ prober' = [prober EXCEPT ![p] = [probing |-> TRUE, token |-> probes + 1]]
  /\ UNCHANGED <<delivery, leak, worker, history>>

Probe(p) ==
  /\ prober[p].probing /\ Unlocked
  /\ \E outcome \in Outcome :
       LET next == ResultRecorded([circuit |-> circuit, rows |-> delivery],
                                  outcome, TRUE, prober[p].token)
       IN  circuit' = next.circuit /\ delivery' = next.rows
  /\ prober' = [prober EXCEPT ![p] = NotProbing]
  /\ streak' = 0
  /\ UNCHANGED <<leak, worker, probes, sent, reached>>

ProbeLost(p) ==
  /\ prober[p].probing
  /\ prober' = [prober EXCEPT ![p] = NotProbing]
  /\ UNCHANGED <<delivery, circuit, leak, worker, probes, history>>

Reset ==
  /\ Unlocked
  /\ circuit' = Closed
  /\ delivery' = ReleaseAll(delivery)
  /\ streak' = 0
  /\ UNCHANGED <<leak, worker, prober, probes, sent, reached>>

Cancel(d) ==
  /\ delivery[d].status \in {"PENDING", "RETRY_WAIT"}
  /\ delivery' = [delivery EXCEPT ![d].status = "CANCELED", ![d].wait = "never"]
  /\ UNCHANGED <<circuit, leak, worker, prober, probes, history>>

(***************************************************************************)
(* Time passes.                                                            *)
(***************************************************************************)
LeaseEnds(d) ==
  /\ delivery[d].status = "SENDING" /\ delivery[d].alive
  /\ delivery' = [delivery EXCEPT ![d].alive = FALSE]
  /\ UNCHANGED <<circuit, leak, worker, prober, probes, history>>

WaitEnds(d) ==
  /\ delivery[d].wait = "later"
  /\ delivery' = [delivery EXCEPT ![d].wait = "due"]
  /\ UNCHANGED <<circuit, leak, worker, prober, probes, history>>

DeferralEnds(d) ==
  /\ delivery[d].deferred = "later"
  /\ delivery' = [delivery EXCEPT ![d].deferred = "past"]
  /\ UNCHANGED <<circuit, leak, worker, prober, probes, history>>

CooldownEnds ==
  /\ circuit.cooling
  /\ circuit' = [circuit EXCEPT !.cooling = FALSE]
  /\ UNCHANGED <<delivery, leak, worker, prober, probes, history>>

WorkerStep(w) == Scan(w) \/ Skip(w) \/ BuildFailure(w) \/ Send(w) \/ Record(w)
TimePasses(d) == LeaseEnds(d) \/ WaitEnds(d) \/ DeferralEnds(d)

Next ==
  \/ \E d \in Delivery : Draft(d) \/ Persist(d) \/ Cancel(d) \/ TimePasses(d)
  \/ \E w \in Worker : WorkerStep(w) \/ Lose(w) \/ Crash(w)
  \/ \E p \in Prober : Grant(p) \/ Probe(p) \/ ProbeLost(p)
  \/ Collect \/ Reset \/ CooldownEnds

\* The channel's loop goes on, abandoned sessions are collected and time
\* passes; probes, resets and publications are never owed.
Fairness ==
  /\ \A w \in Worker : WF_vars(WorkerStep(w))
  /\ \A d \in Delivery : WF_vars(LeaseEnds(d)) /\ WF_vars(WaitEnds(d))
                         /\ WF_vars(DeferralEnds(d))
  /\ WF_vars(Collect)

Spec == Init /\ [][Next]_vars
FairSpec == Spec /\ Fairness

-----------------------------------------------------------------------------
(* Properties. *)

\* Types of the rows, the circuit and the processes' local state.
TypeOK ==
  /\ delivery \in [Delivery -> Row]
  /\ circuit \in Circuit
  /\ leak \in Worker \cup {NoOne}
  /\ worker \in [Worker -> [pc: {"scan", "claimed", "sent", "stuck"}, job: Delivery,
                            token: Nat, result: Result]]
  /\ prober \in [Prober -> [probing: BOOLEAN, token: Nat]]
  /\ probes \in Nat
  /\ sent \in [Delivery -> SUBSET Nat]
  /\ reached \in [Delivery -> SUBSET Nat]
  /\ streak \in 0 .. 3

(***************************************************************************)
(* A delivery makes MaxRequests requests at most, over crashes, lost       *)
(* results and workers that send after their lease ended; and the policy   *)
(* is never asked about a request beyond that, which it answers with an    *)
(* exception that would undo the record every time.                        *)
(***************************************************************************)
RequestBudget ==
  \A d \in Delivery :
    /\ delivery[d].claims <= MaxRequests
    /\ sent[d] \subseteq 1 .. delivery[d].claims

(***************************************************************************)
(* The receiver sees a message at most twice: after a request that may     *)
(* have arrived there is one compensation, and none after a success.       *)
(***************************************************************************)
DuplicateLimit == \A d \in Delivery : Cardinality(reached[d]) <= 2

(***************************************************************************)
(* The final status tells what became of the last request, not of an older *)
(* one whose worker came late: SENT means that it reached the receiver,    *)
(* FAILED that it did not.                                                 *)
(***************************************************************************)
LastRequestDecides ==
  \A d \in Delivery :
    /\ delivery[d].status = "SENT" => delivery[d].claims \in reached[d]
    /\ delivery[d].status = "FAILED" => delivery[d].claims \notin reached[d]

(***************************************************************************)
(* The circuit row is one of the states the code means: closed with fewer  *)
(* than three failures, open after three, half open with a probe that will *)
(* be believed.  A half open circuit without a probe could not be told.    *)
(***************************************************************************)
CircuitSound ==
  /\ circuit.state = "CLOSED" => circuit.failures < 3 /\ circuit.level = 0
  /\ circuit.state = "OPEN" => circuit.failures >= 3
  /\ circuit.state = "HALF_OPEN" <=> circuit.probe # NoToken
  /\ circuit.cooling => circuit.state = "OPEN"

(***************************************************************************)
(* Only the latest probe, or a reset, takes the circuit out of half open:  *)
(* neither results that were under way nor probes that were overtaken.     *)
(***************************************************************************)
LatestProbeDecides ==
  [][circuit.state = "HALF_OPEN" /\ circuit'.state # "HALF_OPEN"
       => \/ circuit' = Closed /\ UNCHANGED prober
          \/ \E p \in Prober : /\ prober[p].token = circuit.probe
                               /\ prober'[p] # prober[p]]_vars

(***************************************************************************)
(* The design document's rule: every task has a timeout.  No worker waits  *)
(* for ever, here for a lock that its own transaction holds.               *)
(***************************************************************************)
NeverStuck == \A w \in Worker : worker[w].pc # "stuck"

(***************************************************************************)
(* Every delivery comes to an end, unless the circuit holds it back or the *)
(* channel's worker is stuck.                                              *)
(***************************************************************************)
Settled(r) ==
  \/ r.status \in Skipped \cup {"SENT", "FAILED", "CANCELED"}
  \/ r.status = "OUTCOME_UNKNOWN" /\ r.wait = "never"

DeliveriesSettle ==
  \A d \in Delivery :
    delivery[d].status = "PENDING"
      ~> Settled(delivery[d]) \/ circuit.state # "CLOSED" \/ ~NeverStuck

(***************************************************************************)
(* The design document's rule: three failures in a row open the circuit.   *)
(***************************************************************************)
ThreeFailuresOpen == streak >= 3 => circuit.state # "CLOSED"

\* The requests of a delivery stay within the budget, those that may reach the
\* recipient twice within the compensation, and the circuit opens at three.
DeliverySound == RequestBudget /\ DuplicateLimit /\ CircuitSound
=============================================================================
