--------------------------- MODULE DeliveryProofs ---------------------------
(***************************************************************************)
(* Theorems about the deliveries of a notification channel                 *)
(* (NotificationDelivery), for any numbers of deliveries, workers and      *)
(* probes: the requests and duplicates of a delivery are bounded, its      *)
(* final status tells what became of its last request, and only the latest *)
(* probe or a reset ends the half open state of the circuit.  And about    *)
(* the circuit of a data source (ProviderCircuit), for any number of       *)
(* callers: stale snapshots leave it in a state the code means.            *)
(*                                                                         *)
(* The inductive invariant follows the claims of a delivery.  A claim is   *)
(* live as long as its message may have arrived or a worker still carries  *)
(* it; at most two claims of a delivery are live, the last and the one     *)
(* that was compensated, and a delivery that waits for a first request or  *)
(* after a failure has none.  The number of leases that a scan recovers is *)
(* arbitrary, so the effect of that many failures on the circuit is shown  *)
(* by induction, which is itself proved below from the pigeonhole          *)
(* principle: the library states it for operators only.                    *)
(***************************************************************************)
EXTENDS MCCircuits, FiniteSetTheorems, TLAPS

(***************************************************************************)
(* The inductive invariant.                                                *)
(***************************************************************************)
\* The state's types.  A worker that does not hold a delivery is scanning.
DeliveryTyped ==
  /\ delivery \in [Delivery -> Row]
  /\ circuit \in Circuit
  /\ worker \in [Worker -> {Scanning} \cup
                 [pc: {"claimed", "sent", "stuck"}, job: Delivery, token: Nat,
                  result: Result]]
  /\ prober \in [Prober -> [probing: BOOLEAN, token: Nat]]
  /\ probes \in Nat
  /\ sent \in [Delivery -> SUBSET Nat]
  /\ reached \in [Delivery -> SUBSET Nat]

\* The delivery may be claimed, now or once the circuit or time allows it.
Open(r) ==
  \/ r.status \in Unpublished \cup {"PENDING", "RETRY_WAIT"}
  \/ r.status = "OUTCOME_UNKNOWN" /\ r.wait # "never"

\* The counters of a row: one attempt is recorded per claim, except the last.
Counted(r) ==
  /\ r.claims <= MaxRequests
  /\ Open(r) => r.attempts = r.claims /\ r.claims < MaxRequests
  /\ r.status = "SENDING" => r.claims = r.attempts + 1 /\ r.token = r.claims
  /\ r.status \in Unpublished => r.claims = 0
  /\ r.status \in {"PENDING", "RETRY_WAIT"} \cup Unpublished => r.unknowns = 0

\* The workers that hold a claim of the delivery.
Carriers(d) == {w \in Worker : worker[w].pc # "scan" /\ worker[w].job = d}

\* No two of them hold the same claim.
OneCarrier ==
  \A d \in Delivery : \A v, w \in Carriers(d) :
    worker[v].token = worker[w].token => v = w

\* The claims under which a message may have arrived, or still may.
Live(d) == reached[d] \cup {worker[w].token : w \in Carriers(d)}

\* Which claims are live: none while the delivery can be claimed a first time
\* or after a failure; the last one before the compensation; it and the one
\* before it after.
LiveClaims(r, live) ==
  \A n \in live :
    /\ n \in 1 .. r.claims
    /\ r.unknowns = 0 => n = r.claims
    /\ r.unknowns = 1 => n \in {r.claims - 1, r.claims}
    /\ Open(r) => r.unknowns = 1 /\ r.status = "OUTCOME_UNKNOWN" /\ n = r.claims

\* The last claim of a delivery that is SENT arrived, and that of one that
\* FAILED did not and will not.
StatusTrue(r, arrived, live) ==
  /\ r.status = "SENT" => r.claims \in arrived
  /\ r.status = "FAILED" => r.claims \notin live

RowTrue(r, asked, arrived, live) ==
  /\ Counted(r)
  /\ LiveClaims(r, live)
  /\ StatusTrue(r, arrived, live)
  /\ asked \subseteq 1 .. r.claims

RowsTrue == \A d \in Delivery : RowTrue(delivery[d], sent[d], reached[d], Live(d))

\* What a worker is about to record is what became of its claim.
ResultTrue(held, arrived) ==
  /\ held.pc = "claimed" => held.token \notin arrived[held.job]
  /\ held.pc \in {"sent", "stuck"} =>
       /\ held.result.outcome = "SUCCESS" => held.token \in arrived[held.job]
       /\ held.result.outcome \in {"TEMPORARY_FAILURE", "PERMANENT_FAILURE"}
            => held.token \notin arrived[held.job]

ResultsTrue == \A w \in Worker : ResultTrue(worker[w], reached)

\* CircuitSound, of any circuit.
SoundCircuit(c) ==
  /\ c.state = "CLOSED" => c.failures < 3 /\ c.level = 0
  /\ c.state = "OPEN" => c.failures >= 3
  /\ c.state = "HALF_OPEN" <=> c.probe # NoToken
  /\ c.cooling => c.state = "OPEN"

DeliveryInv ==
  /\ DeliveryTyped
  /\ RowsTrue
  /\ OneCarrier
  /\ ResultsTrue
  /\ SoundCircuit(circuit)

(***************************************************************************)
(* Induction.                                                              *)
(***************************************************************************)
\* A set of naturals with 0 and the successors of its members has all of them:
\* otherwise the successor would map an initial part of it into less than itself.
LEMMA Induction ==
  ASSUME NEW S, 0 \in S, \A n \in Nat : n \in S => n + 1 \in S
  PROVE  \A n \in Nat : n \in S
<1>1. SUFFICES ASSUME NEW n \in Nat, n \notin S
               PROVE  FALSE
  OBVIOUS
<1> DEFINE reached0 == {i \in 0 .. n : i \in S}
           above == reached0 \ {0}
           shift == [i \in reached0 |-> i + 1]
<1>2. IsFiniteSet(reached0) /\ 0 \in reached0
  <2>1. IsFiniteSet(0 .. n)
    BY FS_Interval
  <2> QED BY <2>1, FS_Subset, <1>1
<1>3. IsFiniteSet(above) /\ Cardinality(above) = Cardinality(reached0) - 1
  BY <1>2, FS_RemoveElement
<1>4. shift \in Injection(reached0, above)
  <2>1. \A i \in reached0 : i + 1 \in above
    <3>1. TAKE i \in reached0
    <3>2. i \in Nat /\ i # n /\ i <= n
      BY <1>1
    <3> QED BY <3>2
  <2>2. \A i, j \in reached0 : i + 1 = j + 1 => i = j
    OBVIOUS
  <2> QED BY <2>1, <2>2 DEF Injection, IsInjective
<1>5. Cardinality(reached0) <= Cardinality(above)
  BY <1>3, <1>4, FS_Injection
<1>6. Cardinality(reached0) \in Nat
  BY <1>2, FS_CardinalityType
<1> HIDE DEF reached0, above
<1> QED BY <1>3, <1>5, <1>6

\* The recursive function in AfterFailures exists.
LEMMA FailuresChain ==
  ASSUME NEW pair, NEW number \in Nat
  PROVE  \E after :
           /\ after = [n \in 0 .. number |->
                 IF n = 0 THEN pair
                 ELSE ResultRecorded(after[n - 1], "OUTCOME_UNKNOWN", TRUE, NoToken)]
           /\ AfterFailures(pair, number) = after[number]
<1> DEFINE Step(p) == ResultRecorded(p, "OUTCOME_UNKNOWN", TRUE, NoToken)
           Chain(f, k) == f = [n \in 0 .. k |-> IF n = 0 THEN pair ELSE Step(f[n - 1])]
           Long == {k \in Nat : \E f : Chain(f, k)}
<1> HIDE DEF Step
<1>1. 0 \in Long
  <2>1. Chain([n \in 0 .. 0 |-> pair], 0)
    OBVIOUS
  <2> QED BY <2>1
<1>2. \A k \in Nat : k \in Long => k + 1 \in Long
  <2>1. SUFFICES ASSUME NEW k \in Nat, NEW f, Chain(f, k)
                 PROVE  \E g : Chain(g, k + 1)
    OBVIOUS
  <2> DEFINE g == [n \in 0 .. k + 1 |-> IF n <= k THEN f[n] ELSE Step(f[k])]
  <2>2. Chain(g, k + 1)
    <3>1. \A n \in 0 .. k + 1 : g[n] = IF n = 0 THEN pair ELSE Step(g[n - 1])
      <4>1. TAKE n \in 0 .. k + 1
      <4>2. CASE n = 0
        BY <2>1, <4>2
      <4>3. CASE n \in 1 .. k
        BY <2>1, <4>3
      <4>4. CASE n = k + 1
        BY <2>1, <4>4
      <4> QED BY <4>2, <4>3, <4>4
    <3> QED BY <3>1
  <2> QED BY <2>2
<1>3. \A k \in Nat : k \in Long
  <2> HIDE DEF Long
  <2> QED BY <1>1, <1>2, Induction
<1>4. \E f : Chain(f, number)
  BY <1>3
<1>5. AfterFailures(pair, number) = (CHOOSE f : Chain(f, number))[number]
  BY DEF AfterFailures, Step
<1> QED BY <1>4, <1>5 DEF Step

(***************************************************************************)
(* What the circuit does to the rows: it moves waiting deliveries between  *)
(* PENDING and RETRY_WAIT and changes when they are due, and nothing else. *)
(***************************************************************************)
Moved(r, s) ==
  /\ s \in Row
  /\ s.attempts = r.attempts /\ s.unknowns = r.unknowns
  /\ s.claims = r.claims /\ s.token = r.token
  /\ \/ s.status = r.status
     \/ {r.status, s.status} \subseteq {"PENDING", "RETRY_WAIT"}
  /\ s.status = "OUTCOME_UNKNOWN" => s.wait = r.wait

Pair == [circuit: Circuit, rows: [Delivery -> Row]]

\* Deferring and releasing move a row.
LEMMA CircuitMovesRow ==
  ASSUME NEW r \in Row
  PROVE  Moved(r, Deferred(r)) /\ Moved(r, Released(r))
<1>1. Moved(r, Deferred(r))
  <2>1. CASE r.status = "PENDING"
    BY <2>1 DEF Moved, Deferred, Row, Status, Waiting
  <2>2. CASE r.status \in {"RETRY_WAIT", "OUTCOME_UNKNOWN"}
    BY <2>2 DEF Moved, Deferred, Row, Status, Waiting
  <2>3. CASE r.status \notin Waiting
    BY <2>3 DEF Moved, Deferred, Row, Waiting
  <2> QED BY <2>1, <2>2, <2>3 DEF Waiting
<1>2. Moved(r, Released(r))
  BY DEF Moved, Released, Row, Status
<1> QED BY <1>1, <1>2

LEMMA MovedOn ==
  ASSUME NEW r, NEW s, NEW t, Moved(r, s), Moved(s, t)
  PROVE  Moved(r, t)
BY DEF Moved

LEMMA MovedNot ==
  ASSUME NEW r \in Row
  PROVE  Moved(r, r)
BY DEF Moved

LEMMA FailedSound ==
  ASSUME NEW c \in Circuit, SoundCircuit(c)
  PROVE  LET u == CircuitFailed(c) IN
         /\ u \in Circuit /\ u.state \in {"OPEN", "CLOSED"}
         /\ u.state = "CLOSED" => u.failures < 3 /\ u.level = 0
         /\ u.state = "OPEN" => u.failures >= 3
         /\ u.cooling => u.state = "OPEN"
<1> DEFINE u == CircuitFailed(c)
           more == c.failures + 1
           higher == IF c.level < 2 THEN c.level + 1 ELSE 2
<1>0. more \in Nat /\ higher \in 0 .. 2
  BY DEF Circuit
<1>1. CASE c.state = "HALF_OPEN"
  <2>1. u = [c EXCEPT !.state = "OPEN", !.failures = 3, !.level = higher,
                      !.cooling = TRUE]
    BY <1>1 DEF CircuitFailed
  <2> HIDE DEF u, higher
  <2>2. u \in Circuit /\ u.state = "OPEN" /\ u.failures = 3
    BY <2>1, <1>0 DEF Circuit
  <2> QED BY <2>2 DEF u
<1>2. CASE c.state # "HALF_OPEN" /\ more < 3
  <2>0. ~(more >= 3)
    BY <1>0, <1>2
  <2>1. u = [Closed EXCEPT !.failures = more]
    BY <1>2, <2>0 DEF CircuitFailed
  <2> HIDE DEF u, more
  <2>2. u = [state |-> "CLOSED", failures |-> more, level |-> 0, cooling |-> FALSE,
             probe |-> 0]
    BY <2>1 DEF Closed, NoToken
  <2>3. u \in Circuit
    BY <2>2, <1>0 DEF Circuit
  <2> QED BY <2>2, <2>3, <1>2 DEF u
<1>3. CASE c.state # "HALF_OPEN" /\ more >= 3
  <2>0. ~(more < 3)
    BY <1>0, <1>3
  <2>1. u = [c EXCEPT !.state = "OPEN", !.failures = more, !.cooling = TRUE]
    BY <1>3, <2>0 DEF CircuitFailed
  <2> HIDE DEF u, more
  <2>2. u \in Circuit /\ u.state = "OPEN" /\ u.failures = more
    BY <2>1, <1>0 DEF Circuit
  <2> QED BY <2>2, <1>3 DEF u
<1>4. more < 3 \/ more >= 3
  BY <1>0
<1> QED BY <1>1, <1>2, <1>3, <1>4

LEMMA UpdatedSound ==
  ASSUME NEW c \in Circuit, SoundCircuit(c), NEW outcome \in Outcome
  PROVE  /\ Updated(c, outcome) \in Circuit
         /\ SoundCircuit(Updated(c, outcome))
         /\ Updated(c, outcome).state \in {"OPEN", "CLOSED"}
<1> DEFINE u == IF outcome = "SUCCESS" THEN CircuitSucceeded(c) ELSE CircuitFailed(c)
<1>1. /\ u \in Circuit /\ u.state \in {"OPEN", "CLOSED"}
      /\ u.state = "CLOSED" => u.failures < 3 /\ u.level = 0
      /\ u.state = "OPEN" => u.failures >= 3
      /\ u.cooling => u.state = "OPEN"
  <2>1. CASE outcome = "SUCCESS"
    BY <2>1 DEF CircuitSucceeded, Closed, Circuit, SoundCircuit, NoToken
  <2>2. CASE outcome # "SUCCESS"
    BY <2>2, FailedSound
  <2> QED BY <2>1, <2>2
<1>2. Updated(c, outcome) = [u EXCEPT !.probe = NoToken]
  BY DEF Updated
<1> HIDE DEF u
<1> QED BY <1>1, <1>2 DEF Circuit, SoundCircuit, NoToken

\* The result of a call is recorded in the circuit: a half open circuit listens
\* to its own probe only.
LEMMA ResultMoves ==
  ASSUME NEW pair \in Pair, SoundCircuit(pair.circuit), NEW outcome \in Outcome,
         NEW counts \in BOOLEAN, NEW token \in Nat
  PROVE  LET next == ResultRecorded(pair, outcome, counts, token) IN
         /\ next \in Pair
         /\ SoundCircuit(next.circuit)
         /\ \A d \in Delivery : Moved(pair.rows[d], next.rows[d])
         /\ pair.circuit.state = "HALF_OPEN" /\ pair.circuit.probe # token
              => next.circuit = pair.circuit
<1> DEFINE c == Updated(pair.circuit, outcome)
           next == ResultRecorded(pair, outcome, counts, token)
<1>1. c \in Circuit /\ SoundCircuit(c) /\ c.state \in {"OPEN", "CLOSED"}
  BY UpdatedSound DEF Pair
<1> HIDE DEF c
<1>2. CASE ~Told(pair.circuit, counts, token)
  <2>1. next = pair
    BY <1>2 DEF ResultRecorded
  <2> QED BY <2>1, MovedNot DEF Pair
<1>3. CASE Told(pair.circuit, counts, token)
  <2>1. ~(pair.circuit.state = "HALF_OPEN" /\ pair.circuit.probe # token)
    BY <1>3 DEF Told, Answers
  <2>2. CASE c.state = "OPEN"
    <3>1. next = [circuit |-> c, rows |-> DeferAll(pair.rows)]
      BY <1>3, <2>2 DEF ResultRecorded, c
    <3>2. \A d \in Delivery : Moved(pair.rows[d], next.rows[d])
      BY <3>1, CircuitMovesRow DEF DeferAll, Pair
    <3>3. next \in Pair
      BY <3>1, <3>2, <1>1 DEF DeferAll, Pair, Moved
    <3> QED BY <3>1, <3>2, <3>3, <1>1, <2>1
  <2>3. CASE c.state = "CLOSED"
    <3>1. next = [circuit |-> c, rows |-> ReleaseAll(pair.rows)]
      BY <1>3, <2>3 DEF ResultRecorded, c
    <3>2. \A d \in Delivery : Moved(pair.rows[d], next.rows[d])
      BY <3>1, CircuitMovesRow DEF ReleaseAll, Pair
    <3>3. next \in Pair
      BY <3>1, <3>2, <1>1 DEF ReleaseAll, Pair, Moved
    <3> QED BY <3>1, <3>2, <3>3, <1>1, <2>1
  <2> QED BY <1>1, <2>2, <2>3
<1> QED BY <1>2, <1>3

\* The same for any number of failures that carry no probe.
LEMMA FailuresMove ==
  ASSUME NEW pair \in Pair, SoundCircuit(pair.circuit), NEW number \in Nat
  PROVE  LET next == AfterFailures(pair, number) IN
         /\ next \in Pair
         /\ SoundCircuit(next.circuit)
         /\ \A d \in Delivery : Moved(pair.rows[d], next.rows[d])
         /\ pair.circuit.state = "HALF_OPEN" => next.circuit = pair.circuit
<1> DEFINE Step(p) == ResultRecorded(p, "OUTCOME_UNKNOWN", TRUE, NoToken)
           Good(p) == /\ p \in Pair
                      /\ SoundCircuit(p.circuit)
                      /\ \A d \in Delivery : Moved(pair.rows[d], p.rows[d])
                      /\ pair.circuit.state = "HALF_OPEN" => p.circuit = pair.circuit
<1>1. PICK after :
        /\ after = [n \in 0 .. number |-> IF n = 0 THEN pair ELSE Step(after[n - 1])]
        /\ AfterFailures(pair, number) = after[number]
  BY FailuresChain
<1>2. Good(pair)
  BY MovedNot DEF Pair
<1>3. \A p : Good(p) => Good(Step(p))
  <2>1. SUFFICES ASSUME NEW p, Good(p)
                 PROVE  Good(Step(p))
    OBVIOUS
  <2>2. /\ Step(p) \in Pair
        /\ SoundCircuit(Step(p).circuit)
        /\ \A d \in Delivery : Moved(p.rows[d], Step(p).rows[d])
        /\ p.circuit.state = "HALF_OPEN" /\ p.circuit.probe # NoToken
             => Step(p).circuit = p.circuit
    BY <2>1, ResultMoves DEF Outcome, NoToken
  <2>3. p.circuit.state = "HALF_OPEN" => p.circuit.probe # NoToken
    BY <2>1 DEF SoundCircuit
  <2> HIDE DEF Step
  <2> QED BY <2>1, <2>2, <2>3, MovedOn
<1> DEFINE Upto == {n \in Nat : n <= number => Good(after[n])}
<1> HIDE DEF Good, Step
<1>4. 0 \in Upto
  BY <1>1, <1>2
<1>5. \A n \in Nat : n \in Upto => n + 1 \in Upto
  <2>1. SUFFICES ASSUME NEW n \in Nat, n \in Upto, n + 1 <= number
                 PROVE  Good(after[n + 1])
    OBVIOUS
  <2>2. after[n + 1] = Step(after[n])
    BY <2>1, <1>1
  <2> QED BY <2>1, <2>2, <1>3
<1>6. number \in Upto
  <2> HIDE DEF Upto
  <2> QED BY <1>4, <1>5, Induction
<1>7. Good(after[number])
  BY <1>6
<1>8. Good(AfterFailures(pair, number))
  BY <1>1, <1>7, Zenon
<1> QED BY <1>8, Zenon DEF Good

(***************************************************************************)
(* What happens to one row keeps what is true of it.                       *)
(***************************************************************************)
LEMMA MovedKeeps ==
  ASSUME NEW r \in Row, NEW s, Moved(r, s), NEW asked, NEW arrived, NEW live,
         RowTrue(r, asked, arrived, live)
  PROVE  RowTrue(s, asked, arrived, live)
<1>1. s.status \in Unpublished => r.status = s.status
  BY DEF Moved, Unpublished
<1>2. Open(s) => Open(r)
  BY DEF Moved, Open, Unpublished
<1>3. Counted(s)
  BY <1>1, <1>2 DEF Moved, RowTrue, Counted, Unpublished
<1>4. LiveClaims(s, live)
  BY <1>2 DEF Moved, RowTrue, LiveClaims
<1>5. StatusTrue(s, arrived, live)
  BY DEF Moved, RowTrue, StatusTrue
<1> QED BY <1>3, <1>4, <1>5 DEF RowTrue, Moved

LEMMA FewerLive ==
  ASSUME NEW r, NEW asked, NEW arrived, NEW live, NEW fewer \in SUBSET live,
         RowTrue(r, asked, arrived, live)
  PROVE  RowTrue(r, asked, arrived, fewer)
BY DEF RowTrue, LiveClaims, StatusTrue

\* A request is made, and may arrive, under a claim that is live.
LEMMA SendKeeps ==
  ASSUME NEW r \in Row, NEW asked, NEW arrived, NEW live, NEW n \in live,
         NEW arrived2, arrived \subseteq arrived2,
         RowTrue(r, asked, arrived, live)
  PROVE  RowTrue(r, asked \cup {n}, arrived2, live)
<1>1. n \in 1 .. r.claims
  BY DEF RowTrue, LiveClaims
<1> QED BY <1>1 DEF RowTrue, StatusTrue

LEMMA ClaimKeeps ==
  ASSUME NEW r \in Row, Claimable(r), NEW asked, NEW arrived, NEW live,
         RowTrue(r, asked, arrived, live)
  PROVE  /\ Claimed(r) \in Row
         /\ RowTrue(Claimed(r), asked, arrived, live \cup {r.claims + 1})
         /\ r.claims + 1 \notin live
<1> DEFINE c == Claimed(r)
           next == r.claims + 1
<1>1. Open(r) /\ r.claims \in Nat /\ next \in Nat
  BY DEF Claimable, Open, Row
<1>2. r.attempts = r.claims /\ r.claims < MaxRequests
  BY <1>1 DEF RowTrue, Counted
<1>3. c = [r EXCEPT !.status = "SENDING", !.claims = next, !.token = next,
                    !.alive = TRUE]
  BY DEF Claimed
<1>4. \A n \in live : n = r.claims /\ n \in 1 .. r.claims /\ r.unknowns = 1
  BY <1>1 DEF RowTrue, LiveClaims
<1>5. asked \subseteq 1 .. r.claims
  BY DEF RowTrue
<1>6. next = r.claims + 1
  OBVIOUS
<1> HIDE DEF c, next
<1>7. c \in Row /\ c.status = "SENDING" /\ c.claims = next /\ c.token = next
      /\ c.attempts = r.attempts /\ c.unknowns = r.unknowns
  BY <1>1, <1>3 DEF Row, Status
<1>8. Counted(c)
  BY <1>1, <1>2, <1>6, <1>7, NotificationDeliveryAssumption
  DEF Counted, Open, Unpublished
<1>9. LiveClaims(c, live \cup {next})
  <2>1. SUFFICES ASSUME NEW n \in live \cup {next}
                 PROVE  /\ n \in 1 .. next
                        /\ r.unknowns = 0 => n = next
                        /\ r.unknowns = 1 => n \in {next - 1, next}
    BY <1>7 DEF LiveClaims, Open, Unpublished
  <2> QED BY <1>1, <1>4, <1>6
<1>10. StatusTrue(c, arrived, live \cup {next})
  BY <1>7 DEF StatusTrue
<1>11. asked \subseteq 1 .. next
  BY <1>1, <1>5, <1>6
<1>12. next \notin live
  BY <1>1, <1>4, <1>6
<1> QED BY <1>7, <1>8, <1>9, <1>10, <1>11, <1>12 DEF RowTrue, c, next

\* The result of the last claim is recorded.
LEMMA RecordKeeps ==
  ASSUME NEW r \in Row, r.status = "SENDING", NEW outcome \in Outcome,
         NEW asked, NEW arrived, NEW live, NEW fewer \in SUBSET live,
         RowTrue(r, asked, arrived, live),
         outcome = "SUCCESS" => r.claims \in arrived,
         outcome \in {"TEMPORARY_FAILURE", "PERMANENT_FAILURE"}
           => r.claims \notin fewer
  PROVE  /\ Recorded(r, outcome) \in Row
         /\ RowTrue(Recorded(r, outcome), asked, arrived, fewer)
<1> DEFINE s == Recorded(r, outcome)
           count == r.attempts + 1
           decision == Decision(outcome, count, r.unknowns)
           none == NoToken
<1>1. /\ r.attempts \in Nat /\ r.claims \in Nat /\ r.unknowns \in {0, 1}
      /\ r.claims <= MaxRequests /\ count = r.claims /\ count \in Nat
      /\ none \in Nat /\ MaxRequests \in Nat
  BY NotificationDeliveryAssumption DEF Row, RowTrue, Counted, NoToken
<1>2. /\ outcome = "SUCCESS" <=> decision = "SENT"
      /\ outcome = "PERMANENT_FAILURE" => decision = "FAIL"
      /\ outcome = "OUTCOME_UNKNOWN" =>
           decision = IF r.unknowns = 1 \/ count >= MaxRequests
                      THEN "KEEP_UNKNOWN" ELSE "RETRY"
      /\ outcome = "TEMPORARY_FAILURE" =>
           decision = IF r.unknowns = 1 \/ count >= MaxRequests
                      THEN "FAIL" ELSE "RETRY"
  BY DEF Decision, Outcome
<1>3. s = [r EXCEPT
        !.status = CASE decision = "SENT" -> "SENT"
                     [] decision = "FAIL" -> "FAILED"
                     [] decision = "KEEP_UNKNOWN" -> "OUTCOME_UNKNOWN"
                     [] decision = "RETRY" -> IF outcome = "OUTCOME_UNKNOWN"
                                              THEN "OUTCOME_UNKNOWN" ELSE "RETRY_WAIT",
        !.wait = IF decision = "RETRY" THEN "later" ELSE "never",
        !.unknowns = IF decision = "RETRY" /\ outcome = "OUTCOME_UNKNOWN" THEN 1 ELSE @,
        !.attempts = count, !.token = none, !.alive = FALSE]
  BY DEF Recorded
<1>4. \A n \in fewer : /\ n \in 1 .. r.claims
                       /\ r.unknowns = 0 => n = r.claims
                       /\ r.unknowns = 1 => n \in {r.claims - 1, r.claims}
  BY DEF RowTrue, LiveClaims
<1>5. asked \subseteq 1 .. r.claims
  BY DEF RowTrue
<1> HIDE DEF s, count, decision, none
<1>6. /\ s.claims = r.claims /\ s.attempts = count
      /\ s.status = CASE decision = "SENT" -> "SENT"
                      [] decision = "FAIL" -> "FAILED"
                      [] decision = "KEEP_UNKNOWN" -> "OUTCOME_UNKNOWN"
                      [] decision = "RETRY" -> IF outcome = "OUTCOME_UNKNOWN"
                                               THEN "OUTCOME_UNKNOWN" ELSE "RETRY_WAIT"
      /\ s.wait = IF decision = "RETRY" THEN "later" ELSE "never"
      /\ s.unknowns = IF decision = "RETRY" /\ outcome = "OUTCOME_UNKNOWN"
                      THEN 1 ELSE r.unknowns
  BY <1>3 DEF Row
<1>7. decision \in {"SENT", "FAIL", "KEEP_UNKNOWN", "RETRY"}
  BY <1>2 DEF Outcome
<1>8. s \in Row
  BY <1>1, <1>3, <1>7 DEF Row, Status
<1>9. Open(s) => /\ decision = "RETRY" /\ r.unknowns = 0 /\ count < MaxRequests
                 /\ outcome \in {"TEMPORARY_FAILURE", "OUTCOME_UNKNOWN"}
                 /\ s.status = IF outcome = "OUTCOME_UNKNOWN"
                               THEN "OUTCOME_UNKNOWN" ELSE "RETRY_WAIT"
  <2>1. Open(s) => decision = "RETRY"
    BY <1>6, <1>7 DEF Open, Unpublished
  <2> QED BY <2>1, <1>1, <1>2, <1>6 DEF Outcome
<1>10. s.status \in {"SENT", "FAILED", "OUTCOME_UNKNOWN", "RETRY_WAIT"}
  BY <1>6, <1>7
<1>11. Counted(s)
  BY <1>1, <1>6, <1>9, <1>10 DEF Counted, Unpublished, Open
<1>12. LiveClaims(s, fewer)
  <2>1. SUFFICES ASSUME NEW n \in fewer
                 PROVE  /\ n \in 1 .. r.claims
                        /\ s.unknowns = 0 => n = r.claims
                        /\ s.unknowns = 1 => n \in {r.claims - 1, r.claims}
                        /\ Open(s) => /\ s.unknowns = 1
                                      /\ s.status = "OUTCOME_UNKNOWN" /\ n = r.claims
    BY <1>6 DEF LiveClaims
  <2>2. Open(s) => outcome = "OUTCOME_UNKNOWN"
    BY <1>4, <1>9
  <2> QED BY <2>2, <1>1, <1>4, <1>6, <1>9
<1>13. StatusTrue(s, arrived, fewer)
  BY <1>2, <1>6, <1>7 DEF StatusTrue, Outcome
<1> QED BY <1>5, <1>6, <1>8, <1>11, <1>12, <1>13 DEF RowTrue, s

(***************************************************************************)
(* What the steps share.                                                   *)
(***************************************************************************)
\* A step of the rows and the circuit alone.
LEMMA RowsStep ==
  ASSUME DeliveryInv, UNCHANGED <<worker, sent, reached>>,
         delivery' \in [Delivery -> Row],
         \A d \in Delivery : RowTrue(delivery'[d], sent[d], reached[d], Live(d)),
         circuit' \in Circuit, SoundCircuit(circuit'),
         prober' \in [Prober -> [probing: BOOLEAN, token: Nat]], probes' \in Nat
  PROVE  DeliveryInv'
<1>1. DeliveryTyped'
  BY DEF DeliveryInv, DeliveryTyped
<1>2. \A d \in Delivery : Carriers(d)' = Carriers(d) /\ Live(d)' = Live(d)
  BY DEF Carriers, Live
<1>3. RowsTrue'
  BY <1>2 DEF RowsTrue
<1>4. OneCarrier'
  BY <1>2 DEF DeliveryInv, OneCarrier
<1>5. ResultsTrue'
  BY DEF DeliveryInv, ResultsTrue
<1> QED BY <1>1, <1>3, <1>4, <1>5 DEF DeliveryInv

\* A worker gives up the claim it carries, or carries none.
LEMMA FreedStep ==
  ASSUME DeliveryInv, UNCHANGED <<sent, reached>>, NEW w \in Worker,
         worker' = [worker EXCEPT ![w] = Scanning],
         delivery' \in [Delivery -> Row],
         \A d \in Delivery :
           \A fewer \in SUBSET Live(d) :
             (w \in Carriers(d) /\ worker[w].token \notin reached[d]
                => worker[w].token \notin fewer)
               => RowTrue(delivery'[d], sent[d], reached[d], fewer),
         circuit' \in Circuit, SoundCircuit(circuit'),
         prober' \in [Prober -> [probing: BOOLEAN, token: Nat]], probes' \in Nat
  PROVE  DeliveryInv'
<1>0. DeliveryTyped
  BY DEF DeliveryInv
<1>1. DeliveryTyped'
  BY <1>0 DEF DeliveryTyped
<1>2. \A v \in Worker : worker'[v] = IF v = w THEN Scanning ELSE worker[v]
  BY <1>0 DEF DeliveryTyped
<1>3. Scanning.pc = "scan"
  BY DEF Scanning
<1>4. \A d \in Delivery : Carriers(d)' = Carriers(d) \ {w}
  BY <1>2, <1>3 DEF Carriers
<1>5. \A d \in Delivery : \A v \in Carriers(d)' : worker'[v] = worker[v]
  BY <1>2, <1>4 DEF Carriers
<1>6. OneCarrier'
  BY <1>4, <1>5 DEF DeliveryInv, OneCarrier
<1>7. RowsTrue'
  <2>1. SUFFICES ASSUME NEW d \in Delivery
                 PROVE  RowTrue(delivery'[d], sent[d], reached[d], Live(d)')
    BY DEF RowsTrue
  <2>2. Live(d)' \in SUBSET Live(d)
    BY <1>4, <1>5 DEF Live
  <2>3. ASSUME w \in Carriers(d), worker[w].token \notin reached[d]
        PROVE  worker[w].token \notin Live(d)'
    <3>1. \A v \in Carriers(d)' : worker'[v].token # worker[w].token
      BY <1>4, <1>5, <2>3 DEF DeliveryInv, OneCarrier
    <3> QED BY <3>1, <2>3 DEF Live
  <2> QED BY <2>2, <2>3
<1>8. ResultsTrue'
  <2>1. ResultTrue(Scanning, reached)
    BY <1>3 DEF ResultTrue
  <2> QED BY <2>1, <1>2 DEF DeliveryInv, ResultsTrue
<1> QED BY <1>1, <1>6, <1>7, <1>8 DEF DeliveryInv

\* The recovery of expired leases.
LEMMA RecoveryKeeps ==
  ASSUME DeliveryInv
  PROVE  LET next == AfterRecovery IN
         /\ next \in Pair
         /\ SoundCircuit(next.circuit)
         /\ \A d \in Delivery : RowTrue(next.rows[d], sent[d], reached[d], Live(d))
         /\ circuit.state = "HALF_OPEN" => next.circuit = circuit
<1> DEFINE expired == {d \in Delivery : Expired(delivery[d])}
           rows == [d \in Delivery |->
                      IF d \in expired THEN Recorded(delivery[d], "OUTCOME_UNKNOWN")
                                       ELSE delivery[d]]
           first == [circuit |-> circuit, rows |-> rows]
           number == Cardinality(expired)
           next == AfterFailures(first, number)
<1>1. DeliveryTyped
  BY DEF DeliveryInv
<1>2. \A d \in Delivery :
        rows[d] \in Row /\ RowTrue(rows[d], sent[d], reached[d], Live(d))
  <2>1. SUFFICES ASSUME NEW d \in Delivery
                 PROVE  rows[d] \in Row
                        /\ RowTrue(rows[d], sent[d], reached[d], Live(d))
    OBVIOUS
  <2>2. delivery[d] \in Row /\ RowTrue(delivery[d], sent[d], reached[d], Live(d))
    BY <1>1 DEF DeliveryInv, RowsTrue, DeliveryTyped
  <2>3. CASE d \in expired
    <3>1. delivery[d].status = "SENDING"
      BY <2>3 DEF Expired
    <3>2. "OUTCOME_UNKNOWN" \in Outcome
      BY DEF Outcome
    <3>3. /\ Recorded(delivery[d], "OUTCOME_UNKNOWN") \in Row
          /\ RowTrue(Recorded(delivery[d], "OUTCOME_UNKNOWN"), sent[d], reached[d],
                     Live(d))
      BY <2>2, <3>1, <3>2, RecordKeeps
    <3> QED BY <2>3, <3>3
  <2>4. CASE d \notin expired
    BY <2>2, <2>4
  <2> QED BY <2>3, <2>4
<1>3. number \in Nat
  <2>1. IsFiniteSet(expired)
    BY NotificationDeliveryAssumption, FS_Subset
  <2> QED BY <2>1, FS_CardinalityType
<1>4. first \in Pair /\ SoundCircuit(first.circuit)
  <2> HIDE DEF expired
  <2> QED BY <1>1, <1>2 DEF Pair, DeliveryInv, DeliveryTyped
<1>5. AfterRecovery = next
  BY DEF AfterRecovery
<1> HIDE DEF expired, number
<1>6. /\ next \in Pair
      /\ SoundCircuit(next.circuit)
      /\ \A d \in Delivery : Moved(first.rows[d], next.rows[d])
      /\ first.circuit.state = "HALF_OPEN" => next.circuit = first.circuit
  BY <1>3, <1>4, FailuresMove
<1>7. \A d \in Delivery : RowTrue(next.rows[d], sent[d], reached[d], Live(d))
  <2>1. SUFFICES ASSUME NEW d \in Delivery
                 PROVE  RowTrue(next.rows[d], sent[d], reached[d], Live(d))
    OBVIOUS
  <2>2. first.rows[d] = rows[d]
    OBVIOUS
  <2> HIDE DEF first, rows
  <2> QED BY <1>2, <1>6, <2>2, MovedKeeps
<1> QED BY <1>5, <1>6, <1>7

(***************************************************************************)
(* Every action keeps the invariant.                                       *)
(***************************************************************************)
LEMMA DeliveryInit ==
  ASSUME Init
  PROVE  DeliveryInv
<1>1. NewRow \in Row /\ NewRow.status = "ABSENT" /\ NewRow.claims = 0
      /\ NewRow.attempts = 0 /\ NewRow.unknowns = 0
  BY DEF NewRow, Row, Status, Unpublished, NoToken
<1>2. Scanning.pc = "scan"
  BY DEF Scanning
<1>3. DeliveryTyped
  BY <1>1 DEF Init, DeliveryTyped, Circuit, Closed, NotProbing, NoToken
<1>4. \A d \in Delivery : Carriers(d) = {} /\ Live(d) = {}
  BY <1>2 DEF Init, Carriers, Live
<1>5. RowsTrue
  <2>1. Counted(NewRow)
    BY <1>1, NotificationDeliveryAssumption DEF Counted, Unpublished
  <2>2. RowTrue(NewRow, {}, {}, {})
    BY <1>1, <2>1 DEF RowTrue, LiveClaims, StatusTrue
  <2> QED BY <1>4, <2>2 DEF RowsTrue, Init
<1>6. OneCarrier
  BY <1>4 DEF OneCarrier
<1>7. ResultsTrue
  BY <1>2 DEF ResultsTrue, ResultTrue, Init
<1>8. SoundCircuit(circuit)
  BY DEF Init, Closed, SoundCircuit, NoToken
<1> QED BY <1>3, <1>5, <1>6, <1>7, <1>8 DEF DeliveryInv

\* One row changes.
LEMMA RowActions ==
  ASSUME DeliveryInv, NEW d \in Delivery,
         Draft(d) \/ Persist(d) \/ Cancel(d) \/ TimePasses(d)
  PROVE  DeliveryInv'
<1> DEFINE r == delivery[d]
<1>1. DeliveryTyped /\ r \in Row /\ RowTrue(r, sent[d], reached[d], Live(d))
  BY DEF DeliveryInv, DeliveryTyped, RowsTrue
<1>2. /\ UNCHANGED <<worker, sent, reached, circuit, prober, probes>>
      /\ \E s : delivery' = [delivery EXCEPT ![d] = s] /\ s \in Row
                /\ RowTrue(s, sent[d], reached[d], Live(d))
  <2> DEFINE Turns(s) == delivery' = [delivery EXCEPT ![d] = s]
  <2>0. r.claims \in Nat /\ r.attempts \in Nat
    BY <1>1 DEF Row
  <2>1. CASE Draft(d)
    <3> DEFINE s == [r EXCEPT !.status = IF circuit.state = "CLOSED"
                                         THEN "DRAFT_CLOSED" ELSE "DRAFT_OPEN"]
    <3>1. Turns(s) /\ r.status = "ABSENT"
      BY <2>1 DEF Draft
    <3>2. s \in Row /\ s.status \in Unpublished /\ r.status \in Unpublished
          /\ s.status \notin {"SENT", "FAILED", "SENDING"}
          /\ s.claims = r.claims /\ s.attempts = r.attempts
          /\ s.unknowns = r.unknowns
      BY <1>1, <3>1 DEF Row, Status, Unpublished
    <3> HIDE DEF s
    <3>3. RowTrue(s, sent[d], reached[d], Live(d))
      <4>1. Open(r) /\ Open(s)
        BY <3>2 DEF Open
      <4>2. Counted(s)
        BY <1>1, <3>2, <4>1 DEF RowTrue, Counted
      <4>3. LiveClaims(s, Live(d))
        BY <1>1, <3>1, <3>2, <4>1 DEF RowTrue, LiveClaims
      <4> QED BY <1>1, <3>2, <4>2, <4>3 DEF RowTrue, StatusTrue
    <3> QED BY <2>1, <3>1, <3>2, <3>3 DEF Draft, history
  <2>2. CASE Persist(d)
    <3>1. PICK s : /\ Turns(s) /\ s \in Row /\ s.status \in {"PENDING", "RETRY_WAIT"}
                   /\ r.status \in {"DRAFT_CLOSED", "DRAFT_OPEN"}
                   /\ s.claims = r.claims /\ s.attempts = r.attempts
                   /\ s.unknowns = r.unknowns
      <4>1. CASE r.status = "DRAFT_CLOSED"
        <5> DEFINE s == [r EXCEPT !.status = "PENDING"]
        <5>1. Turns(s)
          BY <2>2, <4>1 DEF Persist
        <5>2. s \in Row /\ s.status = "PENDING" /\ s.claims = r.claims
              /\ s.attempts = r.attempts /\ s.unknowns = r.unknowns
          BY <1>1 DEF Row, Status
        <5> QED BY <4>1, <5>1, <5>2
      <4>2. CASE r.status = "DRAFT_OPEN"
        <5> DEFINE s == [r EXCEPT !.status = "RETRY_WAIT", !.wait = "later",
                                  !.deferred = "later"]
        <5>1. Turns(s)
          BY <1>1, <2>2, <4>2 DEF Persist, DeliveryTyped
        <5>2. s \in Row /\ s.status = "RETRY_WAIT" /\ s.claims = r.claims
              /\ s.attempts = r.attempts /\ s.unknowns = r.unknowns
          BY <1>1 DEF Row, Status
        <5> QED BY <4>2, <5>1, <5>2
      <4> QED BY <2>2, <4>1, <4>2 DEF Persist
    <3>2. RowTrue(s, sent[d], reached[d], Live(d))
      <4>1. Open(r) /\ Open(s) /\ r.status \in Unpublished
        BY <3>1 DEF Open, Unpublished
      <4>2. Counted(s)
        BY <1>1, <3>1, <4>1 DEF RowTrue, Counted, Unpublished
      <4>3. LiveClaims(s, Live(d))
        BY <1>1, <3>1, <4>1 DEF RowTrue, LiveClaims
      <4> QED BY <1>1, <3>1, <4>2, <4>3 DEF RowTrue, StatusTrue
    <3> QED BY <2>2, <3>1, <3>2 DEF Persist, history
  <2>3. CASE Cancel(d)
    <3> DEFINE s == [r EXCEPT !.status = "CANCELED", !.wait = "never"]
    <3>1. Turns(s)
      BY <1>1, <2>3 DEF Cancel, DeliveryTyped
    <3>2. s \in Row /\ s.status = "CANCELED" /\ s.claims = r.claims
          /\ s.attempts = r.attempts /\ s.unknowns = r.unknowns
      BY <1>1 DEF Row, Status
    <3> HIDE DEF s
    <3>3. RowTrue(s, sent[d], reached[d], Live(d))
      BY <1>1, <3>2 DEF RowTrue, StatusTrue, Counted, LiveClaims, Open, Unpublished
    <3> QED BY <2>3, <3>1, <3>2, <3>3 DEF Cancel, history
  <2>4. CASE LeaseEnds(d) \/ DeferralEnds(d)
    <3>1. PICK s : /\ Turns(s) /\ s \in Row /\ s.status = r.status /\ s.wait = r.wait
                   /\ s.claims = r.claims /\ s.attempts = r.attempts
                   /\ s.unknowns = r.unknowns /\ s.token = r.token
      <4>1. CASE LeaseEnds(d)
        <5> DEFINE s == [r EXCEPT !.alive = FALSE]
        <5>1. Turns(s) /\ s \in Row
          BY <1>1, <4>1 DEF LeaseEnds, Row
        <5>2. s.status = r.status /\ s.wait = r.wait /\ s.token = r.token
              /\ s.claims = r.claims /\ s.attempts = r.attempts
              /\ s.unknowns = r.unknowns
          BY <1>1 DEF Row
        <5> HIDE DEF s
        <5> QED BY <5>1, <5>2
      <4>2. CASE DeferralEnds(d)
        <5> DEFINE s == [r EXCEPT !.deferred = "past"]
        <5>1. Turns(s) /\ s \in Row
          BY <1>1, <4>2 DEF DeferralEnds, Row
        <5>2. s.status = r.status /\ s.wait = r.wait /\ s.token = r.token
              /\ s.claims = r.claims /\ s.attempts = r.attempts
              /\ s.unknowns = r.unknowns
          BY <1>1 DEF Row
        <5> HIDE DEF s
        <5> QED BY <5>1, <5>2
      <4> QED BY <2>4, <4>1, <4>2
    <3>2. Moved(r, s)
      BY <3>1 DEF Moved
    <3>3. RowTrue(s, sent[d], reached[d], Live(d))
      BY <1>1, <3>2, MovedKeeps
    <3> QED BY <2>4, <3>1, <3>3 DEF LeaseEnds, DeferralEnds, history
  <2>5. CASE WaitEnds(d)
    <3> DEFINE s == [r EXCEPT !.wait = "due"]
    <3>1. Turns(s) /\ r.wait = "later"
      BY <2>5 DEF WaitEnds
    <3>2. s \in Row /\ s.status = r.status /\ s.claims = r.claims /\ s.wait = "due"
          /\ s.attempts = r.attempts /\ s.unknowns = r.unknowns /\ s.token = r.token
      BY <1>1 DEF Row
    <3> HIDE DEF s
    <3>3. Open(s) <=> Open(r)
      BY <3>1, <3>2 DEF Open
    <3>4. RowTrue(s, sent[d], reached[d], Live(d))
      BY <1>1, <3>2, <3>3 DEF RowTrue, StatusTrue, Counted, LiveClaims
    <3> QED BY <2>5, <3>1, <3>2, <3>4 DEF WaitEnds, history
  <2> QED BY <2>1, <2>2, <2>3, <2>4, <2>5 DEF TimePasses
<1>3. \A e \in Delivery : delivery'[e] \in Row
                          /\ RowTrue(delivery'[e], sent[e], reached[e], Live(e))
  BY <1>1, <1>2 DEF DeliveryTyped, DeliveryInv, RowsTrue
<1>4. delivery' \in [Delivery -> Row]
  BY <1>1, <1>2 DEF DeliveryTyped
<1> QED BY <1>1, <1>2, <1>3, <1>4, RowsStep DEF DeliveryInv, DeliveryTyped

\* The circuit changes, and with it the rows that wait.
LEMMA CircuitActions ==
  ASSUME DeliveryInv,
         Reset \/ CooldownEnds \/ \E p \in Prober : Grant(p) \/ Probe(p) \/ ProbeLost(p)
  PROVE  DeliveryInv'
<1>1. DeliveryTyped /\ SoundCircuit(circuit)
  BY DEF DeliveryInv
<1>2. \A d \in Delivery :
        delivery[d] \in Row /\ RowTrue(delivery[d], sent[d], reached[d], Live(d))
  BY DEF DeliveryInv, DeliveryTyped, RowsTrue
<1>3. CASE Reset
  <2>1. \A d \in Delivery : Moved(delivery[d], delivery'[d])
    BY <1>2, <1>3, CircuitMovesRow DEF Reset, ReleaseAll
  <2>2. \A d \in Delivery : RowTrue(delivery'[d], sent[d], reached[d], Live(d))
    BY <1>2, <2>1, MovedKeeps
  <2>3. delivery' \in [Delivery -> Row]
    BY <1>3, <2>1 DEF Reset, ReleaseAll, Moved
  <2>4. circuit' \in Circuit /\ SoundCircuit(circuit')
    BY <1>3 DEF Reset, Closed, Circuit, SoundCircuit, NoToken
  <2> QED BY <1>1, <1>3, <2>2, <2>3, <2>4, RowsStep DEF Reset, DeliveryTyped
<1>4. CASE CooldownEnds
  <2>1. circuit' \in Circuit /\ SoundCircuit(circuit')
    BY <1>1, <1>4 DEF CooldownEnds, DeliveryTyped, Circuit, SoundCircuit
  <2> QED BY <1>1, <1>2, <1>4, <2>1, RowsStep DEF CooldownEnds, DeliveryTyped, history
<1>5. ASSUME NEW p \in Prober, Grant(p)
      PROVE  DeliveryInv'
  <2> DEFINE n == probes + 1
  <2>1. n \in Nat /\ n # 0
    BY <1>1 DEF DeliveryTyped
  <2>2. /\ circuit' = [circuit EXCEPT !.state = "HALF_OPEN", !.probe = n]
        /\ prober' = [prober EXCEPT ![p] = [probing |-> TRUE, token |-> n]]
        /\ probes' = n
        /\ circuit.state = "HALF_OPEN" \/ (circuit.state = "OPEN" /\ ~circuit.cooling)
    BY <1>5 DEF Grant
  <2> HIDE DEF n
  <2>3. circuit' \in Circuit /\ SoundCircuit(circuit')
    BY <1>1, <2>1, <2>2 DEF DeliveryTyped, Circuit, SoundCircuit, NoToken
  <2>4. prober' \in [Prober -> [probing: BOOLEAN, token: Nat]]
    BY <1>1, <2>1, <2>2 DEF DeliveryTyped
  <2>5. UNCHANGED <<delivery, worker, sent, reached>>
    BY <1>5 DEF Grant, history
  <2> QED BY <1>1, <1>2, <2>1, <2>2, <2>3, <2>4, <2>5, RowsStep DEF DeliveryTyped
<1>6. ASSUME NEW p \in Prober, Probe(p)
      PROVE  DeliveryInv'
  <2> DEFINE pair == [circuit |-> circuit, rows |-> delivery]
  <2>1. PICK outcome \in Outcome :
          LET next == ResultRecorded(pair, outcome, TRUE, prober[p].token) IN
          circuit' = next.circuit /\ delivery' = next.rows
    BY <1>6 DEF Probe
  <2>2. pair \in Pair /\ SoundCircuit(pair.circuit) /\ prober[p].token \in Nat
    BY <1>1 DEF Pair, DeliveryTyped
  <2>3. /\ circuit' \in Circuit /\ SoundCircuit(circuit')
        /\ delivery' \in [Delivery -> Row]
        /\ \A d \in Delivery : Moved(delivery[d], delivery'[d])
    BY <2>1, <2>2, ResultMoves DEF Pair
  <2>4. \A d \in Delivery : RowTrue(delivery'[d], sent[d], reached[d], Live(d))
    BY <1>2, <2>3, MovedKeeps
  <2>5. prober' \in [Prober -> [probing: BOOLEAN, token: Nat]]
    BY <1>1, <1>6 DEF Probe, DeliveryTyped, NotProbing, NoToken
  <2> QED BY <1>1, <1>6, <2>3, <2>4, <2>5, RowsStep DEF Probe, DeliveryTyped
<1>7. ASSUME NEW p \in Prober, ProbeLost(p)
      PROVE  DeliveryInv'
  <2>1. prober' \in [Prober -> [probing: BOOLEAN, token: Nat]]
    BY <1>1, <1>7 DEF ProbeLost, DeliveryTyped, NotProbing, NoToken
  <2> QED BY <1>1, <1>2, <1>7, <2>1, RowsStep DEF ProbeLost, DeliveryTyped, history
<1> QED BY <1>3, <1>4, <1>5, <1>6, <1>7

LEMMA ScanKeeps ==
  ASSUME DeliveryInv, NEW w \in Worker, Scan(w)
  PROVE  DeliveryInv'
<1> DEFINE next == AfterRecovery
           claimable == {d \in Delivery : Claimable(next.rows[d])}
<1>1. /\ next \in Pair /\ SoundCircuit(next.circuit)
      /\ \A d \in Delivery : RowTrue(next.rows[d], sent[d], reached[d], Live(d))
  BY RecoveryKeeps
<1>2. /\ DeliveryTyped
      /\ circuit' = next.circuit /\ UNCHANGED <<prober, probes, sent, reached>>
      /\ worker[w].pc = "scan"
      /\ \/ delivery' = DeferAll(next.rows) /\ UNCHANGED worker
         \/ delivery' = next.rows /\ UNCHANGED worker
         \/ \E d \in claimable :
              /\ delivery' = [next.rows EXCEPT ![d] = Claimed(next.rows[d])]
              /\ worker' = [worker EXCEPT ![w] =
                   [pc |-> "claimed", job |-> d, token |-> next.rows[d].claims + 1,
                    result |-> NoResult]]
  BY DEF Scan, DeliveryInv
<1> HIDE DEF next
<1>3. next.rows \in [Delivery -> Row] /\ next.circuit \in Circuit
  BY <1>1 DEF Pair
<1>4. CASE delivery' = DeferAll(next.rows) /\ UNCHANGED worker
  <2>1. \A d \in Delivery : Moved(next.rows[d], delivery'[d])
    BY <1>3, <1>4, CircuitMovesRow DEF DeferAll
  <2>2. \A d \in Delivery : RowTrue(delivery'[d], sent[d], reached[d], Live(d))
    BY <1>1, <1>3, <2>1, MovedKeeps
  <2>3. delivery' \in [Delivery -> Row]
    BY <1>4, <2>1 DEF DeferAll, Moved
  <2> QED BY <1>1, <1>2, <1>3, <1>4, <2>2, <2>3, RowsStep DEF DeliveryTyped
<1>5. CASE delivery' = next.rows /\ UNCHANGED worker
  BY <1>1, <1>2, <1>3, <1>5, RowsStep DEF DeliveryTyped
<1>6. ASSUME NEW d \in claimable,
             delivery' = [next.rows EXCEPT ![d] = Claimed(next.rows[d])],
             worker' = [worker EXCEPT ![w] =
               [pc |-> "claimed", job |-> d, token |-> next.rows[d].claims + 1,
                result |-> NoResult]]
      PROVE  DeliveryInv'
  <2> DEFINE r == next.rows[d]
             token == r.claims + 1
             held == [pc |-> "claimed", job |-> d, token |-> token, result |-> NoResult]
  <2>1. r \in Row /\ Claimable(r) /\ RowTrue(r, sent[d], reached[d], Live(d))
    BY <1>1, <1>3
  <2>2. /\ Claimed(r) \in Row /\ token \notin Live(d) /\ token \in Nat
        /\ RowTrue(Claimed(r), sent[d], reached[d], Live(d) \cup {token})
    BY <2>1, ClaimKeeps DEF Row
  <2>3. worker' = [worker EXCEPT ![w] = held]
    BY <1>6
  <2>4. /\ held.pc = "claimed" /\ held.job = d /\ held.token = token
        /\ held \in [pc: {"claimed", "sent", "stuck"}, job: Delivery, token: Nat,
                     result: Result]
    BY <2>2 DEF NoResult, Result, Outcome
  <2> HIDE DEF held, token
  <2>5. \A v \in Worker : worker'[v] = IF v = w THEN held ELSE worker[v]
    BY <1>2, <2>3 DEF DeliveryTyped
  <2>6. DeliveryTyped'
    <3>1. delivery' \in [Delivery -> Row]
      BY <1>3, <1>6, <2>2
    <3> QED BY <3>1, <1>2, <1>3, <2>3, <2>4 DEF DeliveryTyped
  <2>7. \A e \in Delivery : Carriers(e)' = IF e = d THEN Carriers(e) \cup {w}
                                                    ELSE Carriers(e)
    BY <1>2, <2>4, <2>5 DEF Carriers
  <2>8. \A e \in Delivery : \A v \in Carriers(e) : worker'[v] = worker[v]
    BY <1>2, <2>5 DEF Carriers
  <2>9. \A e \in Delivery : Live(e)' = IF e = d THEN Live(e) \cup {token} ELSE Live(e)
    <3>1. worker'[w].token = token
      BY <2>4, <2>5
    <3> QED BY <3>1, <1>2, <2>7, <2>8 DEF Live
  <2>10. RowsTrue'
    BY <1>1, <1>2, <1>3, <1>6, <2>2, <2>9 DEF RowsTrue
  <2>11. OneCarrier'
    <3>1. SUFFICES ASSUME NEW e \in Delivery,
                          NEW u \in Carriers(e)', NEW v \in Carriers(e)',
                          worker'[u].token = worker'[v].token
                   PROVE  u = v
      BY DEF OneCarrier
    <3>2. \A x \in Carriers(d) : worker'[x].token # token
      BY <2>2, <2>8 DEF Live
    <3>3. worker'[w].token = token
      BY <2>4, <2>5
    <3>4. CASE u \in Carriers(e) /\ v \in Carriers(e)
      BY <3>1, <3>4, <2>8 DEF DeliveryInv, OneCarrier
    <3>5. CASE e = d /\ (u = w \/ v = w)
      BY <3>1, <3>2, <3>3, <3>5, <2>7
    <3> QED BY <3>1, <3>4, <3>5, <2>7
  <2>12. ResultsTrue'
    <3>1. ResultTrue(held, reached)
      BY <2>2, <2>4 DEF ResultTrue, Live
    <3> QED BY <3>1, <1>2, <2>5 DEF DeliveryInv, ResultsTrue
  <2> QED BY <1>1, <1>2, <2>6, <2>10, <2>11, <2>12 DEF DeliveryInv
<1> QED BY <1>2, <1>4, <1>5, <1>6

\* What the lemmas on the last steps of process_once need of the claim of w.
LEMMA ClaimHeld ==
  ASSUME DeliveryInv, NEW w \in Worker, worker[w].pc # "scan"
  PROVE  LET d == worker[w].job
             token == worker[w].token IN
         /\ d \in Delivery /\ w \in Carriers(d) /\ token \in Live(d) /\ token \in Nat
         /\ worker[w].result \in Result
         /\ delivery[d] \in Row
         /\ Holds(delivery[d], token) =>
              delivery[d].status = "SENDING" /\ delivery[d].claims = token
<1>1. DeliveryTyped
  BY DEF DeliveryInv
<1>2. Scanning.pc = "scan"
  BY DEF Scanning
<1>3. worker[w] \in [pc: {"claimed", "sent", "stuck"}, job: Delivery, token: Nat,
                     result: Result]
  BY <1>1, <1>2 DEF DeliveryTyped
<1> DEFINE d == worker[w].job
<1>4. d \in Delivery /\ worker[w].token \in Nat /\ worker[w].result \in Result
  BY <1>3
<1>5. w \in Carriers(d) /\ worker[w].token \in Live(d)
  BY <1>4 DEF Carriers, Live
<1>6. delivery[d] \in Row /\ Counted(delivery[d])
  BY <1>1, <1>4 DEF DeliveryTyped, DeliveryInv, RowsTrue, RowTrue
<1> QED BY <1>4, <1>5, <1>6 DEF Holds, Counted

LEMMA SkipKeeps ==
  ASSUME DeliveryInv, NEW w \in Worker, Skip(w)
  PROVE  DeliveryInv'
<1> DEFINE d == worker[w].job
           r == delivery[d]
<1>1. DeliveryTyped /\ SoundCircuit(circuit) /\ worker[w].pc # "scan"
  BY DEF DeliveryInv, Skip
<1>2. d \in Delivery /\ r \in Row
  BY <1>1, ClaimHeld
<1>3. \A e \in Delivery : /\ delivery[e] \in Row
                          /\ RowTrue(delivery[e], sent[e], reached[e], Live(e))
  BY <1>1 DEF DeliveryInv, DeliveryTyped, RowsTrue
<1>4. /\ worker' = [worker EXCEPT ![w] = Scanning]
      /\ UNCHANGED <<circuit, prober, probes, sent, reached>>
  BY DEF Skip, history
<1>5. CASE UNCHANGED delivery
  BY <1>1, <1>3, <1>4, <1>5, FewerLive, FreedStep DEF DeliveryTyped
<1>6. ASSUME NEW status \in Skipped \cup {"CANCELED"},
             delivery' = [delivery EXCEPT ![d].status = status, ![d].wait = "never",
                                          ![d].token = NoToken, ![d].alive = FALSE]
      PROVE  DeliveryInv'
  <2> DEFINE none == NoToken
             s == [r EXCEPT !.status = status, !.wait = "never", !.token = none,
                            !.alive = FALSE]
  <2>1. none \in Nat
    BY DEF NoToken
  <2>2. delivery' = [delivery EXCEPT ![d] = s]
    BY <1>1, <1>2, <1>6 DEF DeliveryTyped
  <2> HIDE DEF none
  <2>3. s \in Row /\ s.status = status /\ s.claims = r.claims
        /\ s.attempts = r.attempts /\ s.unknowns = r.unknowns
    BY <1>2, <2>1 DEF Row, Status
  <2> HIDE DEF s
  <2>4. RowTrue(s, sent[d], reached[d], Live(d))
    <3>1. RowTrue(r, sent[d], reached[d], Live(d))
      BY <1>2, <1>3
    <3>2. ~Open(s) /\ s.status \notin {"SENDING", "SENT", "FAILED"} \cup Unpublished
      BY <2>3 DEF Open, Unpublished, Skipped
    <3> QED BY <2>3, <3>1, <3>2
        DEF RowTrue, StatusTrue, Counted, LiveClaims, Open
  <2>5. delivery' \in [Delivery -> Row]
    BY <1>1, <2>2, <2>3 DEF DeliveryTyped
  <2>6. \A e \in Delivery : RowTrue(delivery'[e], sent[e], reached[e], Live(e))
    BY <1>1, <1>3, <2>2, <2>4 DEF DeliveryTyped
  <2> QED BY <1>1, <1>4, <2>5, <2>6, FewerLive, FreedStep DEF DeliveryTyped
<1> QED BY <1>5, <1>6 DEF Skip

LEMMA BuildFailureKeeps ==
  ASSUME DeliveryInv, NEW w \in Worker, BuildFailure(w)
  PROVE  DeliveryInv'
<1> DEFINE d == worker[w].job
           token == worker[w].token
           r == delivery[d]
<1>1. DeliveryTyped /\ SoundCircuit(circuit) /\ worker[w].pc = "claimed"
  BY DEF DeliveryInv, BuildFailure
<1>2. /\ d \in Delivery /\ r \in Row /\ w \in Carriers(d)
      /\ Holds(r, token) => r.status = "SENDING" /\ r.claims = token
  BY <1>1, ClaimHeld
<1>3. \A e \in Delivery : /\ delivery[e] \in Row
                          /\ RowTrue(delivery[e], sent[e], reached[e], Live(e))
  BY <1>1 DEF DeliveryInv, DeliveryTyped, RowsTrue
<1>4. /\ worker' = [worker EXCEPT ![w] = Scanning]
      /\ UNCHANGED <<prober, probes, sent, reached>>
  BY DEF BuildFailure
<1>5. token \notin reached[d]
  BY <1>1 DEF DeliveryInv, ResultsTrue, ResultTrue
<1>6. PICK outcome \in {"PERMANENT_FAILURE", "TEMPORARY_FAILURE"}, counts \in BOOLEAN :
        LET rows == IF Holds(r, token)
                    THEN [delivery EXCEPT ![d] = Recorded(@, outcome)]
                    ELSE delivery
            next == ResultRecorded([circuit |-> circuit, rows |-> rows],
                                   outcome, counts, NoToken)
        IN  delivery' = next.rows /\ circuit' = next.circuit
  <2>1. PICK result \in {[outcome |-> "PERMANENT_FAILURE", counts |-> FALSE],
                         [outcome |-> "TEMPORARY_FAILURE", counts |-> TRUE]} :
          LET rows == IF Holds(r, token)
                      THEN [delivery EXCEPT ![d] = Recorded(@, result.outcome)]
                      ELSE delivery
              next == ResultRecorded([circuit |-> circuit, rows |-> rows],
                                     result.outcome, result.counts, NoToken)
          IN  delivery' = next.rows /\ circuit' = next.circuit
    BY DEF BuildFailure
  <2>2. /\ result.outcome \in {"PERMANENT_FAILURE", "TEMPORARY_FAILURE"}
        /\ result.counts \in BOOLEAN
    <3>1. CASE result = [outcome |-> "PERMANENT_FAILURE", counts |-> FALSE]
      BY <3>1
    <3>2. CASE result = [outcome |-> "TEMPORARY_FAILURE", counts |-> TRUE]
      BY <3>2
    <3> QED BY <2>1, <3>1, <3>2
  <2> QED BY <2>1, <2>2
<1> DEFINE rows == IF Holds(r, token)
                   THEN [delivery EXCEPT ![d] = Recorded(@, outcome)]
                   ELSE delivery
           pair == [circuit |-> circuit, rows |-> rows]
           Without(e, fewer) ==
             w \in Carriers(e) /\ worker[w].token \notin reached[e]
               => worker[w].token \notin fewer
<1>7. \A e \in Delivery :
        /\ rows[e] \in Row
        /\ \A fewer \in SUBSET Live(e) :
             Without(e, fewer) => RowTrue(rows[e], sent[e], reached[e], fewer)
  <2>1. SUFFICES ASSUME NEW e \in Delivery, NEW fewer \in SUBSET Live(e)
                 PROVE  /\ rows[e] \in Row
                        /\ Without(e, fewer)
                             => RowTrue(rows[e], sent[e], reached[e], fewer)
    OBVIOUS
  <2>2. CASE e = d /\ Holds(r, token)
    <3>1. rows[e] = Recorded(r, outcome)
      BY <1>1, <1>2, <2>2 DEF DeliveryTyped
    <3>2. Without(e, fewer) => r.claims \notin fewer
      BY <1>2, <1>5, <2>2
    <3>3. outcome \in Outcome /\ outcome # "SUCCESS"
      BY DEF Outcome
    <3>4. RowTrue(r, sent[d], reached[d], Live(d)) /\ r.status = "SENDING"
      BY <1>2, <1>3, <2>2
    <3>5. Recorded(r, outcome) \in Row
      <4> DEFINE none == Live(d) \ {r.claims}
      <4>1. none \in SUBSET Live(d) /\ r.claims \notin none
        OBVIOUS
      <4> HIDE DEF none
      <4>2. /\ Recorded(r, outcome) \in Row
            /\ RowTrue(Recorded(r, outcome), sent[d], reached[d], none)
        BY <1>2, <3>3, <3>4, <4>1, RecordKeeps
      <4> QED BY <4>2
    <3>6. Without(e, fewer) => RowTrue(Recorded(r, outcome), sent[d], reached[d], fewer)
      BY <1>2, <2>2, <3>2, <3>3, <3>4, RecordKeeps
    <3> QED BY <2>2, <3>1, <3>5, <3>6
  <2>3. CASE ~(e = d /\ Holds(r, token))
    <3>1. rows[e] = delivery[e]
      BY <1>1, <2>3 DEF DeliveryTyped
    <3> QED BY <1>3, <3>1, FewerLive
  <2> QED BY <2>2, <2>3
<1>8. pair \in Pair /\ SoundCircuit(pair.circuit) /\ outcome \in Outcome /\ NoToken \in Nat
  <2>1. rows \in [Delivery -> Row]
    BY <1>1, <1>7 DEF DeliveryTyped
  <2> QED BY <2>1, <1>1 DEF Pair, DeliveryTyped, Outcome, NoToken
<1>9. /\ circuit' \in Circuit /\ SoundCircuit(circuit')
      /\ delivery' \in [Delivery -> Row]
      /\ \A e \in Delivery : Moved(rows[e], delivery'[e])
  <2>1. delivery' = ResultRecorded(pair, outcome, counts, NoToken).rows
        /\ circuit' = ResultRecorded(pair, outcome, counts, NoToken).circuit
    BY <1>6
  <2>2. pair.rows = rows
    OBVIOUS
  <2> HIDE DEF pair, rows
  <2> QED BY <1>8, <2>1, <2>2, ResultMoves DEF Pair
<1> HIDE DEF rows, pair
<1>10. \A e \in Delivery : \A fewer \in SUBSET Live(e) :
         Without(e, fewer) => RowTrue(delivery'[e], sent[e], reached[e], fewer)
  <2> HIDE DEF Without
  <2> QED BY <1>7, <1>9, MovedKeeps
<1> QED BY <1>1, <1>4, <1>9, <1>10, FreedStep DEF DeliveryTyped

LEMMA SendKeepsInv ==
  ASSUME DeliveryInv, NEW w \in Worker, Send(w)
  PROVE  DeliveryInv'
<1> DEFINE d == worker[w].job
           token == worker[w].token
<1>1. DeliveryTyped /\ SoundCircuit(circuit) /\ worker[w].pc = "claimed"
  BY DEF DeliveryInv, Send
<1>2. d \in Delivery /\ w \in Carriers(d) /\ token \in Live(d) /\ token \in Nat
  BY <1>1, ClaimHeld
<1>3. worker[w] \in [pc: {"claimed", "sent", "stuck"}, job: Delivery, token: Nat,
                     result: Result]
  BY <1>1 DEF DeliveryTyped, Scanning
<1> DEFINE Made(result, asked, arrived) ==
        /\ result \in Result /\ asked \subseteq {token} /\ arrived \subseteq asked
        /\ worker' = [worker EXCEPT ![w].pc = "sent", ![w].result = result]
        /\ sent' = [sent EXCEPT ![d] = @ \cup asked]
        /\ reached' = [reached EXCEPT ![d] = @ \cup arrived]
        /\ result.outcome = "SUCCESS" => token \in arrived
        /\ result.outcome \in {"TEMPORARY_FAILURE", "PERMANENT_FAILURE"}
             => arrived = {}
<1>4. PICK result, asked, arrived : Made(result, asked, arrived)
  <2>1. ASSUME NEW outcome \in Outcome,
               worker' = [worker EXCEPT ![w].pc = "sent",
                 ![w].result = [outcome |-> outcome, counts |-> TRUE]],
               sent' = [sent EXCEPT ![d] = @ \cup {token}],
               reached' = [reached EXCEPT ![d] =
                 IF outcome \in {"SUCCESS", "OUTCOME_UNKNOWN"} THEN @ \cup {token} ELSE @]
        PROVE  \E result, asked, arrived : Made(result, asked, arrived)
    <3> DEFINE result == [outcome |-> outcome, counts |-> TRUE]
               arrived == IF outcome \in {"SUCCESS", "OUTCOME_UNKNOWN"}
                          THEN {token} ELSE {}
    <3>1. result \in Result /\ result.outcome = outcome
      BY DEF Result
    <3>2. arrived \in SUBSET {token}
      OBVIOUS
    <3>3. reached' = [reached EXCEPT ![d] = @ \cup arrived]
      BY <2>1
    <3>4. worker' = [worker EXCEPT ![w].pc = "sent", ![w].result = result]
      BY <2>1
    <3>5. /\ outcome = "SUCCESS" => token \in arrived
          /\ outcome \in {"TEMPORARY_FAILURE", "PERMANENT_FAILURE"} => arrived = {}
      OBVIOUS
    <3> HIDE DEF result, arrived
    <3>7. Made(result, {token}, arrived)
      BY <2>1, <3>1, <3>2, <3>3, <3>4, <3>5
    <3> QED BY <3>7
  <2>2. ASSUME worker' = [worker EXCEPT ![w].pc = "sent",
                 ![w].result = [outcome |-> "PERMANENT_FAILURE", counts |-> FALSE]],
               UNCHANGED <<sent, reached>>
        PROVE  \E result, asked, arrived : Made(result, asked, arrived)
    <3> DEFINE result == [outcome |-> "PERMANENT_FAILURE", counts |-> FALSE]
               none == {}
    <3>1. result \in Result /\ result.outcome = "PERMANENT_FAILURE"
      BY DEF Result, Outcome
    <3>2. /\ sent' = [sent EXCEPT ![d] = @ \cup none]
          /\ reached' = [reached EXCEPT ![d] = @ \cup none]
      BY <1>1, <1>2, <2>2 DEF DeliveryTyped
    <3>3. worker' = [worker EXCEPT ![w].pc = "sent", ![w].result = result]
      BY <2>2
    <3>4. none \in SUBSET {token} /\ none \in SUBSET none /\ none = {}
      OBVIOUS
    <3> HIDE DEF result, none
    <3>5. Made(result, none, none)
      BY <3>1, <3>2, <3>3, <3>4
    <3> QED BY <3>5
  <2> QED BY <2>1, <2>2 DEF Send
<1>5. /\ worker'[w].pc = "sent" /\ worker'[w].job = d /\ worker'[w].token = token
      /\ worker'[w].result = result
      /\ worker'[w] \in [pc: {"claimed", "sent", "stuck"}, job: Delivery, token: Nat,
                         result: Result]
      /\ \A v \in Worker : v # w => worker'[v] = worker[v]
  BY <1>1, <1>3, <1>4 DEF DeliveryTyped
<1>6. DeliveryTyped'
  <2>1. worker' \in [Worker -> {Scanning} \cup
                 [pc: {"claimed", "sent", "stuck"}, job: Delivery, token: Nat,
                  result: Result]]
    BY <1>1, <1>4, <1>5 DEF DeliveryTyped
  <2>2. sent' \in [Delivery -> SUBSET Nat] /\ reached' \in [Delivery -> SUBSET Nat]
    BY <1>1, <1>2, <1>4 DEF DeliveryTyped
  <2> QED BY <1>1, <2>1, <2>2 DEF DeliveryTyped, Send
<1>7. \A e \in Delivery : Carriers(e)' = Carriers(e)
  BY <1>1, <1>5 DEF Carriers
<1>8. \A v \in Worker : worker'[v].token = worker[v].token
  BY <1>5
<1>9. OneCarrier'
  BY <1>7, <1>8 DEF DeliveryInv, OneCarrier, Carriers
<1>10. \A e \in Delivery : Live(e)' = Live(e)
  <2>1. \A e \in Delivery : {worker'[v].token : v \in Carriers(e)}
                              = {worker[v].token : v \in Carriers(e)}
    BY <1>8 DEF Carriers
  <2>2. \A e \in Delivery : reached'[e] = IF e = d THEN reached[d] \cup arrived
                                                   ELSE reached[e]
    BY <1>1, <1>4 DEF DeliveryTyped
  <2> DEFINE held == {worker[v].token : v \in Carriers(d)}
  <2>3. reached[d] \cup arrived \cup held = reached[d] \cup held
    <3>1. token \in held
      BY <1>2
    <3> HIDE DEF held
    <3> QED BY <3>1, <1>4
  <2>4. \A e \in Delivery : e = d => Live(e)' = Live(e)
    BY <1>2, <1>7, <2>1, <2>2, <2>3 DEF Live
  <2>5. \A e \in Delivery : e # d => Live(e)' = Live(e)
    BY <1>7, <2>1, <2>2 DEF Live
  <2> QED BY <2>4, <2>5
<1>11. RowsTrue'
  <2>1. SUFFICES ASSUME NEW e \in Delivery
                 PROVE  RowTrue(delivery[e], sent'[e], reached'[e], Live(e))
    BY <1>10 DEF RowsTrue, Send
  <2>2. delivery[e] \in Row /\ RowTrue(delivery[e], sent[e], reached[e], Live(e))
    BY <1>1 DEF DeliveryInv, RowsTrue, DeliveryTyped
  <2>3. CASE e = d
    <3>1. sent'[e] = sent[e] \cup asked /\ reached'[e] = reached[e] \cup arrived
      BY <1>1, <1>4, <2>3 DEF DeliveryTyped
    <3>2. RowTrue(delivery[e], sent[e] \cup {token}, reached'[e], Live(e))
      BY <1>2, <2>2, <2>3, <3>1, SendKeeps
    <3> QED BY <1>4, <3>1, <3>2 DEF RowTrue
  <2>4. CASE e # d
    BY <1>1, <1>4, <2>2, <2>4 DEF DeliveryTyped
  <2> QED BY <2>3, <2>4
<1>12. ResultsTrue'
  <2>1. ResultTrue(worker'[w], reached')
    <3>1. reached'[d] = reached[d] \cup arrived
      BY <1>1, <1>2, <1>4 DEF DeliveryTyped
    <3>2. token \notin reached[d]
      BY <1>1 DEF DeliveryInv, ResultsTrue, ResultTrue
    <3> QED BY <1>4, <1>5, <3>1, <3>2 DEF ResultTrue
  <2>2. ASSUME NEW v \in Worker, v # w
        PROVE  ResultTrue(worker'[v], reached')
    <3>1. worker'[v] = worker[v] /\ ResultTrue(worker[v], reached)
      BY <1>5, <2>2 DEF DeliveryInv, ResultsTrue
    <3>2. CASE worker[v].pc = "scan"
      BY <3>1, <3>2 DEF ResultTrue
    <3>3. CASE worker[v].pc # "scan"
      <4>1. worker[v].job \in Delivery /\ v \in Carriers(worker[v].job)
        BY <3>3, ClaimHeld
      <4>2. worker[v].job = d => worker[v].token # token
        BY <1>2, <2>2, <4>1 DEF DeliveryInv, OneCarrier
      <4>3. worker[v].token \in reached'[worker[v].job]
              <=> worker[v].token \in reached[worker[v].job]
        BY <1>1, <1>4, <4>1, <4>2 DEF DeliveryTyped
      <4> QED BY <3>1, <4>3 DEF ResultTrue
    <3> QED BY <3>2, <3>3
  <2> QED BY <2>1, <2>2 DEF ResultsTrue
<1>13. SoundCircuit(circuit')
  BY <1>1 DEF Send
<1> QED BY <1>6, <1>9, <1>11, <1>12, <1>13 DEF DeliveryInv

LEMMA RecordKeepsInv ==
  ASSUME DeliveryInv, NEW w \in Worker, Record(w)
  PROVE  DeliveryInv'
<1> DEFINE d == worker[w].job
           token == worker[w].token
           outcome == worker[w].result.outcome
           r == delivery[d]
<1>1. DeliveryTyped /\ SoundCircuit(circuit) /\ worker[w].pc = "sent"
  BY DEF DeliveryInv, Record
<1>2. /\ d \in Delivery /\ r \in Row /\ w \in Carriers(d) /\ token \in Nat
      /\ Holds(r, token) => r.status = "SENDING" /\ r.claims = token
      /\ outcome \in Outcome
  BY <1>1, ClaimHeld DEF Result
<1>3. \A e \in Delivery : /\ delivery[e] \in Row
                          /\ RowTrue(delivery[e], sent[e], reached[e], Live(e))
  BY <1>1 DEF DeliveryInv, DeliveryTyped, RowsTrue
<1>4. UNCHANGED <<circuit, prober, probes, sent, reached>>
  BY DEF Record
<1>5. /\ outcome = "SUCCESS" => token \in reached[d]
      /\ outcome \in {"TEMPORARY_FAILURE", "PERMANENT_FAILURE"} => token \notin reached[d]
  BY <1>1 DEF DeliveryInv, ResultsTrue, ResultTrue
<1>6. CASE /\ delivery' = IF Holds(r, token)
                          THEN [delivery EXCEPT ![d] = Recorded(@, outcome)]
                          ELSE delivery
           /\ worker' = [worker EXCEPT ![w] = Scanning]
  <2> DEFINE Without(e, fewer) ==
               w \in Carriers(e) /\ worker[w].token \notin reached[e]
                 => worker[w].token \notin fewer
  <2>1. \A e \in Delivery :
          /\ delivery'[e] \in Row
          /\ \A fewer \in SUBSET Live(e) :
               Without(e, fewer) => RowTrue(delivery'[e], sent[e], reached[e], fewer)
    <3>1. SUFFICES ASSUME NEW e \in Delivery
                   PROVE  /\ delivery'[e] \in Row
                          /\ \A fewer \in SUBSET Live(e) :
                               Without(e, fewer)
                                 => RowTrue(delivery'[e], sent[e], reached[e], fewer)
      OBVIOUS
    <3>2. CASE e = d /\ Holds(r, token)
      <4>1. delivery'[e] = Recorded(r, outcome)
        BY <1>1, <1>2, <1>6, <3>2 DEF DeliveryTyped
      <4>2. RowTrue(r, sent[d], reached[d], Live(d)) /\ r.status = "SENDING"
            /\ r.claims = token
        BY <1>2, <1>3, <3>2
      <4>3. ASSUME NEW fewer \in SUBSET Live(d), Without(d, fewer)
            PROVE  /\ Recorded(r, outcome) \in Row
                   /\ RowTrue(Recorded(r, outcome), sent[d], reached[d], fewer)
        <5>1. outcome \in {"TEMPORARY_FAILURE", "PERMANENT_FAILURE"}
                => r.claims \notin fewer
          BY <1>2, <1>5, <4>2, <4>3
        <5>2. outcome = "SUCCESS" => r.claims \in reached[d]
          BY <1>5, <4>2
        <5> HIDE DEF outcome, r
        <5> QED BY <1>2, <4>2, <4>3, <5>1, <5>2, RecordKeeps
      <4>4. Without(d, Live(d) \ {token})
        OBVIOUS
      <4>5. Recorded(r, outcome) \in Row
        BY <4>3, <4>4
      <4> QED BY <3>2, <4>1, <4>3, <4>5
    <3>3. CASE ~(e = d /\ Holds(r, token))
      <4>1. delivery'[e] = delivery[e]
        BY <1>1, <1>6, <3>3 DEF DeliveryTyped
      <4> QED BY <1>3, <4>1, FewerLive
    <3> QED BY <3>2, <3>3
  <2>2. delivery' \in [Delivery -> Row]
    BY <1>1, <1>6, <2>1 DEF DeliveryTyped
  <2> QED BY <1>1, <1>4, <1>6, <2>1, <2>2, FreedStep DEF DeliveryTyped
<1>7. CASE UNCHANGED delivery /\ worker' = [worker EXCEPT ![w].pc = "stuck"]
  <2>1. worker[w] \in [pc: {"claimed", "sent", "stuck"}, job: Delivery, token: Nat,
                       result: Result]
    BY <1>1 DEF DeliveryTyped, Scanning
  <2>2. /\ worker'[w].pc = "stuck" /\ worker'[w].job = d /\ worker'[w].token = token
        /\ worker'[w].result = worker[w].result
        /\ worker'[w] \in [pc: {"claimed", "sent", "stuck"}, job: Delivery, token: Nat,
                           result: Result]
        /\ \A v \in Worker : v # w => worker'[v] = worker[v]
    BY <1>1, <1>7, <2>1 DEF DeliveryTyped
  <2>3. worker' \in [Worker -> {Scanning} \cup
                 [pc: {"claimed", "sent", "stuck"}, job: Delivery, token: Nat,
                  result: Result]]
    BY <1>1, <1>7, <2>2 DEF DeliveryTyped
  <2>4. DeliveryTyped'
    BY <1>1, <1>4, <1>7, <2>3 DEF DeliveryTyped
  <2>5. \A e \in Delivery : Carriers(e)' = Carriers(e)
    BY <1>1, <2>2 DEF Carriers
  <2>6. \A v \in Worker : worker'[v].token = worker[v].token
    BY <2>2
  <2>7. \A e \in Delivery : Live(e)' = Live(e)
    <3>1. \A e \in Delivery : {worker'[v].token : v \in Carriers(e)}
                                = {worker[v].token : v \in Carriers(e)}
      BY <2>6 DEF Carriers
    <3> QED BY <3>1, <1>4, <2>5 DEF Live
  <2>8. OneCarrier'
    BY <2>5, <2>6 DEF DeliveryInv, OneCarrier, Carriers
  <2>9. RowsTrue'
    BY <1>3, <1>4, <1>7, <2>7 DEF RowsTrue
  <2>10. ResultsTrue'
    BY <1>1, <1>4, <2>2 DEF DeliveryInv, ResultsTrue, ResultTrue
  <2> QED BY <1>1, <1>4, <2>4, <2>8, <2>9, <2>10 DEF DeliveryInv
<1> QED BY <1>6, <1>7 DEF Record

\* A transaction is lost, a process dies, an abandoned session is collected.
LEMMA LossesKeep ==
  ASSUME DeliveryInv, Collect \/ \E w \in Worker : Lose(w) \/ Crash(w)
  PROVE  DeliveryInv'
<1>1. DeliveryTyped /\ SoundCircuit(circuit)
  BY DEF DeliveryInv
<1>2. \A e \in Delivery : RowTrue(delivery[e], sent[e], reached[e], Live(e))
  BY DEF DeliveryInv, RowsTrue
<1>3. CASE Collect
  BY <1>1, <1>2, <1>3, RowsStep DEF Collect, history, DeliveryTyped
<1>4. ASSUME NEW w \in Worker, Lose(w) \/ Crash(w)
      PROVE  DeliveryInv'
  <2>1. /\ worker' = [worker EXCEPT ![w] = Scanning]
        /\ UNCHANGED <<delivery, circuit, prober, probes, sent, reached>>
    BY <1>4 DEF Lose, Crash, history
  <2> QED BY <1>1, <1>2, <2>1, FewerLive, FreedStep DEF DeliveryTyped
<1> QED BY <1>3, <1>4

LEMMA DeliveryStep ==
  ASSUME DeliveryInv, [Next]_vars
  PROVE  DeliveryInv'
<1>1. CASE \E d \in Delivery : Draft(d) \/ Persist(d) \/ Cancel(d) \/ TimePasses(d)
  BY <1>1, RowActions
<1>2. CASE Reset \/ CooldownEnds
           \/ \E p \in Prober : Grant(p) \/ Probe(p) \/ ProbeLost(p)
  BY <1>2, CircuitActions
<1>3. CASE \E w \in Worker : WorkerStep(w)
  BY <1>3, ScanKeeps, SkipKeeps, BuildFailureKeeps, SendKeepsInv, RecordKeepsInv
  DEF WorkerStep
<1>4. CASE Collect \/ \E w \in Worker : Lose(w) \/ Crash(w)
  BY <1>4, LossesKeep
<1>5. CASE UNCHANGED vars
  <2>1. /\ DeliveryTyped /\ SoundCircuit(circuit)
        /\ \A e \in Delivery : RowTrue(delivery[e], sent[e], reached[e], Live(e))
    BY DEF DeliveryInv, RowsTrue
  <2> QED BY <1>5, <2>1, RowsStep DEF vars, DeliveryTyped
<1> QED BY <1>1, <1>2, <1>3, <1>4, <1>5 DEF Next

\* The invariant holds in every reachable state.
THEOREM DeliveryInvariant == Spec => []DeliveryInv
<1>1. Init => DeliveryInv
  BY DeliveryInit
<1>2. DeliveryInv /\ [Next]_vars => DeliveryInv'
  BY DeliveryStep
<1> QED BY <1>1, <1>2, PTL DEF Spec

(***************************************************************************)
(* The theorems.                                                           *)
(***************************************************************************)
\* A delivery makes no more requests than its budget, its receiver sees it at
\* most twice, and the circuit is in a state that the code means.
THEOREM Deliveries == Spec => []DeliverySound
<1>1. DeliveryInv => DeliverySound
  <2> SUFFICES ASSUME DeliveryInv
               PROVE  DeliverySound
    OBVIOUS
  <2>1. RequestBudget
    BY DEF DeliveryInv, RowsTrue, RowTrue, Counted, RequestBudget
  <2>2. DuplicateLimit
    <3>1. SUFFICES ASSUME NEW d \in Delivery
                   PROVE  Cardinality(reached[d]) <= 2
      BY DEF DuplicateLimit
    <3> DEFINE n == delivery[d].claims
               two == n - 1 .. n
    <3>2. n \in Nat /\ delivery[d].unknowns \in {0, 1}
      BY DEF DeliveryInv, DeliveryTyped, Row
    <3>3. reached[d] \subseteq two
      <4>1. \A m \in reached[d] : m = n \/ m = n - 1
        BY <3>2 DEF DeliveryInv, RowsTrue, RowTrue, LiveClaims, Live
      <4> QED BY <3>2, <4>1
    <3>4. IsFiniteSet(two) /\ Cardinality(two) = 2
      <4>1. n - 1 \in Int /\ n \in Int /\ ~(n - 1 > n) /\ n - (n - 1) + 1 = 2
        BY <3>2
      <4> QED BY <4>1, FS_Interval
    <3> HIDE DEF two
    <3>5. Cardinality(reached[d]) <= Cardinality(two)
      BY <3>3, <3>4, FS_Subset
    <3> QED BY <3>4, <3>5
  <2>3. CircuitSound
    BY DEF DeliveryInv, SoundCircuit, CircuitSound
  <2> QED BY <2>1, <2>2, <2>3 DEF DeliverySound
<1> QED BY <1>1, DeliveryInvariant, PTL

\* The final status of a delivery tells what became of its last request.
THEOREM LastRequests == Spec => []LastRequestDecides
<1>1. DeliveryInv => LastRequestDecides
  BY DEF DeliveryInv, RowsTrue, RowTrue, StatusTrue, LastRequestDecides, Live
<1> QED BY <1>1, DeliveryInvariant, PTL

\* Only the latest probe, or a reset, takes the circuit out of half open.
THEOREM LatestProbes == Spec => LatestProbeDecides
<1> DEFINE Leaves == circuit.state = "HALF_OPEN" /\ circuit'.state # "HALF_OPEN"
           Decided == \/ circuit' = Closed /\ UNCHANGED prober
                      \/ \E p \in Prober : /\ prober[p].token = circuit.probe
                                           /\ prober'[p] # prober[p]
<1>1. ASSUME DeliveryInv, [Next]_vars, Leaves
      PROVE  Decided
  <2>0. DeliveryTyped /\ SoundCircuit(circuit) /\ circuit.probe # NoToken
    BY <1>1 DEF DeliveryInv, SoundCircuit
  <2>1. circuit' # circuit
    BY <1>1
  <2>2. CASE \E w \in Worker : Scan(w)
    BY <1>1, <2>1, <2>2, RecoveryKeeps DEF Scan
  <2>3. ASSUME NEW w \in Worker, BuildFailure(w)
        PROVE  Decided
    <3>1. PICK rows, outcome, counts :
            circuit' = ResultRecorded([circuit |-> circuit, rows |-> rows],
                                      outcome, counts, NoToken).circuit
      BY <2>3 DEF BuildFailure
    <3>2. ~Told(circuit, counts, NoToken)
      BY <1>1, <2>0 DEF Told, Answers
    <3> QED BY <2>1, <3>1, <3>2 DEF ResultRecorded
  <2>4. ASSUME NEW p \in Prober, Probe(p)
        PROVE  Decided
    <3>1. PICK outcome \in Outcome :
            circuit' = ResultRecorded([circuit |-> circuit, rows |-> delivery],
                                      outcome, TRUE, prober[p].token).circuit
      BY <2>4 DEF Probe
    <3>2. Told(circuit, TRUE, prober[p].token)
      BY <2>1, <3>1 DEF ResultRecorded
    <3>3. prober[p].token = circuit.probe
      BY <1>1, <3>2 DEF Told, Answers
    <3>4. prober'[p].probing = FALSE /\ prober[p].probing
      BY <2>0, <2>4 DEF Probe, NotProbing, DeliveryTyped
    <3> QED BY <3>3, <3>4
  <2>5. CASE Reset
    BY <2>5 DEF Reset
  <2>6. CASE CooldownEnds
    BY <1>1, <2>0, <2>6 DEF CooldownEnds, DeliveryTyped, Circuit
  <2>7. CASE \E p \in Prober : Grant(p)
    BY <1>1, <2>0, <2>7 DEF Grant, DeliveryTyped, Circuit
  <2> QED BY <1>1, <2>1, <2>2, <2>3, <2>4, <2>5, <2>6, <2>7
      DEF Next, vars, WorkerStep, TimePasses, Draft, Persist, Cancel, LeaseEnds,
          WaitEnds, DeferralEnds, Skip, Send, Record, Lose, Crash, Collect, ProbeLost
<1>2. DeliveryInv /\ [Next]_vars => [Leaves => Decided]_vars
  BY <1>1
<1> QED BY <1>2, DeliveryInvariant, PTL DEF Spec, LatestProbeDecides

-----------------------------------------------------------------------------
(***************************************************************************)
(* The circuit of a data source (ProviderCircuit).  Not only its row but   *)
(* every snapshot a caller carries is a row that updates alone would       *)
(* leave; so whatever is written over whatever, the row stays one.         *)
(***************************************************************************)
\* What updates alone may leave in the row.
SourceRow ==
  {row \in [state: {"CLOSED", "OPEN", "HALF_OPEN"}, failures: 0 .. Provider!Threshold,
            level: 1 .. 3, opened: 0 .. Provider!MaxAge, updated: 0 .. ProbeTimeout] :
     row.state = "CLOSED" => row.failures < Provider!Threshold /\ row.level = 1}

\* Where a caller may be, and what he carries.
SourceStep ==
  {Provider!Idle}
    \cup [pc: {"granted", "reset", "operating", "observing"}, observed: BOOLEAN]
    \cup [pc: {"announcing", "writing"}, seen: SourceRow]

SourceInv == breaker \in SourceRow /\ caller \in [Caller -> SourceStep]

\* The updates of PostgresProviderRuntimeState keep a row sound, and so does time.
LEMMA SourceUpdates ==
  ASSUME NEW row \in SourceRow
  PROVE  /\ Provider!HalfOpened(row) \in SourceRow
         /\ Provider!Failed(row) \in SourceRow
         /\ Provider!Older(row) \in SourceRow
         /\ [row EXCEPT !.state = "OPEN", !.opened = Provider!MaxAge] \in SourceRow
<1> DEFINE Fields == [state: {"CLOSED", "OPEN", "HALF_OPEN"},
                      failures: 0 .. Provider!Threshold, level: 1 .. 3,
                      opened: 0 .. Provider!MaxAge, updated: 0 .. ProbeTimeout]
<1>0. ProbeTimeout \in Nat /\ Provider!MaxAge \in Nat /\ Provider!Threshold = 3
  BY CircuitsAssumption DEF Provider!MaxAge, Provider!Threshold
<1>1. /\ 0 \in 0 .. ProbeTimeout /\ 0 \in 0 .. Provider!MaxAge
      /\ Provider!MaxAge \in 0 .. Provider!MaxAge
  BY <1>0
<1>2. /\ row \in Fields
      /\ row.state = "CLOSED" => row.failures < 3 /\ row.level = 1
  BY <1>0 DEF SourceRow
<1>3. ASSUME NEW next \in Fields,
             next.state = "CLOSED" => next.failures < 3 /\ next.level = 1
      PROVE  next \in SourceRow
  BY <1>0, <1>3 DEF SourceRow
<1>4. Provider!HalfOpened(row) \in SourceRow
  <2> DEFINE next == [row EXCEPT !.state = "HALF_OPEN", !.updated = 0]
  <2>1. next \in Fields /\ next.state = "HALF_OPEN"
    BY <1>1, <1>2
  <2>2. next \in SourceRow
    BY <1>3, <2>1
  <2> QED BY <2>2 DEF Provider!HalfOpened
<1>5. Provider!Failed(row) \in SourceRow
  <2>1. ASSUME row.state = "HALF_OPEN"
        PROVE  Provider!Failed(row) \in SourceRow
    <3> DEFINE level == IF row.level < 3 THEN row.level + 1 ELSE 3
    <3>1. level \in 1 .. 3
      BY <1>2
    <3> HIDE DEF level
    <3>2. [state |-> "OPEN", failures |-> 3, opened |-> 0, updated |-> 0,
           level |-> level] \in SourceRow
      BY <1>0, <1>3, <3>1
    <3> QED BY <1>0, <2>1, <3>2 DEF Provider!Failed, level
  <2>2. ASSUME row.state # "HALF_OPEN", row.failures >= 2
        PROVE  Provider!Failed(row) \in SourceRow
    <3> DEFINE next == [row EXCEPT !.state = "OPEN", !.failures = 3, !.opened = 0,
                                   !.updated = 0]
    <3>0. 3 \in 0 .. Provider!Threshold
      BY <1>0
    <3>1. next \in Fields /\ next.state = "OPEN"
      BY <3>0, <1>1, <1>2
    <3>2. next \in SourceRow
      BY <1>3, <3>1
    <3> QED BY <1>0, <1>2, <2>2, <3>2 DEF Provider!Failed
  <2>3. ASSUME row.state # "HALF_OPEN", ~(row.failures >= 2)
        PROVE  Provider!Failed(row) \in SourceRow
    <3> DEFINE failures == row.failures + 1
    <3>1. failures \in 0 .. 3 /\ failures < 3
      BY <1>0, <1>2, <2>3
    <3> HIDE DEF failures
    <3> DEFINE next == [row EXCEPT !.failures = failures, !.updated = 0]
    <3>2. /\ next \in Fields /\ next.state = row.state
          /\ next.failures = failures /\ next.level = row.level
      BY <1>0, <1>1, <1>2, <3>1
    <3>3. next \in SourceRow
      BY <1>2, <1>3, <3>1, <3>2
    <3> QED BY <1>0, <1>2, <2>3, <3>3 DEF Provider!Failed, failures
  <2> QED BY <2>1, <2>2, <2>3
<1>6. Provider!Older(row) \in SourceRow
  <2> DEFINE opened == IF row.opened < Provider!MaxAge /\ row.state # "CLOSED"
                       THEN row.opened + 1 ELSE row.opened
             updated == IF row.updated < ProbeTimeout /\ row.state = "HALF_OPEN"
                        THEN row.updated + 1 ELSE row.updated
  <2>1. opened \in 0 .. Provider!MaxAge /\ updated \in 0 .. ProbeTimeout
    BY <1>0, <1>2
  <2> HIDE DEF opened, updated
  <2> DEFINE next == [row EXCEPT !.opened = opened, !.updated = updated]
  <2>2. /\ next \in Fields /\ next.state = row.state
        /\ next.failures = row.failures /\ next.level = row.level
    BY <1>2, <2>1
  <2>3. next \in SourceRow
    BY <1>2, <1>3, <2>2
  <2> QED BY <1>2, <2>3 DEF Provider!Older, opened, updated
<1>7. [row EXCEPT !.state = "OPEN", !.opened = Provider!MaxAge] \in SourceRow
  <2> DEFINE next == [row EXCEPT !.state = "OPEN", !.opened = Provider!MaxAge]
  <2>1. next \in Fields /\ next.state = "OPEN"
    BY <1>1, <1>2
  <2> QED BY <1>3, <2>1
<1> QED BY <1>4, <1>5, <1>6, <1>7

\* A snapshot written over the row, whole or without opened_at, is sound again.
LEMMA SourceWrites ==
  ASSUME NEW row \in SourceRow, NEW seen \in SourceRow
  PROVE  /\ Provider!Written(row, seen) \in SourceRow
         /\ [seen EXCEPT !.opened = row.opened] \in SourceRow
<1>1. ProbeTimeout \in Nat /\ Provider!MaxAge \in Nat
  BY CircuitsAssumption DEF Provider!MaxAge
<1>2. [seen EXCEPT !.updated = 0] \in SourceRow
  BY <1>1 DEF SourceRow
<1>3. Provider!Written(row, seen) \in SourceRow
  BY <1>2 DEF Provider!Written
<1>4. [seen EXCEPT !.opened = row.opened] \in SourceRow
  BY DEF SourceRow
<1> QED BY <1>3, <1>4

\* A caller moves on, and the row stays sound.
LEMMA SourceGoes ==
  ASSUME SourceInv, NEW p \in Caller, NEW step \in SourceStep, Provider!Go(p, step),
         breaker' \in SourceRow
  PROVE  SourceInv'
BY DEF SourceInv, Provider!Go

\* What a caller carries, by where he is.
LEMMA SourceCarries ==
  ASSUME SourceInv, NEW p \in Caller
  PROVE  /\ caller[p] \in SourceStep
         /\ caller[p].pc \in {"granted", "reset", "operating", "observing"} =>
              caller[p].observed \in BOOLEAN
         /\ caller[p].pc \in {"announcing", "writing"} => caller[p].seen \in SourceRow
<1>1. caller[p] \in SourceStep
  BY DEF SourceInv
<1> QED BY <1>1 DEF SourceStep, Provider!Idle

\* Where a caller may go.
LEMMA SourceSteps ==
  /\ Provider!Idle \in SourceStep
  /\ \A pc \in {"granted", "reset", "operating", "observing"}, observed \in BOOLEAN :
       Provider!Called(pc, observed) \in SourceStep
  /\ \A pc \in {"announcing", "writing"}, seen \in SourceRow :
       [pc |-> pc, seen |-> seen] \in SourceStep
BY DEF SourceStep, Provider!Called

LEMMA SourceInitial == CircuitsInit => SourceInv
<1> SUFFICES ASSUME Provider!Init PROVE SourceInv
  BY DEF CircuitsInit
<1>1. ProbeTimeout \in Nat /\ Provider!MaxAge \in Nat
  BY CircuitsAssumption DEF Provider!MaxAge
<1>2. breaker \in SourceRow
  BY <1>1 DEF Provider!Init, Provider!Closed, SourceRow, Provider!Threshold
<1> QED BY <1>2, SourceSteps DEF SourceInv, Provider!Init

\* A call through the circuit.
LEMMA SourceCalls ==
  ASSUME SourceInv, NEW p \in Caller,
         \/ Provider!Allow(p) \/ Provider!Probe(p) \/ Provider!Reset(p)
         \/ Provider!ProbeReset(p) \/ Provider!Operate(p)
  PROVE  SourceInv'
<1>0. breaker \in SourceRow
  BY DEF SourceInv
<1>1. CASE Provider!Allow(p)
  <2>1. \/ breaker' = Provider!HalfOpened(breaker)
           /\ Provider!Go(p, Provider!Called("granted", TRUE))
        \/ breaker' = breaker /\ Provider!Go(p, Provider!Called("observing", TRUE))
    BY <1>1 DEF Provider!Allow
  <2> QED BY <1>0, <2>1, SourceUpdates, SourceSteps, SourceGoes
<1>2. CASE Provider!Probe(p)
  BY <1>0, <1>2, SourceUpdates, SourceSteps, SourceGoes DEF Provider!Probe
<1>3. CASE Provider!Reset(p)
  BY <1>0, <1>3, SourceUpdates, SourceSteps, SourceGoes DEF Provider!Reset
<1>4. CASE Provider!ProbeReset(p)
  <2>1. \/ breaker' = Provider!HalfOpened(breaker)
           /\ Provider!Go(p, Provider!Called("granted", FALSE))
        \/ breaker' = breaker /\ Provider!Go(p, Provider!Idle)
    BY <1>4 DEF Provider!ProbeReset
  <2> QED BY <1>0, <2>1, SourceUpdates, SourceSteps, SourceGoes
<1>5. CASE Provider!Operate(p)
  <2> DEFINE observing == Provider!Called("observing", caller[p].observed)
  <2>1. observing \in SourceStep
    BY <1>5, SourceCarries, SourceSteps DEF Provider!Operate, Provider!At
  <2>2. Provider!Succeeded(breaker) \in SourceRow
    <3>1. ProbeTimeout \in Nat /\ Provider!MaxAge \in Nat
      BY CircuitsAssumption DEF Provider!MaxAge
    <3> QED BY <3>1 DEF Provider!Succeeded, Provider!Closed, SourceRow, Provider!Threshold
  <2>3. /\ \/ breaker' = Provider!Succeeded(breaker)
           \/ breaker' = Provider!Failed(breaker)
        /\ Provider!Go(p, observing) \/ Provider!Go(p, Provider!Idle)
    BY <1>5 DEF Provider!Operate
  <2> HIDE DEF observing
  <2> QED BY <1>0, <2>1, <2>2, <2>3, SourceUpdates, SourceSteps, SourceGoes
<1> QED BY <1>1, <1>2, <1>3, <1>4, <1>5

\* A snapshot is taken, or written.
LEMMA SourceSnapshots ==
  ASSUME SourceInv, NEW p \in Caller,
         \/ Provider!Snapshot(p) \/ Provider!Announce(p)
         \/ Provider!Observe(p) \/ Provider!Write(p)
  PROVE  SourceInv'
<1>0. breaker \in SourceRow
  BY DEF SourceInv
<1>1. CASE Provider!Snapshot(p)
  <2>1. /\ breaker' = breaker
        /\ \/ Provider!Go(p, [pc |-> "announcing", seen |-> breaker])
           \/ Provider!Go(p, Provider!Called("operating", caller[p].observed))
    BY <1>1 DEF Provider!Snapshot
  <2>2. caller[p].observed \in BOOLEAN
    BY <1>1, SourceCarries DEF Provider!Snapshot, Provider!At
  <2> QED BY <1>0, <2>1, <2>2, SourceSteps, SourceGoes
<1>2. CASE Provider!Announce(p)
  <2>1. caller[p].seen \in SourceRow
    BY <1>2, SourceCarries DEF Provider!Announce, Provider!At
  <2>2. breaker' \in SourceRow
    BY <1>0, <1>2, <2>1, SourceWrites DEF Provider!Announce
  <2> QED BY <1>2, <2>2, SourceSteps, SourceGoes DEF Provider!Announce
<1>3. CASE Provider!Observe(p)
  BY <1>0, <1>3, SourceSteps, SourceGoes DEF Provider!Observe
<1>4. CASE Provider!Write(p)
  <2>1. caller[p].seen \in SourceRow
    BY <1>4, SourceCarries DEF Provider!Write, Provider!At
  <2>2. breaker' \in SourceRow
    BY <1>0, <1>4, <2>1, SourceWrites DEF Provider!Write
  <2> QED BY <1>4, <2>2, SourceSteps, SourceGoes DEF Provider!Write
<1> QED BY <1>1, <1>2, <1>3, <1>4

\* Time ages the row and every snapshot of it.
LEMMA SourceAges ==
  ASSUME SourceInv, Provider!Tick
  PROVE  SourceInv'
<1>1. breaker' \in SourceRow
  BY SourceUpdates DEF SourceInv, Provider!Tick
<1>2. ASSUME NEW p \in Caller
      PROVE  caller'[p] \in SourceStep
  <2>1. CASE caller[p].pc \in {"announcing", "writing"}
    <3>1. caller'[p] = [caller[p] EXCEPT !.seen = Provider!Older(caller[p].seen)]
      BY <1>2, <2>1 DEF Provider!Tick
    <3>2. Provider!Older(caller[p].seen) \in SourceRow
      BY <1>2, <2>1, SourceCarries, SourceUpdates
    <3>3. caller[p] \in [pc: {"announcing", "writing"}, seen: SourceRow]
      BY <1>2, <2>1, SourceCarries DEF SourceStep, Provider!Idle
    <3> QED BY <3>1, <3>2, <3>3 DEF SourceStep
  <2>2. CASE caller[p].pc \notin {"announcing", "writing"}
    BY <1>2, <2>2, SourceCarries DEF Provider!Tick
  <2> QED BY <2>1, <2>2
<1>3. caller' = [p \in Caller |-> caller'[p]]
  BY DEF Provider!Tick
<1> QED BY <1>1, <1>2, <1>3 DEF SourceInv

LEMMA SourceStepKeeps ==
  SourceInv /\ [CircuitsNext]_<<vars, provider, kind>> => SourceInv'
<1> SUFFICES ASSUME SourceInv, [CircuitsNext]_<<vars, provider, kind>>
             PROVE  SourceInv'
  OBVIOUS
<1>1. CASE UNCHANGED provider
  BY <1>1 DEF SourceInv, provider
<1>2. ASSUME NEW p \in Caller, Provider!Crash(p)
      PROVE  SourceInv'
  BY <1>2, SourceSteps, SourceGoes DEF Provider!Crash, SourceInv
<1>3. CASE Provider!Next
  BY <1>2, <1>3, SourceCalls, SourceSnapshots, SourceAges
  DEF Provider!Next, Provider!Step
<1> QED BY <1>1, <1>3 DEF CircuitsNext, provider

\* Grants, outcomes and stale snapshots of any number of callers, written in any
\* order over one another, leave a row that a single update could have left.
THEOREM SourceKept == CircuitsSpec => []Provider!CircuitSound
<1>1. SourceInv => Provider!CircuitSound
  BY CircuitsAssumption
  DEF SourceInv, SourceRow, Provider!CircuitSound, Provider!TypeOK
<1> QED BY <1>1, SourceInitial, SourceStepKeeps, PTL DEF CircuitsSpec

\* Both circuit breakers and those who call through them: the budget of the
\* deliveries is kept, and no stale snapshot spoils the circuit of a data source.
THEOREM CircuitsKept == CircuitsSpec => []CircuitsSound
<1>1. CircuitsInit => Init
  BY DEF CircuitsInit
<1>2. [CircuitsNext]_<<vars, provider, kind>> => [Next]_vars
  BY DEF CircuitsNext
<1>3. DeliverySound /\ Provider!CircuitSound => CircuitsSound
  BY DEF CircuitsSound
<1> QED BY <1>1, <1>2, <1>3, Deliveries, SourceKept, PTL DEF CircuitsSpec, Spec

=============================================================================
