--------------------------- MODULE ProviderCircuit --------------------------
(***************************************************************************)
(* The circuit of one capability of a data source                          *)
(* (backend/src/long_invest/modules/providers): the invocation pipeline    *)
(* (resilience.py) asks it and reports to it (postgres_runtime.py), and    *)
(* the observer writes it as well, from a snapshot (repository.py).        *)
(*                                                                         *)
(* The callers are coroutines of several processes.  Each transaction is   *)
(* one action; what a caller has read in one it uses in another.  Time is  *)
(* kept as ages, in steps of the shortest cooldown.                        *)
(***************************************************************************)
EXTENDS Naturals

CONSTANTS
  Caller,
  Cooldowns,          \* the cooldown of each level, a sequence
  ProbeTimeout        \* _probe_timeout

VARIABLES
  circuit,            \* the row of provider_circuit_state
  caller              \* where each caller is

vars == <<circuit, caller>>

MaxAge == Cooldowns[3]
Threshold == 3

\* opened: the time since opened_at, updated: since updated_at; the age of an
\* open circuit stops at MaxAge, that of a half open one at ProbeTimeout.
Closed == [state |-> "CLOSED", failures |-> 0, level |-> 1, opened |-> 0, updated |-> 0]

Idle == [pc |-> "idle"]

Init == circuit = Closed /\ caller = [p \in Caller |-> Idle]

At(p, pc) == caller[p].pc = pc
Go(p, step) == caller' = [caller EXCEPT ![p] = step]

(***************************************************************************)
(* PostgresProviderRuntimeState.                                           *)
(***************************************************************************)
\* Faulty variant: a probe is waited for, were it lost or not.
GrantedOnce(row) ==
  \/ row.state = "CLOSED"
  \/ row.state = "OPEN" /\ row.opened >= Cooldowns[row.level]

\* allow: a closed circuit, one that has cooled, one whose probe is overdue.
Granted(row) ==
  \/ row.state = "CLOSED"
  \/ row.state = "OPEN" /\ row.opened >= Cooldowns[row.level]
  \/ row.state = "HALF_OPEN" /\ row.updated >= ProbeTimeout

HalfOpened(row) ==
  IF row.state = "CLOSED" THEN row
  ELSE [row EXCEPT !.state = "HALF_OPEN", !.updated = 0]

\* record_success
Succeeded(row) == Closed

\* Faulty variant: the circuit opens after more failures than the threshold.
FailedBeyond(row) ==
  IF row.state = "HALF_OPEN"
  THEN [state |-> "OPEN", failures |-> Threshold, opened |-> 0, updated |-> 0,
        level |-> IF row.level < 3 THEN row.level + 1 ELSE 3]
  ELSE IF row.failures >= Threshold
  THEN [row EXCEPT !.state = "OPEN", !.failures = Threshold, !.opened = 0, !.updated = 0]
  ELSE [row EXCEPT !.failures = @ + 1, !.updated = 0]

\* record_failure; failures stop being counted at Threshold.
Failed(row) ==
  IF row.state = "HALF_OPEN"
  THEN [state |-> "OPEN", failures |-> Threshold, opened |-> 0, updated |-> 0,
        level |-> IF row.level < 3 THEN row.level + 1 ELSE 3]
  ELSE IF row.failures >= Threshold - 1
  THEN [row EXCEPT !.state = "OPEN", !.failures = Threshold, !.opened = 0, !.updated = 0]
  ELSE [row EXCEPT !.failures = @ + 1, !.updated = 0]

\* What the observer writes over a row: what a caller has seen of it before.
Written(row, seen) ==
  IF [seen EXCEPT !.updated = row.updated] = row THEN row
  ELSE [seen EXCEPT !.updated = 0]

(***************************************************************************)
(* ProviderInvocationPipeline.call.                                        *)
(***************************************************************************)
\* Who probes by hand is not observed, but writes what it saw when the source
\* has answered.
Called(pc, observed) == [pc |-> pc, observed |-> observed]

\* allow; a refusal is observed as well.
Allow(p) ==
  /\ At(p, "idle")
  /\ IF Granted(circuit)
     THEN circuit' = HalfOpened(circuit) /\ Go(p, Called("granted", TRUE))
     ELSE UNCHANGED circuit /\ Go(p, Called("observing", TRUE))

\* ProviderService.probe_circuit
Probe(p) ==
  /\ At(p, "idle") /\ Granted(circuit)
  /\ circuit' = HalfOpened(circuit) /\ Go(p, Called("granted", FALSE))

\* reset_circuit: force_half_open, after which the circuit was opened in 1970,
Reset(p) ==
  /\ At(p, "idle")
  /\ circuit' = [circuit EXCEPT !.state = "OPEN", !.opened = MaxAge]
  /\ Go(p, Called("reset", FALSE))

\* and the probe, which waits for no cooldown.
ProbeReset(p) ==
  /\ At(p, "reset")
  /\ IF circuit.state = "OPEN" \/ Granted(circuit)
     THEN circuit' = HalfOpened(circuit) /\ Go(p, Called("granted", FALSE))
     ELSE UNCHANGED circuit /\ Go(p, Idle)

\* circuit_snapshot, after the grant
Snapshot(p) ==
  /\ At(p, "granted")
  /\ IF caller[p].observed /\ circuit.state = "HALF_OPEN"
     THEN Go(p, [pc |-> "announcing", seen |-> circuit])
     ELSE Go(p, Called("operating", caller[p].observed))
  /\ UNCHANGED circuit

\* record_half_open writes all of the snapshot but opened_at.
Announce(p) ==
  /\ At(p, "announcing")
  /\ circuit' = Written(circuit, [caller[p].seen EXCEPT !.opened = circuit.opened])
  /\ Go(p, Called("operating", TRUE))

\* The operation ends, within its timeout (up to ten times ProbeTimeout): by an
\* answer, by an answer that shows the source unhealthy, or by an error, which
\* ends a probe by hand.  A request denied by the budget is such an error.
Operate(p) ==
  LET observing == Called("observing", caller[p].observed) IN
  /\ At(p, "operating")
  /\ \/ circuit' = Succeeded(circuit) /\ Go(p, observing)
     \/ circuit' = Failed(circuit) /\ Go(p, observing)
     \/ circuit' = Failed(circuit) /\ Go(p, IF caller[p].observed THEN observing ELSE Idle)

\* circuit_snapshot once more ...
Observe(p) ==
  /\ At(p, "observing")
  /\ Go(p, [pc |-> "writing", seen |-> circuit])
  /\ UNCHANGED circuit

\* ... and record_outcome, or persist_probe, which write all of it.
Write(p) ==
  /\ At(p, "writing")
  /\ circuit' = Written(circuit, caller[p].seen)
  /\ Go(p, Idle)

\* The process dies.
Crash(p) == ~At(p, "idle") /\ Go(p, Idle) /\ UNCHANGED circuit

Older(row) ==
  [row EXCEPT !.opened = IF @ < MaxAge /\ row.state # "CLOSED" THEN @ + 1 ELSE @,
              !.updated = IF @ < ProbeTimeout /\ row.state = "HALF_OPEN" THEN @ + 1 ELSE @]

Tick ==
  /\ circuit' = Older(circuit)
  /\ caller' = [p \in Caller |->
       IF caller[p].pc \in {"announcing", "writing"} THEN [caller[p] EXCEPT !.seen = Older(@)]
       ELSE caller[p]]

-----------------------------------------------------------------------------
Step(p) ==
  \/ ProbeReset(p) \/ Snapshot(p) \/ Announce(p) \/ Operate(p)
  \/ Observe(p) \/ Write(p)

Next ==
  \/ \E p \in Caller : Allow(p) \/ Probe(p) \/ Reset(p) \/ Step(p) \/ Crash(p)
  \/ Tick

Spec == Init /\ [][Next]_vars

\* Time passes, and operations end.
Fairness == WF_vars(Tick) /\ \A p \in Caller : WF_vars(Step(p))
FairSpec == Spec /\ Fairness

-----------------------------------------------------------------------------
(* Properties. *)

\* Types.
TypeOK ==
  /\ circuit.state \in {"CLOSED", "OPEN", "HALF_OPEN"}
  /\ circuit.failures \in 0 .. Threshold /\ circuit.level \in 1 .. 3
  /\ circuit.opened \in 0 .. MaxAge /\ circuit.updated \in 0 .. ProbeTimeout

(***************************************************************************)
(* Grants, outcomes and stale snapshots, written in any order, never mix   *)
(* into a row no single update would leave: a closed circuit has counted   *)
(* fewer failures than open it, and its next cooldown is the shortest.     *)
(***************************************************************************)
CircuitSound ==
  /\ TypeOK
  /\ circuit.state = "CLOSED" => circuit.failures < Threshold /\ circuit.level = 1

(***************************************************************************)
(* No circuit refuses its callers for ever, whatever callers die while     *)
(* they probe and whatever stale snapshots are written over it: unless     *)
(* administrators reset it again and again, calls are granted again.       *)
(***************************************************************************)
GrantsAgain ==
  <>[][\A p \in Caller : ~Reset(p)]_vars => []<>Granted(circuit)

(***************************************************************************)
(* The requirement that every change of a circuit is an atomic update of   *)
(* the database, and that an open circuit is left by a probe only: it      *)
(* closes from HALF_OPEN, never from OPEN.                                 *)
(***************************************************************************)
OpenUntilProbed ==
  [][circuit.state = "OPEN" => circuit'.state # "CLOSED"]_vars
=============================================================================
