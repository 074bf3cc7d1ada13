----------------------------- MODULE QuoteCycles -----------------------------
(***************************************************************************)
(* One batch of quotes kept in the database (quote_cycle and its items):   *)
(* the executions of the job that collect it, which may overlap after a    *)
(* lost lease, may be canceled at any await, and all work on the one batch *)
(* their job's key names.  A quote is what its validation says of it: when *)
(* the fallback scope is computed, and again when it is submitted.         *)
(***************************************************************************)
EXTENDS Integers, FiniteSets

CONSTANTS Symbol,     \* the frozen scope of the batch
          Collector,  \* executions of the job
          MaxMishaps  \* bound on cancellations, failed clean-ups and crashes

VARIABLES
  cycle,      \* the quote_cycle row with its items
  announced,  \* the valid items the quote_cycle.finalized event named, or "none"
  expired,    \* the deadline of the batch has passed
  collector,  \* [Collector -> where the execution is and what it fetched]
  mishaps

cycleVars == <<cycle, announced, expired, collector, mishaps>>

TERMINAL_CYCLES == {"READY", "PARTIAL", "FAILED", "CANCELED"}
Closed == cycle.status \in TERMINAL_CYCLES

\* "aging" goes stale, and "early" stops being in the future, between the two
\* validations of a primary quote.
\* "none" is a quote that is missing or never valid.
Primary  == {"good", "aging", "early", "none"}
Fallback == {"good", "none"}
ValidWhenScoped(q)    == q \in {"good", "aging"}
ValidWhenSubmitted(q) == q \in {"good", "early"}

Waiting == [step |-> "waiting", primary |-> [s \in Symbol |-> "none"],
            fallback |-> [s \in Symbol |-> "none"], left |-> {}, answer |-> "none"]

CyclesInit ==
  /\ cycle = [status |-> "none", item |-> [s \in Symbol |-> "MISSING"],
              eligible |-> {}, valid |-> 0, missing |-> 0, conflict |-> 0, failed |-> 0]
  /\ announced = "none"
  /\ expired = FALSE
  /\ collector = [c \in Collector |-> Waiting]
  /\ mishaps = 0

Mishap == mishaps < MaxMishaps /\ mishaps' = mishaps + 1
At(c, step) == collector[c].step = step
Goes(c, step) == collector' = [collector EXCEPT ![c] = [Waiting EXCEPT !.step = step]]

\* The job reports the batch it was handed: a batch with nothing usable failed.
JobEnd(status) ==
  CASE status = "READY"   -> "SUCCEEDED"
    [] status = "PARTIAL" -> "PARTIAL"
    [] OTHER              -> "FAILED"

Answers(c, status) ==
  collector' = [collector EXCEPT
    ![c] = [Waiting EXCEPT !.step = "done", !.answer = JobEnd(status)]]

-----------------------------------------------------------------------------
(* What a collection does.                                                  *)

\* create and start in one transaction; a second execution finds the same row.
CreateAndStart ==
  cycle' = IF cycle.status = "none" THEN [cycle EXCEPT !.status = "FETCHING"] ELSE cycle

Start(c) ==
  /\ At(c, "waiting")
  /\ CreateAndStart
  /\ IF Closed THEN Answers(c, cycle.status)
     ELSE Goes(c, IF expired THEN "finalize" ELSE "primary")
  /\ UNCHANGED <<announced, expired, mishaps>>

FallbackScope(primary) == {s \in Symbol : ~ValidWhenScoped(primary[s])}

FetchPrimary(c) ==
  /\ At(c, "primary")
  /\ \E primary \in [Symbol -> Primary] :
       IF expired
         THEN Goes(c, "finalize")
         ELSE collector' = [collector EXCEPT ![c] =
                [@ EXCEPT !.step = "submit", !.primary = primary,
                          !.left = Symbol \ FallbackScope(primary)]]
  /\ UNCHANGED <<cycle, announced, expired, mishaps>>

FetchFallback(c) ==
  /\ At(c, "submit") /\ collector[c].left = {}
  /\ LET scope == FallbackScope(collector[c].primary) IN
     \E fallback \in [Symbol -> Fallback] :
       /\ \A s \in Symbol \ scope : fallback[s] = "none"
       /\ IF scope = {}
            THEN Goes(c, "finalize")
            ELSE collector' = [collector EXCEPT ![c] =
                   [@ EXCEPT !.step = "submitRest", !.fallback = fallback, !.left = scope]]
  /\ UNCHANGED <<cycle, announced, expired, mishaps>>

Outcome(p, f) ==
  CASE ValidWhenSubmitted(p) /\ f = "good" -> {"VALID", "CONFLICT"}
    [] ValidWhenSubmitted(p) \/ f = "good" -> {"VALID"}
    [] p = "none"                          -> {"PROVIDER_FAILED", "STALE", "INVALID"}
    [] OTHER                               -> {"STALE"}

\* A slip to catch: only a batch that was never started refuses a quote.
AcceptsStarted == cycle.status # "none"

\* submit: a batch that has ended takes no quote any more.
Accepts == cycle.status = "FETCHING"

Recorded(s, outcome) ==
  IF Accepts /\ cycle.item[s] = "MISSING"
    THEN [cycle EXCEPT !.item[s] = outcome,
                       !.eligible = IF outcome = "VALID" THEN @ \cup {s} ELSE @]
    ELSE cycle

Submit(c, s) ==
  /\ collector[c].step \in {"submit", "submitRest"} /\ s \in collector[c].left
  /\ \/ /\ ~expired
        /\ \E outcome \in Outcome(collector[c].primary[s], collector[c].fallback[s]) :
             cycle' = Recorded(s, outcome)
        /\ IF At(c, "submitRest") /\ collector[c].left = {s}
             THEN Goes(c, "finalize")
             ELSE collector' = [collector EXCEPT ![c].left = @ \ {s}]
     \/ expired /\ Goes(c, "finalize") /\ UNCHANGED cycle
     \/ /\ expired /\ ~Closed           \* the deadline passed in between: it raises
        /\ Goes(c, "done") /\ UNCHANGED cycle
  /\ UNCHANGED <<announced, expired, mishaps>>

Of(item, statuses) == {s \in Symbol : item[s] \in statuses}

Finalized ==
  LET item == [s \in Symbol |->
                 IF cycle.item[s] = "MISSING" THEN "TIMEOUT" ELSE cycle.item[s]]
      valid == Of(item, {"VALID"})
  IN [cycle EXCEPT
        !.item = item,
        !.status = IF valid = Symbol THEN "READY"
                   ELSE IF valid # {} THEN "PARTIAL" ELSE "FAILED",
        !.valid = Cardinality(valid),
        !.missing = Cardinality(Of(item, {"TIMEOUT"})),
        !.conflict = Cardinality(Of(item, {"CONFLICT"})),
        !.failed = Cardinality(Of(item, {"PROVIDER_FAILED", "STALE", "INVALID"}))]

MayFinalize == expired \/ \A s \in Symbol : cycle.item[s] # "MISSING"

Finalize(c) ==
  /\ At(c, "finalize")
  /\ IF ~Closed /\ MayFinalize
       THEN /\ cycle' = Finalized
            /\ announced' = Of(cycle.item, {"VALID"})
            /\ Answers(c, Finalized.status)
       ELSE /\ IF Closed THEN Answers(c, cycle.status) ELSE Goes(c, "done")
            /\ UNCHANGED <<cycle, announced>>
  /\ UNCHANGED <<expired, mishaps>>

-----------------------------------------------------------------------------
(* Cancellation, crashes, time.                                             *)

\* The execution is canceled.  A start that is under way is shielded: it ends
\* first, unless the clean-up takes too long and is reaped with it.
Interrupt(c) ==
  /\ collector[c].step \notin {"done", "cleanup"} /\ Mishap
  /\ Goes(c, "cleanup")
  /\ \/ At(c, "waiting") /\ CreateAndStart
     \/ ~At(c, "waiting") /\ UNCHANGED cycle
  /\ UNCHANGED <<announced, expired>>

Cleanup(c) ==
  /\ At(c, "cleanup") /\ Goes(c, "done")
  /\ \/ /\ cycle' = IF Closed THEN cycle
                    ELSE [cycle EXCEPT !.status = "CANCELED", !.eligible = {}]
        /\ UNCHANGED mishaps
     \/ Mishap /\ UNCHANGED cycle
  /\ UNCHANGED <<announced, expired>>

Crash(c) ==
  /\ collector[c].step # "done" /\ Mishap
  /\ Goes(c, "done")
  /\ UNCHANGED <<cycle, announced, expired>>

Expire ==
  /\ cycle.status # "none" /\ ~expired /\ expired' = TRUE
  /\ UNCHANGED <<cycle, announced, collector, mishaps>>

CyclesNext ==
  \/ \E c \in Collector :
       \/ Start(c) \/ FetchPrimary(c) \/ FetchFallback(c) \/ Finalize(c)
       \/ \E s \in Symbol : Submit(c, s)
       \/ Interrupt(c) \/ Cleanup(c) \/ Crash(c)
  \/ Expire

CyclesSpec == CyclesInit /\ [][CyclesNext]_cycleVars

-----------------------------------------------------------------------------
(* What the end of a batch announced is what the batch holds, for ever: the *)
(* event, the items that may be judged and the counts agree, every symbol   *)
(* is counted once, a canceled batch leaves nothing to judge, and every     *)
(* execution of the job reported that end, although others still submit.    *)
EndHolds ==
  /\ cycle.status \in {"READY", "PARTIAL", "FAILED"} =>
       /\ announced = Of(cycle.item, {"VALID"})
       /\ announced = cycle.eligible
       /\ cycle.valid = Cardinality(announced)
       /\ cycle.valid + cycle.missing + cycle.conflict + cycle.failed = Cardinality(Symbol)
  /\ cycle.status = "CANCELED" => announced = "none" /\ cycle.eligible = {}
  /\ \A c \in Collector : collector[c].answer \in {"none", JobEnd(cycle.status)}
=============================================================================
