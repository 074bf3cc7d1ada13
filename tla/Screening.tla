------------------------------ MODULE Screening ------------------------------
(***************************************************************************)
(* One market-wide screening batch: backend/src/long_invest/modules/       *)
(* strategies/screening.py.  The batch has one result per stock and        *)
(* period; its job works through the pending ones, a few at a time.        *)
(*                                                                         *)
(* A run is not stopped when its lease is lost, and asks for no fence when *)
(* it writes, so runs overlap.  A run only looks at the batch between two  *)
(* rounds of work.                                                         *)
(***************************************************************************)
EXTENDS Naturals, FiniteSets

CONSTANTS
  Result,             \* 1 .. n: stock and period, in the order of the work
  Concurrency,        \* results taken in one round
  Runs,               \* how often the job may be handed out
  MaxCommands,        \* bounds on commands
  MaxLeaseLosses      \*   and on leases that run out and results not written

VARIABLES
  batch,              \* status of the batch
  result,             \* per result: [status, attempts]
  job,                \* the job's row: [status, holder, ask]
  run,                \* where each run is, and what it told the runner
  work,               \* per run and result: where _run_one is
  published,          \* the strategy version is still PUBLISHED
  retries,            \* commands RETRY_FAILED so far
  commands, leaseLosses

screeningVars == <<batch, result, job, run, work, published, retries, commands, leaseLosses>>

Run == 1 .. Runs
Final == {"MATCHED", "NOT_MATCHED", "FAILED", "CANCELED"}
Count(status) == Cardinality({r \in Result : result[r].status = status})

\* create: the whole market is frozen with one pending result per period.
ScreeningInit ==
  /\ batch = "PENDING"
  /\ result = [r \in Result |-> [status |-> "PENDING", attempts |-> 0]]
  /\ job = [status |-> "PENDING", holder |-> 0, ask |-> "none"]
  /\ run = [a \in Run |-> "unused"]
  /\ work = [a \in Run |-> [r \in Result |-> "idle"]]
  /\ published = TRUE
  /\ retries = 0 /\ commands = 0 /\ leaseLosses = 0

(***************************************************************************)
(* The job's row (platform/jobs/postgres_service.py).                      *)
(***************************************************************************)
End(row, status) == [status |-> status, holder |-> 0, ask |-> "none"]

\* A waiting request is honoured by whatever the holder writes.
Obeyed(row) ==
  CASE row.ask = "cancel" -> End(row, "CANCELED")
    [] row.ask = "pause"  -> End(row, "PAUSED")
    [] row.ask = "none"   -> row

ReportBy(a, pause) ==
  IF job.holder # a THEN job
  ELSE Obeyed(IF pause /\ job.ask = "none" THEN [job EXCEPT !.ask = "pause"] ELSE job)

\* The rows that a command may leave; none when it is refused.
Paused == IF job.status = "PENDING" THEN {[job EXCEPT !.status = "PAUSED"]}
          ELSE IF job.status = "RUNNING"
          THEN {[job EXCEPT !.ask = IF @ = "none" THEN "pause" ELSE @]} ELSE {}
Resumed == IF job.status = "PAUSED" THEN {End(job, "PENDING")} ELSE {}
Canceled == IF job.status = "RUNNING" THEN {[job EXCEPT !.ask = "cancel"]}
            ELSE IF job.status \in {"PENDING", "PAUSED"} THEN {End(job, "CANCELED")} ELSE {}
Retried == IF job.status \in {"FAILED", "PARTIAL"} THEN {End(job, "PENDING")} ELSE {}

At(a, place) == run[a] = place
Goes(a, place) == run' = [run EXCEPT ![a] = place]

Claim(a) ==
  /\ At(a, "unused") /\ \A b \in 1 .. a - 1 : ~At(b, "unused")
  /\ job.status = "PENDING"
  /\ job' = [status |-> "RUNNING", holder |-> a, ask |-> "none"]
  /\ Goes(a, "prepare")
  /\ UNCHANGED <<batch, result, work, published, retries, commands, leaseLosses>>

\* The lease runs out: the process died, or works on without knowing.
LoseLease(a, dies) ==
  /\ leaseLosses < MaxLeaseLosses
  /\ run[a] \notin {"unused", "over"} /\ job.holder = a
  /\ leaseLosses' = leaseLosses + 1
  /\ job' = IF job.ask = "none" THEN End(job, "PENDING") ELSE Obeyed(job)
  /\ IF dies THEN /\ Goes(a, "over")
                  /\ work' = [work EXCEPT ![a] = [r \in Result |-> "idle"]]
             ELSE UNCHANGED <<run, work>>
  /\ UNCHANGED <<batch, result, published, retries, commands>>

(***************************************************************************)
(* StrategyScreeningApplication.run                                        *)
(***************************************************************************)
\* _prepare_run: what any run left under way is pending again.
PrepareRun(a) ==
  /\ At(a, "prepare")
  /\ CASE batch \in {"SUCCEEDED", "CANCELED"} ->
            Goes(a, "version") /\ UNCHANGED <<batch, result>>
       [] batch \in {"PAUSED", "PAUSING", "CANCELING"} ->
            Goes(a, "raise") /\ UNCHANGED <<batch, result>>
       [] OTHER ->
            /\ batch' = "RUNNING"
            /\ result' = [r \in Result |->
                 IF result[r].status = "RUNNING"
                 THEN [result[r] EXCEPT !.status = "PENDING"] ELSE result[r]]
            /\ Goes(a, "version")
  /\ UNCHANGED <<job, work, published, retries, commands, leaseLosses>>

\* _published_version: a version archived meanwhile ends the run.
PublishedVersion(a) ==
  /\ At(a, "version")
  /\ Goes(a, IF published THEN "look" ELSE "raise")
  /\ UNCHANGED <<batch, result, job, work, published, retries, commands, leaseLosses>>

\* _run_state
RunState(a) ==
  /\ At(a, "look")
  /\ Goes(a, CASE batch = "PAUSING" -> "pause"
               [] batch = "CANCELING" -> "cancel"
               [] OTHER -> "next")
  /\ UNCHANGED <<batch, result, job, work, published, retries, commands, leaseLosses>>

\* _next_work
NextWork(a) ==
  LET pending == {r \in Result : result[r].status = "PENDING"}
      round == {r \in pending : Cardinality({q \in pending : q < r}) < Concurrency}
  IN
  /\ At(a, "next")
  /\ Goes(a, IF pending = {} THEN "finish" ELSE "gather")
  /\ work' = [work EXCEPT ![a] = [r \in Result |-> IF r \in round THEN "chosen" ELSE "idle"]]
  /\ UNCHANGED <<batch, result, job, published, retries, commands, leaseLosses>>

Works(a, r, place) == work' = [work EXCEPT ![a][r] = place]

\* Faulty variant: whoever has been given the result takes it.
FreeToClaimAny(r) == TRUE
FreeToClaim(r) == result[r].status = "PENDING"

ClaimResult(a, r) ==
  /\ work[a][r] = "chosen"
  /\ IF FreeToClaim(r)
     THEN /\ result' = [result EXCEPT ![r] = [status |-> "RUNNING", attempts |-> @.attempts + 1]]
          /\ Works(a, r, "claimed")
     ELSE Works(a, r, "idle") /\ UNCHANGED result
  /\ UNCHANGED <<batch, job, run, published, retries, commands, leaseLosses>>

\* Faulty variant: the outcome is written over whatever the row has become.
MayWriteAny(r) == TRUE
MayWrite(r) == result[r].status = "RUNNING"

\* The forecast ends: with or without a match, or it failed, or had no data.
RunOne(a, r, outcome) ==
  /\ work[a][r] = "claimed"
  /\ result' = IF MayWrite(r) THEN [result EXCEPT ![r].status = outcome] ELSE result
  /\ Works(a, r, "idle")
  /\ UNCHANGED <<batch, job, run, published, retries, commands, leaseLosses>>

\* A transaction of _run_one fails: gather raises at once, and the others of the
\* round go on.
RunOneRaises(a, r) ==
  /\ leaseLosses < MaxLeaseLosses /\ leaseLosses' = leaseLosses + 1
  /\ work[a][r] \in {"chosen", "claimed"}
  /\ Works(a, r, "idle")
  /\ run' = [run EXCEPT ![a] = IF @ = "gather" THEN "raise" ELSE @]
  /\ UNCHANGED <<batch, result, job, published, retries, commands>>

ReportProgress(a) ==
  /\ At(a, "gather") /\ \A r \in Result : work[a][r] = "idle"
  /\ job' = ReportBy(a, FALSE)
  /\ Goes(a, "look")
  /\ UNCHANGED <<batch, result, work, published, retries, commands, leaseLosses>>

CancelPending ==
  /\ result' = [r \in Result |-> IF result[r].status \in {"PENDING", "RUNNING"}
                  THEN [result[r] EXCEPT !.status = "CANCELED"] ELSE result[r]]
  /\ batch' = "CANCELED"

\* _controlled_stop; a command to the job that is refused undoes the cancel
\* with its transaction.
ControlledStop(a) ==
  /\ \/ /\ At(a, "pause")
        /\ batch' = "PAUSED" /\ job' = ReportBy(a, TRUE)
        /\ Goes(a, "SUCCEEDED")
        /\ UNCHANGED result
     \/ /\ At(a, "cancel")
        /\ job' \in Canceled
        /\ CancelPending
        /\ Goes(a, "SUCCEEDED")
     \/ /\ At(a, "cancel")
        /\ Canceled = {}
        /\ Goes(a, "raise")
        /\ UNCHANGED <<batch, result, job>>
  /\ UNCHANGED <<work, published, retries, commands, leaseLosses>>

\* _finish_batch, and the job's result from it.
FinishBatch(a) ==
  /\ At(a, "finish")
  /\ batch' = CASE Count("FAILED") = 0 -> "SUCCEEDED"
                [] Count("MATCHED") + Count("NOT_MATCHED") > 0 -> "PARTIAL"
                [] OTHER -> "FAILED"
  /\ Goes(a, batch')
  /\ UNCHANGED <<result, job, work, published, retries, commands, leaseLosses>>

\* The runner records the run's result, if the run still holds the job.
Settle(a) ==
  /\ run[a] \in {"SUCCEEDED", "PARTIAL", "FAILED", "raise"}
  /\ job' = IF job.holder # a THEN job
            ELSE IF job.ask = "none" THEN End(job, IF run[a] = "raise" THEN "FAILED" ELSE run[a])
            ELSE Obeyed(job)
  /\ Goes(a, "over")
  /\ UNCHANGED <<batch, result, work, published, retries, commands, leaseLosses>>

(***************************************************************************)
(* control                                                                 *)
(***************************************************************************)
Command ==
  /\ commands < MaxCommands /\ commands' = commands + 1
  /\ UNCHANGED <<run, work, published, leaseLosses>>

Pause ==
  /\ Command
  /\ batch \in {"PENDING", "RUNNING"}
  /\ job' \in Paused
  /\ batch' = IF batch = "PENDING" THEN "PAUSED" ELSE "PAUSING"
  /\ UNCHANGED <<result, retries>>

Resume ==
  /\ Command
  /\ batch = "PAUSED"
  /\ job' \in Resumed
  /\ batch' = "PENDING"
  /\ UNCHANGED <<result, retries>>

Cancel ==
  /\ Command
  /\ batch \in {"PENDING", "RUNNING", "PAUSING", "PAUSED"}
  /\ job' \in Canceled
  /\ IF batch \in {"PENDING", "PAUSED"} THEN CancelPending
     ELSE batch' = "CANCELING" /\ UNCHANGED result
  /\ UNCHANGED retries

RetryFailed ==
  /\ Command
  /\ batch \in {"PARTIAL", "FAILED"}
  /\ Count("FAILED") > 0
  /\ job' \in Retried
  /\ batch' = "PENDING"
  /\ result' = [r \in Result |-> IF result[r].status = "FAILED"
                  THEN [result[r] EXCEPT !.status = "PENDING"] ELSE result[r]]
  /\ retries' = retries + 1

ArchiveVersion ==
  /\ published /\ published' = FALSE
  /\ UNCHANGED <<batch, result, job, run, work, retries, commands, leaseLosses>>

Step(a) ==
  \/ PrepareRun(a) \/ PublishedVersion(a) \/ RunState(a) \/ NextWork(a)
  \/ ReportProgress(a) \/ ControlledStop(a) \/ FinishBatch(a) \/ Settle(a)
  \/ \E r \in Result : ClaimResult(a, r) \/ RunOneRaises(a, r)
  \/ \E r \in Result, outcome \in Final \ {"CANCELED"} : RunOne(a, r, outcome)

ScreeningNext ==
  \/ \E a \in Run : Claim(a) \/ Step(a)
  \/ \E a \in Run, dies \in BOOLEAN : LoseLease(a, dies)
  \/ Pause \/ Resume \/ Cancel \/ RetryFailed \/ ArchiveVersion

ScreeningSpec == ScreeningInit /\ [][ScreeningNext]_screeningVars

(***************************************************************************)
(* Properties.                                                             *)
(***************************************************************************)

\* Runs overlap and nothing is fenced, yet what was once found for a stock, or
\* canceled, is never written again: candidates are built from it.  A failure
\* is only taken back by the user's retry.
ResultsKept ==
  [][\A r \in Result : result[r].status \in Final =>
       result'[r].status = IF result[r].status = "FAILED" /\ retries' # retries
                           THEN "PENDING" ELSE result[r].status]_screeningVars

\* A forecast is expensive: a result is only computed again because the job was
\* handed out again or the user retried.
AttemptsExplained ==
  \A r \in Result :
    result[r].attempts <= retries + Cardinality({a \in Run : ~At(a, "unused")})

\* A batch that offers candidates has looked at every stock and period.
CandidatesComplete ==
  batch = "SUCCEEDED" => \A r \in Result : result[r].status \in {"MATCHED", "NOT_MATCHED"}

\* NOT what the code does, since a run may end between the request and its next
\* look at the batch: a running batch that is asked to stop is stopped by its run,
\* if its strategy may still be used.
CancelEnds ==
  batch = "CANCELING" /\ published =>
    \/ \E a \in Run : run[a] \notin {"unused", "over"}
    \/ job.status \in {"PENDING", "RUNNING"}
=============================================================================
