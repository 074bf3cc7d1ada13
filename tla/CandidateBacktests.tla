-------------------------- MODULE CandidateBacktests --------------------------
(***************************************************************************)
(* The backtest of a screened batch of candidates (backend/src/long_invest *)
(* /modules/backtests/candidate_application.py): one task, an item per     *)
(* candidate, whose prices the user may change or roll back at any time,   *)
(* each change being a new version with a job of its own.                  *)
(*                                                                         *)
(* The jobs live in the queue of PostgresJobs, of which the status, the    *)
(* holder of the lease and the request to stop are kept here.  Several     *)
(* jobs of the task may run at once, and an attempt that lost its lease    *)
(* runs on beside the next: claims and saves do not ask for a lease.       *)
(***************************************************************************)
EXTENDS Naturals, FiniteSets

CONSTANTS
  Items,              \* the candidates, numbered in the order of their ids
  Limit,              \* the concurrency of the job for the whole task
  Runs,               \* attempts at jobs there may be: also their lease tokens
  MaxChanges,         \* bounds: new versions of prices,
  MaxControls,        \*   commands that take effect,
  MaxLosses           \*   and attempts cut off, overtaken or broken off

Run == 1 .. Runs
Nobody == 0
Generation == 1 .. MaxChanges + MaxControls + 1

VARIABLES
  plan,               \* backtest_task: status, execution_generation
  entry,              \* backtest_item: status, execution_token, price_version, and
                      \*   the version its saved result was computed with
  queued,             \* the job of each generation
  run,                \* each attempt: its job, and where CandidateBacktestApplication.run is
  sim,                \* where its _run_item of each item is, with the prices it read
  changes, controls, losses

cvars == <<plan, entry, queued, run, sim, changes, controls, losses>>
bounds == <<changes, controls, losses>>

\* The concurrency of the job of retry_failed; that of a change of prices has but
\* one item.
RetryLimit == 4

NoJob == [status |-> "NONE", items |-> {}, holder |-> Nobody, ask |-> "none"]

\* _submit_job: no item ids stand for all items of the task
Submitted(ids) == [NoJob EXCEPT !.status = "PENDING", !.items = ids]
NewEntry == [status |-> "PENDING", token |-> Nobody, price |-> 1, result |-> Nobody]
Waiting == [pc |-> "idle", price |-> Nobody]

CInit ==
  /\ plan = [status |-> "PENDING", generation |-> 1]
  /\ entry = [i \in Items |-> NewEntry]
  /\ queued = [g \in Generation |-> IF g = 1 THEN Submitted({}) ELSE NoJob]
  /\ run = [a \in Run |-> [job |-> 0, pc |-> "unused"]]
  /\ sim = [a \in Run |-> [i \in Items |-> Waiting]]
  /\ changes = 0 /\ controls = 0 /\ losses = 0

-----------------------------------------------------------------------------
(***************************************************************************)
(* The queue, as far as these jobs use it (PostgresJobService).            *)
(***************************************************************************)
Holder(a) == queued[run[a].job].holder = a

\* A request to stop is honoured whenever the worker reports.
Honoured(job, otherwise) ==
  CASE job.ask = "cancel" -> [job EXCEPT !.status = "CANCELED", !.holder = Nobody]
    [] job.ask = "pause" -> [job EXCEPT !.status = "PAUSED", !.holder = Nobody]
    [] OTHER -> otherwise

ReportProgress(a, pause) ==
  queued' = [queued EXCEPT ![run[a].job] =
    IF ~Holder(a) THEN @
    ELSE LET asked == [@ EXCEPT !.ask = IF pause /\ @ = "none" THEN "pause" ELSE @]
         IN  Honoured(asked, asked)]

\* The command and the job after it; any other command is refused.
Commands(job) ==
  [pause  |-> IF job.status = "PENDING" THEN {[job EXCEPT !.status = "PAUSED"]}
              ELSE IF job.status = "RUNNING"
              THEN {[job EXCEPT !.ask = IF @ = "none" THEN "pause" ELSE @]} ELSE {},
   resume |-> IF job.status = "PAUSED"
              THEN {[job EXCEPT !.status = "PENDING", !.ask = "none"]} ELSE {},
   cancel |-> IF job.status = "RUNNING" THEN {[job EXCEPT !.ask = "cancel"]}
              ELSE IF job.status \in {"PENDING", "PAUSED"}
              THEN {[job EXCEPT !.status = "CANCELED"]} ELSE {}]

ClaimJob(a, g) ==
  /\ run[a].pc = "unused" /\ \A b \in 1 .. a - 1 : run[b].pc # "unused"
  /\ queued[g].status = "PENDING"
  /\ queued' = [queued EXCEPT ![g].status = "RUNNING", ![g].holder = a, ![g].ask = "none"]
  /\ run' = [run EXCEPT ![a] = [job |-> g, pc |-> "prepare"]]
  /\ UNCHANGED <<plan, entry, sim, bounds>>

\* The lease of a runs out; the attempt dies with its process, or works on.
LoseLease(a, dies) ==
  /\ losses < MaxLosses /\ losses' = losses + 1
  /\ run[a].pc \notin {"unused", "over"} /\ Holder(a)
  /\ queued' = [queued EXCEPT ![run[a].job] =
       Honoured(@, [@ EXCEPT !.status = "PENDING", !.holder = Nobody])]
  /\ IF dies THEN /\ run' = [run EXCEPT ![a].pc = "over"]
                  /\ sim' = [sim EXCEPT ![a] = [i \in Items |-> Waiting]]
             ELSE UNCHANGED <<run, sim>>
  /\ UNCHANGED <<plan, entry, changes, controls>>

-----------------------------------------------------------------------------
(***************************************************************************)
(* CandidateBacktestApplication.run                                        *)
(***************************************************************************)
Requested(a) == LET ids == queued[run[a].job].items IN IF ids = {} THEN Items ELSE ids
Goes(a, pc) == run' = [run EXCEPT ![a].pc = pc]
SetPlan(status) == plan' = [plan EXCEPT !.status = status]

\* _prepare_run: what an earlier attempt left under way is taken up again
PrepareRun(a) ==
  /\ run[a].pc = "prepare"
  /\ IF plan.status \in {"SUCCEEDED", "CANCELED"} /\ queued[run[a].job].items = {}
     THEN UNCHANGED <<plan, entry>>
     ELSE /\ entry' = [i \in Items |->
               IF entry[i].status = "FETCHING_DATA"
               THEN [entry[i] EXCEPT !.status = "PENDING"] ELSE entry[i]]
          /\ SetPlan("RUNNING")
  /\ Goes(a, "look")
  /\ UNCHANGED <<queued, sim, bounds>>

\* _task_action
TaskAction(a) ==
  /\ run[a].pc = "look"
  /\ Goes(a, CASE plan.status = "PAUSING" -> "pause"
               [] plan.status = "CANCELING" -> "cancel"
               [] OTHER -> "choose")
  /\ UNCHANGED <<plan, entry, queued, sim, bounds>>

\* _pending_items: the first of them
PendingItems(a) ==
  /\ run[a].pc = "choose"
  /\ LET pending == {i \in Requested(a) : entry[i].status = "PENDING"}
         limit == IF queued[run[a].job].items = {} THEN Limit ELSE RetryLimit
         first == {i \in pending : Cardinality({j \in pending : j < i}) < limit}
     IN  IF pending = {} THEN Goes(a, "finish") /\ UNCHANGED sim
         ELSE /\ Goes(a, "gather")
              /\ sim' = [sim EXCEPT ![a] = [i \in Items |->
                   IF i \in first THEN [Waiting EXCEPT !.pc = "chosen"] ELSE Waiting]]
  /\ UNCHANGED <<plan, entry, queued, bounds>>

Sims(a, i, pc) == sim' = [sim EXCEPT ![a][i].pc = pc]

\* _run_item claims the item with a token of its own.
ClaimItem(a, i) ==
  /\ sim[a][i].pc = "chosen"
  /\ IF entry[i].status = "PENDING"
     THEN /\ entry' = [entry EXCEPT ![i].status = "FETCHING_DATA", ![i].token = a]
          /\ Sims(a, i, "claimed")
     ELSE Sims(a, i, "done") /\ UNCHANGED entry
  /\ UNCHANGED <<plan, queued, run, bounds>>

\* The bars and the versions of the prices are read, and the engine runs on them.
Simulate(a, i) ==
  /\ sim[a][i].pc = "claimed"
  /\ \/ sim' = [sim EXCEPT ![a][i] = [pc |-> "simulated", price |-> entry[i].price]]
     \/ Sims(a, i, "failing")
  /\ UNCHANGED <<plan, entry, queued, run, bounds>>

\* _fail_item asks for no token; without its candidate an item is not even claimed.
FailItem(a, i) ==
  /\ sim[a][i].pc \in {"chosen", "failing"}
  /\ entry' = [entry EXCEPT ![i].status = "FAILED", ![i].token = Nobody]
  /\ Sims(a, i, "done")
  /\ UNCHANGED <<plan, queued, run, bounds>>

\* Faulty variant: whoever claimed the item since is not looked for.
MaySaveAny(a, i) == TRUE
MaySave(a, i) == entry[i].token = a

SaveResult(a, i) ==
  /\ sim[a][i].pc = "simulated"
  /\ IF MaySave(a, i)
     THEN entry' = [entry EXCEPT ![i].status = "SUCCEEDED", ![i].token = Nobody,
                                 ![i].result = sim[a][i].price]
     ELSE UNCHANGED entry
  /\ sim' = [sim EXCEPT ![a][i] = [Waiting EXCEPT !.pc = "done"]]
  /\ UNCHANGED <<plan, queued, run, bounds>>

\* A transaction of _run_item fails: gather raises at once, and the others of the
\* round go on.
RunItemRaises(a, i) ==
  /\ losses < MaxLosses /\ losses' = losses + 1
  /\ sim[a][i].pc \in {"chosen", "failing", "simulated"}
  /\ Sims(a, i, "done")
  /\ run' = [run EXCEPT ![a].pc = IF @ = "gather" THEN "fail" ELSE @]
  /\ UNCHANGED <<plan, entry, queued, changes, controls>>

\* _progress, whose answer is not looked at
Progress(a) ==
  /\ run[a].pc = "gather" /\ \A i \in Items : sim[a][i].pc \in {"idle", "done"}
  /\ ReportProgress(a, FALSE)
  /\ Goes(a, "look")
  /\ UNCHANGED <<plan, entry, sim, bounds>>

ControlledStop(a) ==
  /\ \/ /\ run[a].pc = "pause"
        /\ SetPlan("PAUSED") /\ ReportProgress(a, TRUE) /\ UNCHANGED entry
     \/ /\ run[a].pc = "cancel"
        /\ entry' = [i \in Items |-> IF entry[i].status = "PENDING"
                       THEN [entry[i] EXCEPT !.status = "CANCELED"] ELSE entry[i]]
        /\ SetPlan("CANCELED") /\ UNCHANGED queued
  /\ Goes(a, "complete")
  /\ UNCHANGED <<sim, bounds>>

Finish(a) ==
  /\ run[a].pc = "finish"
  /\ LET some(status) == \E i \in Items : entry[i].status = status
         status == IF ~some("FAILED") THEN "SUCCEEDED"
                   ELSE IF some("SUCCEEDED") THEN "PARTIAL" ELSE "FAILED"
     IN  SetPlan(status) /\ Goes(a, IF status = "FAILED" THEN "fail" ELSE "complete")
  /\ UNCHANGED <<entry, queued, sim, bounds>>

\* The runner commits the result of the attempt that holds the job.
Commit(a) ==
  /\ run[a].pc \in {"complete", "fail"}
  /\ queued' = [queued EXCEPT ![run[a].job] =
       IF ~Holder(a) THEN @
       ELSE Honoured(@, [@ EXCEPT !.holder = Nobody,
              !.status = IF run[a].pc = "fail" THEN "FAILED" ELSE "SUCCEEDED"])]
  /\ Goes(a, "over")
  /\ UNCHANGED <<plan, entry, sim, bounds>>

-----------------------------------------------------------------------------
(***************************************************************************)
(* control, change_prices and rollback_prices                              *)
(***************************************************************************)
Control ==
  /\ controls < MaxControls /\ controls' = controls + 1
  /\ UNCHANGED <<run, sim, changes, losses>>

\* The job of the task is its latest one.
Tell(command) ==
  \E job \in Commands(queued[plan.generation])[command] :
    queued' = [queued EXCEPT ![plan.generation] = job]

PausePlan ==
  /\ Control /\ plan.status \in {"PENDING", "RUNNING"}
  /\ Tell("pause")
  /\ SetPlan(IF plan.status = "PENDING" THEN "PAUSED" ELSE "PAUSING")
  /\ UNCHANGED entry

ResumePlan ==
  /\ Control /\ plan.status = "PAUSED"
  /\ Tell("resume") /\ SetPlan("PENDING")
  /\ UNCHANGED entry

CancelPlan ==
  /\ Control /\ plan.status \in {"PENDING", "RUNNING", "PAUSING", "PAUSED"}
  /\ Tell("cancel")
  /\ IF plan.status \in {"PENDING", "PAUSED"}
     THEN /\ SetPlan("CANCELED")
          /\ entry' = [i \in Items |-> IF entry[i].status = "PENDING"
                         THEN [entry[i] EXCEPT !.status = "CANCELED"] ELSE entry[i]]
     ELSE SetPlan("CANCELING") /\ UNCHANGED entry

\* A job of its own for some items, with the next generation of the task.
Resubmit(ids) ==
  /\ plan' = [status |-> "PENDING", generation |-> plan.generation + 1]
  /\ queued' = [queued EXCEPT ![plan.generation + 1] = Submitted(ids)]

RetryPlan ==
  /\ Control /\ plan.status \in {"PARTIAL", "FAILED"}
  /\ LET failed == {i \in Items : entry[i].status = "FAILED"}
     IN  /\ failed # {}
         /\ entry' = [i \in Items |-> IF i \in failed
                        THEN [entry[i] EXCEPT !.status = "PENDING"] ELSE entry[i]]
         /\ Resubmit(failed)

\* _new_price_version, of a user who has seen the current one
NewPriceVersion(i) ==
  /\ changes < MaxChanges /\ changes' = changes + 1
  /\ entry' = [entry EXCEPT ![i].price = @ + 1, ![i].status = "PENDING"]
  /\ Resubmit({i})
  /\ UNCHANGED <<run, sim, controls, losses>>

Attempts(a) ==
  \/ PrepareRun(a) \/ TaskAction(a) \/ PendingItems(a) \/ Progress(a)
  \/ ControlledStop(a) \/ Finish(a) \/ Commit(a)
  \/ \E i \in Items : \/ ClaimItem(a, i) \/ Simulate(a, i) \/ FailItem(a, i)
                       \/ SaveResult(a, i) \/ RunItemRaises(a, i)

CNext ==
  \/ \E a \in Run : Attempts(a)
  \/ \E a \in Run, g \in Generation : ClaimJob(a, g)
  \/ \E a \in Run, dies \in BOOLEAN : LoseLease(a, dies)
  \/ PausePlan \/ ResumePlan \/ CancelPlan \/ RetryPlan
  \/ \E i \in Items : NewPriceVersion(i)

CSpec == CInit /\ [][CNext]_cvars

-----------------------------------------------------------------------------
CandidateTypeOK ==
  /\ plan.generation \in Generation
  /\ entry \in [Items -> [status : {"PENDING", "FETCHING_DATA", "SUCCEEDED", "FAILED", "CANCELED"},
                          token : Run \cup {Nobody}, price : 1 .. MaxChanges + 1,
                          result : 0 .. MaxChanges + 1]]

\* Two jobs of the task, or two attempts at one, may simulate the same item
\* with different prices and save in any order: what is shown of the item never
\* falls back to the result of older prices.
PricesNeverGoBack == [][\A i \in Items : entry'[i].result >= entry[i].result]_cvars

\* A change of prices is not lost: when the item has succeeded, it was with
\* the prices in force.
ChangesTakeEffect ==
  \A i \in Items : entry[i].status = "SUCCEEDED" => entry[i].result = entry[i].price
=============================================================================
