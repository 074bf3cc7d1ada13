------------------------------ MODULE Backtests ------------------------------
(***************************************************************************)
(* One backtest task (backend/src/long_invest/modules/backtests): its      *)
(* items, one stock each, executed by a job of the queue per generation of *)
(* the task (service.py, application.py, bootstrap/backtest_postgres_jobs  *)
(* .py) and controlled by the user.                                        *)
(*                                                                         *)
(* An attempt at a job is its lease token: the items are held with it.     *)
(* An attempt whose lease was lost works on beside the next one, and the   *)
(* items of a batch run concurrently, on after the first that raises has   *)
(* ended the attempt.  Each transaction is one action: all of them lock    *)
(* the row of the task first.                                              *)
(***************************************************************************)
EXTENDS Naturals, FiniteSets

CONSTANTS
  ItemCount,          \* stocks of a batch, in the order of their symbols
  Concurrency,        \* LONGINVEST_BACKTEST_CONCURRENCY
  Versions,           \* versions of the test data the market data may answer
  MaxAttempts,        \* bounds: how often jobs are claimed,
  MaxCommands,        \*   how many commands take effect,
  MaxInterrupts       \*   and how often an attempt is cut off or cannot tell its failure

ASSUME BacktestsAssumption ==
  /\ ItemCount \in Nat \ {0} /\ Concurrency \in Nat \ {0}
  /\ MaxAttempts \in Nat /\ MaxCommands \in Nat /\ MaxInterrupts \in Nat
  /\ 0 \notin Versions

Attempt == 1 .. MaxAttempts
Generation == 1 .. MaxCommands + 1
Nobody == 0           \* no token; also no snapshot and no result

VARIABLES
  mode,               \* SINGLE, or a batch: WATCHLIST or MARKET
  task,               \* backtest_task: status, execution_generation
  item,               \* backtest_item with the snapshots and the result it owns
  job,                \* the job submitted for each generation
  attempt,            \* what each attempt at a job is doing
  exec,               \* where its run_item of each item is
  forecasts,          \* how often the strategy was run for each item
  commands, interrupts

vars == <<mode, task, item, job, attempt, exec, forecasts, commands, interrupts>>
counters == <<commands, interrupts>>

Item == IF mode = "SINGLE" THEN {1} ELSE 1 .. ItemCount

TaskStatus == {"PENDING", "RUNNING", "PAUSING", "PAUSED", "SUCCEEDED", "PARTIAL",
               "FAILED", "CANCELING", "CANCELED"}
TaskTerminal == {"SUCCEEDED", "PARTIAL", "FAILED", "CANCELED"}
ItemStatus == {"PENDING", "FETCHING_DATA", "FORECASTING", "FROZEN", "SIMULATING",
               "SUCCEEDED", "FAILED", "SKIPPED", "CANCELED"}
ItemTerminal == {"SUCCEEDED", "FAILED", "SKIPPED", "CANCELED"}

Stop == {"PAUSING", "PAUSED", "CANCELING", "CANCELED"}
NoResult == [forecast |-> Nobody, test |-> Nobody, adjustment |-> Nobody]
NewItem == [status |-> "PENDING", token |-> Nobody, claimed |-> FALSE,
            forecast |-> Nobody, test |-> Nobody, adjustment |-> Nobody,
            result |-> NoResult]

NoJob == [open |-> FALSE, holder |-> Nobody, keys |-> {}, recover |-> FALSE, next |-> 0]
JobFor(keys, recover) ==
  [open |-> TRUE, holder |-> Nobody, keys |-> keys, recover |-> recover, next |-> 0]

Unused == [generation |-> 0, next |-> 0, chunk |-> {}, running |-> FALSE]
Idle == [pc |-> "idle", forecast |-> Nobody, test |-> Nobody, adjustment |-> Nobody]

Init ==
  /\ mode \in {"SINGLE", "WATCHLIST"}
  /\ task = [status |-> "PENDING", generation |-> 1]
  /\ item = [i \in Item |-> NewItem]
  /\ job = [g \in Generation |-> IF g = 1 THEN JobFor(Item, FALSE) ELSE NoJob]
  /\ attempt = [a \in Attempt |-> Unused]
  /\ exec = [a \in Attempt |-> [i \in Item |-> Idle]]
  /\ forecasts = [i \in Item |-> 0]
  /\ commands = 0 /\ interrupts = 0

-----------------------------------------------------------------------------
(***************************************************************************)
(* BacktestService: what its transactions have in common.                  *)
(***************************************************************************)
At(a, i, pc) == exec[a][i].pc = pc
Ended(pc) == [Idle EXCEPT !.pc = pc]
Go(a, i, e) == exec' = [exec EXCEPT ![a][i] = e]
To(a, i, pc) == Go(a, i, [exec[a][i] EXCEPT !.pc = pc])
Ends(a, i, pc) == Go(a, i, Ended(pc))

Set(i, row) == [item EXCEPT ![i] = row]
Held(items) == {i \in Item : items[i].token # Nobody}
Unfinished(items) == {i \in Item : items[i].status \notin ItemTerminal}

\* Faulty variant: the token stays.
ReleasedHeld(row, status) == [row EXCEPT !.status = status]

\* What every end of an item does.
Released(row, status) == [row EXCEPT !.status = status, !.token = Nobody]
Status(s) == task' = [task EXCEPT !.status = s]

\* Faulty variant: a canceled item does not count.
OutcomeOfRun(items) ==
  LET statuses == {items[i].status : i \in Item}
      completed == statuses \cap {"SUCCEEDED", "SKIPPED"} # {}
  IN  CASE Unfinished(items) # {} -> "RUNNING"
        [] Unfinished(items) = {} /\ "FAILED" \in statuses /\ completed -> "PARTIAL"
        [] Unfinished(items) = {} /\ "FAILED" \notin statuses -> "SUCCEEDED"
        [] OTHER -> "FAILED"

\* _refresh_parent_status
Outcome(items) ==
  LET statuses == {items[i].status : i \in Item}
      completed == statuses \cap {"SUCCEEDED", "SKIPPED"} # {}
      failed == statuses \cap {"FAILED", "CANCELED"} # {}
  IN  CASE Unfinished(items) # {} -> "RUNNING"
        [] Unfinished(items) = {} /\ completed /\ failed -> "PARTIAL"
        [] Unfinished(items) = {} /\ completed /\ ~failed -> "SUCCEEDED"
        [] OTHER -> "FAILED"

\* The item is over: its parent follows.
Finish(i, row) == item' = Set(i, row) /\ Status(Outcome(item'))

\* _pause_item
PauseItem(i) ==
  /\ item' = Set(i, [item[i] EXCEPT !.token = Nobody])
  /\ IF Held(item') = {} THEN Status("PAUSED") ELSE UNCHANGED task

\* _cancel_item, the method: the task is canceled with the last of its items
CancelItem(i) ==
  /\ item' = Set(i, Released(item[i], "CANCELED"))
  /\ IF Unfinished(item') = {} THEN Status("CANCELED") ELSE UNCHANGED task

\* Faulty variant: an attempt is not asked for the generation it is of.
SupersededNever(a) == FALSE

\* _require_generation, _require_execution_owner
Superseded(a) == attempt[a].generation # task.generation
Owner(a, i) == item[i].token = a

Internal == UNCHANGED <<mode, job, attempt, counters>>
Refused(a, i, pc) == Ends(a, i, pc) /\ UNCHANGED <<task, item>>

(***************************************************************************)
(* The transactions of run_item and recover.  "refused" and "superseded"   *)
(* are the errors of _NON_FATAL_CONFLICTS.  At "failing" any other         *)
(* exception is on its way up.                                             *)
(***************************************************************************)
Recoverable(row) ==
  \/ row.status \in {"PENDING", "FETCHING_DATA"}
  \/ row.forecast # Nobody /\ row.status \in {"FROZEN", "SIMULATING", "FAILED"}

MayRecover(a, i) ==
  task.status = "PENDING" /\ item[i].token \in {Nobody, a}

Recover(a, i) ==
  /\ At(a, i, "recover")
  /\ \/ /\ ~Superseded(a) /\ MayRecover(a, i) /\ Recoverable(item[i])
        /\ item' = Set(i, [item[i] EXCEPT !.token = a,
                             !.status = IF item[i].forecast # Nobody THEN "FROZEN"
                                        ELSE "FETCHING_DATA"])
        /\ Status("RUNNING") /\ To(a, i, "start")
     \/ /\ Superseded(a) /\ Refused(a, i, "superseded")
     \/ /\ ~Superseded(a) /\ ~MayRecover(a, i) /\ Refused(a, i, "refused")
     \/ /\ ~Superseded(a) /\ MayRecover(a, i) /\ ~Recoverable(item[i])
        /\ Refused(a, i, "raised")
  /\ UNCHANGED forecasts /\ Internal

\* start with a task, or an item, that there is nothing to do for
NothingToDo(i) ==
  \/ task.status \in {"PAUSED", "CANCELED", "SUCCEEDED", "FAILED"}
  \/ task.status \in {"PENDING", "RUNNING"} /\ item[i].status \in ItemTerminal

Startable(i) ==
  /\ task.status \in {"PENDING", "RUNNING"} /\ item[i].status \notin ItemTerminal

UnknownForecast(i) == item[i].status = "FORECASTING" /\ item[i].forecast = Nobody

Started(a, i) ==
  LET known == item[i].forecast
  IN  /\ item' = Set(i, [item[i] EXCEPT !.token = a,
                           !.status = IF known = Nobody THEN "FETCHING_DATA"
                                      ELSE IF @ = "SIMULATING" THEN "FROZEN" ELSE @])
      /\ Status("RUNNING")
      /\ Go(a, i, [Idle EXCEPT !.pc = IF known = Nobody THEN "training" ELSE "test",
                               !.forecast = known])

Start(a, i) ==
  /\ At(a, i, "start")
  /\ \/ Superseded(a) /\ Refused(a, i, "superseded")
     \/ ~Superseded(a) /\ NothingToDo(i) /\ Refused(a, i, "done")
     \/ /\ ~Superseded(a) /\ ~NothingToDo(i)
        /\ ~Startable(i) \/ (item[i].token \in {Nobody, a} /\ UnknownForecast(i))
        /\ To(a, i, "failing") /\ UNCHANGED <<task, item>>
     \/ /\ ~Superseded(a) /\ Startable(i) /\ item[i].token \notin {Nobody, a}
        /\ Refused(a, i, "refused")
     \/ /\ ~Superseded(a) /\ Startable(i)
        /\ item[i].token \in {Nobody, a} /\ ~UnknownForecast(i)
        /\ Started(a, i)
  /\ UNCHANGED forecasts /\ Internal

\* The training data are read, and the forecast is claimed with them.
ClaimForecast(a, i) ==
  /\ At(a, i, "training")
  /\ \/ ~Owner(a, i) /\ Refused(a, i, "refused")
     \/ /\ Owner(a, i) /\ item[i].forecast # Nobody
        /\ Go(a, i, [exec[a][i] EXCEPT !.pc = "forecast known",
                                       !.forecast = item[i].forecast])
        /\ UNCHANGED <<task, item>>
     \/ /\ Owner(a, i) /\ UnknownForecast(i)
        /\ To(a, i, "failing") /\ UNCHANGED <<task, item>>
     \/ /\ Owner(a, i) /\ item[i].forecast = Nobody /\ ~UnknownForecast(i)
        /\ item' = Set(i, [item[i] EXCEPT !.status = "FORECASTING", !.claimed = TRUE])
        /\ To(a, i, "strategy") /\ UNCHANGED task
  /\ UNCHANGED forecasts /\ Internal

\* The strategy runs in its sandbox.
RunStrategy(a, i) ==
  /\ At(a, i, "strategy")
  /\ forecasts' = [forecasts EXCEPT ![i] = @ + 1]
  /\ \E pc \in {"matched", "not matched", "failing"} : To(a, i, pc)
  /\ UNCHANGED <<task, item>> /\ Internal

SkipNotMatched(a, i) ==
  /\ At(a, i, "not matched")
  /\ \/ ~Owner(a, i) /\ Refused(a, i, "refused")
     \/ /\ Owner(a, i) /\ item[i].status = "FORECASTING"
        /\ Finish(i, Released(item[i], "SKIPPED")) /\ Ends(a, i, "done")
  /\ UNCHANGED forecasts /\ Internal

FreezeForecast(a, i) ==
  /\ At(a, i, "matched")
  /\ \/ ~Owner(a, i) /\ Refused(a, i, "refused")
     \/ /\ Owner(a, i) /\ item[i].status = "FORECASTING"
        /\ item' = Set(i, [item[i] EXCEPT !.status = "FROZEN", !.forecast = a])
        /\ Go(a, i, [exec[a][i] EXCEPT !.pc = "forecast known", !.forecast = a])
        /\ UNCHANGED task
  /\ UNCHANGED forecasts /\ Internal

\* Faulty variant: any answer is taken for the data that were frozen.
FrozenTestAny(i, v) == TRUE

\* _validate_frozen_test_snapshot
FrozenTest(i, v) == item[i].test \in {Nobody, v}

\* Version v of the test data is read, and the simulation claimed with it.
ClaimSimulation(a, i, v) ==
  /\ At(a, i, "test")
  /\ \/ ~Owner(a, i) /\ Refused(a, i, "refused")
     \/ /\ Owner(a, i) /\ ~FrozenTest(i, v)
        /\ To(a, i, "failing") /\ UNCHANGED <<task, item>>
     \/ /\ Owner(a, i) /\ FrozenTest(i, v)
        /\ item' = Set(i, [item[i] EXCEPT !.status = "SIMULATING",
                                          !.test = IF @ = Nobody THEN v ELSE @])
        /\ Go(a, i, [exec[a][i] EXCEPT !.pc = "test known", !.test = v])
        /\ UNCHANGED task
  /\ UNCHANGED forecasts /\ Internal

\* The company actions are prepared; two preparations differ in their time.
FreezeAdjustment(a, i) ==
  /\ At(a, i, "adjustment")
  /\ \/ ~Owner(a, i) /\ Refused(a, i, "refused")
     \/ /\ Owner(a, i) /\ item[i].adjustment # Nobody
        /\ To(a, i, "failing") /\ UNCHANGED <<task, item>>
     \/ /\ Owner(a, i) /\ item[i].adjustment = Nobody
        /\ item' = Set(i, [item[i] EXCEPT !.adjustment = a])
        /\ Go(a, i, [exec[a][i] EXCEPT !.pc = "adjustment known", !.adjustment = a])
        /\ UNCHANGED task
  /\ UNCHANGED forecasts /\ Internal

Checkpoints == {"forecast known", "test known", "adjustment known", "simulated"}

\* What run_item does next, with the state the checkpoint has returned.
After(a, i) ==
  LET e == exec[a][i]
  IN  CASE e.pc = "forecast known" -> [e EXCEPT !.pc = "test"]
        [] e.pc = "test known" /\ item[i].adjustment = Nobody ->
             [e EXCEPT !.pc = "adjustment"]
        [] e.pc = "test known" /\ item[i].adjustment # Nobody ->
             [e EXCEPT !.pc = "simulated", !.adjustment = item[i].adjustment]
        [] e.pc = "adjustment known" -> [e EXCEPT !.pc = "simulated"]
        [] OTHER -> [e EXCEPT !.pc = "save"]

Checkpoint(a, i) ==
  /\ exec[a][i].pc \in Checkpoints
  /\ \/ Superseded(a) /\ Refused(a, i, "superseded")
     \/ ~Superseded(a) /\ ~Owner(a, i) /\ Refused(a, i, "refused")
     \/ /\ ~Superseded(a) /\ Owner(a, i)
        /\ CASE task.status = "PAUSING" -> PauseItem(i)
             [] task.status = "CANCELING" -> CancelItem(i)
             [] OTHER -> UNCHANGED <<task, item>>
        /\ IF task'.status \in {"PAUSED", "CANCELED"} THEN Ends(a, i, "done")
           ELSE Go(a, i, After(a, i))
  /\ UNCHANGED forecasts /\ Internal

SaveSuccess(a, i) ==
  /\ At(a, i, "save")
  /\ \/ ~Owner(a, i) /\ Refused(a, i, "refused")
     \/ /\ Owner(a, i) /\ task.status = "PAUSING"
        /\ PauseItem(i) /\ Ends(a, i, "done")
     \/ /\ Owner(a, i) /\ task.status = "CANCELING"
        /\ CancelItem(i) /\ Ends(a, i, "done")
     \/ /\ Owner(a, i) /\ task.status \notin {"PAUSING", "CANCELING"}
        /\ item[i].status = "SIMULATING"
        /\ Finish(i, [Released(item[i], "SUCCEEDED") EXCEPT
                        !.result = [forecast |-> exec[a][i].forecast,
                                    test |-> exec[a][i].test,
                                    adjustment |-> exec[a][i].adjustment]])
        /\ Ends(a, i, "done")
  /\ UNCHANGED forecasts /\ Internal

\* Data are missing, an answer is invalid, a transaction fails.
Broken(a, i) ==
  /\ exec[a][i].pc \in {"start", "training", "matched", "not matched", "test",
                        "adjustment", "save"} \cup Checkpoints
  /\ To(a, i, "failing")
  /\ UNCHANGED <<task, item, forecasts>> /\ Internal

\* fail, from _record_failure, for the exceptions that run_item names
Fail(a, i) ==
  /\ At(a, i, "failing")
  /\ IF Owner(a, i) /\ item[i].status \notin ItemTerminal
     THEN Finish(i, Released(item[i], "FAILED"))
     ELSE UNCHANGED <<task, item>>
  /\ Ends(a, i, "raised")
  /\ UNCHANGED forecasts /\ Internal

\* An exception that run_item does not name, or whose recording fails as well
\* (_record_failure then returns): the item stays held by who has left it.
FailUnrecorded(a, i) ==
  /\ At(a, i, "failing")
  /\ interrupts < MaxInterrupts /\ interrupts' = interrupts + 1
  /\ Ends(a, i, "unrecorded")
  /\ UNCHANGED <<mode, task, item, job, attempt, forecasts, commands>>

(***************************************************************************)
(* The attempts: backtest_single, backtest_batch and the job runner.       *)
(***************************************************************************)
Keys(a) == job[attempt[a].generation].keys
Rank(keys, i) == Cardinality({k \in keys : k < i})

\* The chunk of keys that follows the first `next' of them.
Chunk(keys, next) == {i \in keys : Rank(keys, i) \in next .. next + Concurrency - 1}

Spawn(a, chunk, recover) ==
  exec' = [exec EXCEPT ![a] = [i \in Item |->
             IF i \in chunk
             THEN [Idle EXCEPT !.pc = IF recover THEN "recover" ELSE "start"]
             ELSE @[i]]]

Holds(a) == job[attempt[a].generation].holder = a
Close(a) == job' = [job EXCEPT ![attempt[a].generation].open =
                                 IF Holds(a) THEN FALSE ELSE @]
Leaves(a) == attempt' = [attempt EXCEPT ![a].running = FALSE]

\* A job is claimed, for the first time or because nobody holds its lease.
Begin(a, g) ==
  /\ attempt[a] = Unused /\ \A b \in 1 .. a - 1 : attempt[b] # Unused
  /\ job[g].open /\ job[g].holder = Nobody
  /\ LET j == job[g]
         chunk == Chunk(j.keys, j.next)
     IN  /\ attempt' = [attempt EXCEPT ![a] = [generation |-> g, next |-> j.next,
                          chunk |-> chunk, running |-> j.keys # {}]]
         /\ job' = [job EXCEPT ![g].holder = a, ![g].open = j.keys # {}]
         /\ Spawn(a, chunk, j.recover \/ (mode # "SINGLE" /\ j.next > 0))
  /\ UNCHANGED <<mode, task, item, forecasts, counters>>

Over == {"done", "raised", "refused", "superseded"}
AllDone(a) == \A i \in attempt[a].chunk : At(a, i, "done")

\* The chunk is through: progress is reported, and the task is looked at.
NextChunk(a) ==
  /\ attempt[a].running /\ AllDone(a)
  /\ LET g == attempt[a].generation
         next == attempt[a].next + Cardinality(attempt[a].chunk)
         chunk == Chunk(Keys(a), next)
         stop == Holds(a) /\ task.status \in Stop
     IN  IF stop \/ chunk = {}
         THEN Close(a) /\ Leaves(a) /\ UNCHANGED exec
         ELSE /\ job' = [job EXCEPT ![g].next = IF Holds(a) THEN next ELSE @]
              /\ attempt' = [attempt EXCEPT ![a].next = next, ![a].chunk = chunk]
              /\ Spawn(a, chunk, FALSE)
  /\ UNCHANGED <<mode, task, item, forecasts, counters>>

\* An item has raised, which ends the attempt but not its other items.
Raised(a) ==
  /\ attempt[a].running
  /\ \E i \in attempt[a].chunk :
       /\ exec[a][i].pc \in (Over \ {"done"}) \cup {"unrecorded"}
       /\ IF mode = "SINGLE" /\ At(a, i, "refused") /\ Holds(a)
          THEN job' = [job EXCEPT ![attempt[a].generation].holder = Nobody]
          ELSE Close(a)
  /\ Leaves(a)
  /\ UNCHANGED <<mode, task, item, exec, forecasts, counters>>

Interruption(a) ==
  /\ interrupts < MaxInterrupts /\ interrupts' = interrupts + 1
  /\ attempt[a].running /\ Holds(a)
  /\ job' = [job EXCEPT ![attempt[a].generation].holder = Nobody]
  /\ UNCHANGED <<mode, task, item, forecasts, commands>>

\* The process dies, or the soft timeout cancels the handler.
Interrupt(a) ==
  /\ Interruption(a)
  /\ exec' = [exec EXCEPT ![a] = [i \in Item |-> Ended("gone")]]
  /\ Leaves(a)

\* The lease runs out under an attempt that works on.
LoseLease(a) == Interruption(a) /\ UNCHANGED <<exec, attempt>>

(***************************************************************************)
(* The commands.                                                           *)
(***************************************************************************)
Command ==
  /\ commands < MaxCommands /\ commands' = commands + 1
  /\ UNCHANGED <<mode, attempt, exec, forecasts, interrupts>>

PausesAtOnce == task.status = "PENDING" \/ Held(item) = {}

Pause ==
  /\ Command
  /\ \/ PausesAtOnce /\ Status("PAUSED")
     \/ ~PausesAtOnce /\ task.status = "RUNNING" /\ Status("PAUSING")
  /\ UNCHANGED <<item, job>>

\* A new generation with a job of its own.
NextGeneration(items, keys, recover) ==
  /\ item' = items
  /\ task' = [status |-> "PENDING", generation |-> task.generation + 1]
  /\ job' = [job EXCEPT ![task'.generation] = JobFor(keys, recover)]

Resume ==
  /\ Command
  /\ task.status = "PAUSED"
  /\ LET todo == Unfinished(item)
         keys == IF mode = "SINGLE" THEN Item ELSE todo
         recover == mode # "SINGLE" \/ item[1].status # "PENDING"
     IN  NextGeneration([i \in Item |-> IF i \in todo THEN [item[i] EXCEPT !.token = Nobody]
                                        ELSE item[i]], keys, recover)

CanceledItems(some) ==
  [i \in Item |-> IF i \in some THEN Released(item[i], "CANCELED") ELSE item[i]]

Cancel ==
  /\ Command
  /\ \/ /\ task.status \in {"PENDING", "PAUSED"}
        /\ item' = CanceledItems(Unfinished(item)) /\ Status("CANCELED")
     \/ /\ task.status \in {"RUNNING", "PAUSING"}
        /\ item' = CanceledItems(Unfinished(item) \ Held(item))
        /\ Status(IF Unfinished(item') = {} THEN "CANCELED" ELSE "CANCELING")
  /\ UNCHANGED job

\* Faulty variant: what became of a forecast is not asked.
RetryableAny(i) == TRUE

\* A forecast that was claimed and never frozen may not be made again.
Retryable(i) == item[i].forecast # Nobody \/ ~item[i].claimed

RetryFailed ==
  /\ Command
  /\ task.status \in {"FAILED", "PARTIAL"}
  /\ LET failed == {i \in Item : item[i].status = "FAILED"}
         again(i) == Released(item[i], IF item[i].forecast # Nobody THEN "FROZEN" ELSE "PENDING")
     IN  /\ failed # {} /\ \A i \in failed : Retryable(i)
         /\ NextGeneration([i \in Item |-> IF i \in failed THEN again(i) ELSE item[i]],
              failed, mode # "SINGLE" \/ again(1).status # "PENDING")

-----------------------------------------------------------------------------
Step(a, i) ==
  \/ Recover(a, i) \/ Start(a, i) \/ ClaimForecast(a, i) \/ RunStrategy(a, i)
  \/ SkipNotMatched(a, i) \/ FreezeForecast(a, i)
  \/ \E v \in Versions : ClaimSimulation(a, i, v)
  \/ FreezeAdjustment(a, i) \/ Checkpoint(a, i) \/ SaveSuccess(a, i) \/ Fail(a, i)

Handler(a) ==
  \/ \E g \in Generation : Begin(a, g)
  \/ NextChunk(a) \/ Raised(a)

Next ==
  \/ \E a \in Attempt : Handler(a) \/ Interrupt(a) \/ LoseLease(a)
  \/ \E a \in Attempt, i \in Item : Step(a, i) \/ Broken(a, i) \/ FailUnrecorded(a, i)
  \/ Pause \/ Resume \/ Cancel \/ RetryFailed

Spec == Init /\ [][Next]_vars

-----------------------------------------------------------------------------
TypeOK ==
  /\ mode \in {"SINGLE", "WATCHLIST"}
  /\ task \in [status : TaskStatus, generation : Generation]
  /\ item \in [Item -> [status : ItemStatus, token : Attempt \cup {Nobody},
                        claimed : BOOLEAN, forecast : Attempt \cup {Nobody},
                        test : Versions \cup {Nobody}, adjustment : Attempt \cup {Nobody},
                        result : [forecast : Attempt \cup {Nobody},
                                  test : Versions \cup {Nobody},
                                  adjustment : Attempt \cup {Nobody}]]]
  /\ forecasts \in [Item -> Nat]
  /\ commands \in 0 .. MaxCommands /\ interrupts \in 0 .. MaxInterrupts

\* Whatever pauses, crashes, retries and stale attempts there are, an item is
\* held by an attempt of the task's generation, and only while the task is
\* running or about to stop.
HeldByCurrent ==
  \A i \in Held(item) :
    /\ attempt[item[i].token].generation = task.generation
    /\ task.status \in {"RUNNING", "PAUSING", "CANCELING"}
    /\ item[i].status \notin ItemTerminal

\* The strategy sees the training data of an item once, however often the
\* task is resumed and retried (claim_forecast, retry_failed).
ForecastOnce == \A i \in Item : forecasts[i] <= 1

\* A result that was saved is the simulation of exactly what was frozen: by an
\* attempt that took over, too.
ResultOfFrozen ==
  \A i \in Item : item[i].status = "SUCCEEDED" =>
    item[i].result = [forecast |-> item[i].forecast, test |-> item[i].test,
                      adjustment |-> item[i].adjustment]

\* A task that has ended says what became of its items.
EndTellsItems ==
  LET some(statuses) == \E i \in Item : item[i].status \in statuses
      good == some({"SUCCEEDED", "SKIPPED"})
      bad == some({"FAILED", "CANCELED"})
  IN  /\ task.status \in TaskTerminal => Unfinished(item) = {}
      /\ task.status = "SUCCEEDED" => ~bad
      /\ task.status = "PARTIAL" => good /\ bad
      /\ task.status = "FAILED" => ~good

\* Where the attempt that holds an item is with it.
HolderAt(i) == exec[item[i].token][i].pc
AtWork(i) == HolderAt(i) \notin Over \cup {"idle", "gone", "unrecorded"}
LeftBehind(i) == HolderAt(i) \in {"gone", "unrecorded"}

\* No end that was recorded leaves an item held: its holder works on it, or was
\* cut off or failed without a record.  A pause or a cancellation waits for none
\* but such items: so unless one is left behind, it is answered when those at
\* work reach their safe points.
StopsAnswerable ==
  /\ \A i \in Held(item) : AtWork(i) \/ LeftBehind(i)
  /\ task.status \in {"PAUSING", "CANCELING"} =>
       \E i \in Held(item) : AtWork(i) \/ LeftBehind(i)

\* An item nobody holds is not refused to an attempt of the current generation
\* for being executed elsewhere (BACKTEST_ALREADY_RUNNING).
ItemsIndependent ==
  [][\A a \in Attempt : \A i \in Item :
       At(a, i, "recover") /\ attempt[a].generation = task.generation
       /\ item[i].token = Nobody /\ task.status \notin Stop
       => exec'[a][i].pc # "refused"]_vars

\* What the user has stopped stays stopped until he says otherwise.
PauseSticks == [][task.status = "PAUSING" => task'.status # "RUNNING"]_vars

\* A task that has ended is not reopened but to retry what failed.
EndIsFinal ==
  [][task.status \in {"SUCCEEDED", "CANCELED"} => task'.status = task.status]_vars

\* Ends and stops agree with the items, however attempts overlap.
StopsSound == EndTellsItems /\ StopsAnswerable

\* An item is held by an attempt of its task's generation, its training data is
\* seen once, and its result is that of what was frozen.
ItemsSound == HeldByCurrent /\ ForecastOnce /\ ResultOfFrozen
=============================================================================
