----------------------------- MODULE DailyBatch -----------------------------
(***************************************************************************)
(* The bars of one trading day                                             *)
(* (backend/src/long_invest/modules/daily_data): the job of the market     *)
(* close, and the job that recovers a day later, each with a batch of its  *)
(* own (jobs.py), whose stages are validated and committed to the store    *)
(* (service.py), which history backfills write to as well.                 *)
(*                                                                         *)
(* A worker whose lease is lost works on beside the next one.  Each        *)
(* transaction is one action, but for those that write bars: these read    *)
(* them first, and absent rows cannot be locked.  Groups hold one symbol;  *)
(* safe points are left to JobRunner.                                      *)
(***************************************************************************)
EXTENDS Naturals, Sequences, FiniteSets, SequencesExt

CONSTANTS
  N,                  \* the frozen universe has the symbols 1 .. N
  Suspended,          \* those known to be suspended
  Good,               \* values that pass validate_daily_bar
  Worker,
  None,
  MaxRetries,         \* MAX_INDIVIDUAL_DAILY_RETRIES
  MaxClaims,          \* bounds: how often jobs are claimed,
  MaxHistory          \*   and how many bars backfills store

Symbol == 1 .. N
Job == {"market", "recovery"}
Value == Good \cup {"bad"}
Terminal == {"SUCCEEDED", "PARTIAL", "FAILED"}

VARIABLES
  batch,              \* status of the batch of each job, NONE before it exists
  stage,              \* daily_bar_stage: by job and symbol
  bar,                \* daily_bar_unadjusted, and the number of its revisions
  job,                \* row of the job: status, holder of the lease, checkpoint
  worker,             \* what each worker is doing
  history,            \* what a backfill is storing, and how many bars it has
  claims              \* how often jobs were claimed

vars == <<batch, stage, bar, job, worker, history, claims>>

NoStage == [status |-> "NONE", value |-> None, copied |-> FALSE]
NoBar == [value |-> None, version |-> 0, revisions |-> 0]
Idle == [pc |-> "idle"]
NoStore == [symbol |-> 0, value |-> None, seen |-> NoBar, count |-> 0]

Init ==
  /\ batch = [j \in Job |-> "NONE"]
  /\ stage = [j \in Job |-> [s \in Symbol |-> NoStage]]
  /\ bar = [s \in Symbol |-> NoBar]
  /\ job = [j \in Job |-> [status |-> "PENDING", holder |-> None,
                           saved |-> FALSE, next |-> 0, retried |-> FALSE]]
  /\ worker = [w \in Worker |-> Idle]
  /\ history = NoStore /\ claims = 0

-----------------------------------------------------------------------------
At(w, pc) == worker[w].pc = pc
JobOf(w) == worker[w].job
Go(w, task) == worker' = [worker EXCEPT ![w] = task]
To(w, pc) == Go(w, [worker[w] EXCEPT !.pc = pc])
Holds(w) == job[JobOf(w)].holder = w

\* What has the row of a batch, and rows of bars, locked.
Committing(w) == At(w, "committing")
Free(j) == \A w \in Worker : Committing(w) => JobOf(w) # j
Unlocked(s) == \A w \in Worker : Committing(w) => s \notin worker[w].locked

(***************************************************************************)
(* DailyDataService.                                                       *)
(***************************************************************************)
\* _known_absence; the recovery of a day knows of no suspension.
Absent(j, s) == j = "market" /\ s \in Suspended

\* _bar_stage, _failed_stage
FetchedStage(v) == [status |-> "FETCHED", value |-> v, copied |-> FALSE]
FailedStage(j, s) == [NoStage EXCEPT !.status = IF Absent(j, s) THEN "MISSING" ELSE "FAILED"]
Results(j, s) == {FetchedStage(v) : v \in Value} \cup {FailedStage(j, s)}

\* Faulty variant: a batch that has ended is staged again.
MayStageEnded(j) == batch[j] # "NONE"

\* stage_many
MayStage(j) == batch[j] \in {"PENDING", "FETCHING", "VALIDATING"}

StageMany(j, new) ==
  /\ stage' = [stage EXCEPT ![j] = [s \in Symbol |-> IF s \in DOMAIN new THEN new[s]
                                                     ELSE stage[j][s]]]
  /\ batch' = [batch EXCEPT ![j] = "FETCHING"]

\* validate
Validated(g) ==
  IF g.status # "FETCHED" THEN g
  ELSE [g EXCEPT !.status = IF g.value \in Good THEN "VALID" ELSE "INVALID"]

ValidatedStages(j) == [s \in Symbol |-> Validated(stage[j][s])]

Retryable(j) == {s \in Symbol : stage[j][s].status \in {"NONE", "FAILED", "INVALID"}}

\* Faulty variant: what has been validated is committed, whatever came of it.
ReadyOnceSeen(g) == g.status \in {"VALID", "INVALID"}

Ready(g) == g.status = "VALID"

\* _commit_stages compares the time of collection too, which the store keeps
\* from the first time: only a stage copied from the store can equal its bar.
Changed(g, b) == b.version = 0 \/ ~g.copied \/ g.value # b.value

\* Faulty variant: symbols nothing was staged for are taken as explained.
CommitStatusLenient(j, ready) ==
  LET unexplained == {s \in Symbol \ ready : stage[j][s].status \notin {"NONE", "MISSING"}}
  IN  CASE unexplained = {} -> "SUCCEEDED"
        [] unexplained # {} /\ ready # {} -> "PARTIAL"
        [] OTHER -> "FAILED"

\* The status of a batch whose ready stages are committed.
CommitStatus(j, ready) ==
  LET unexplained == {s \in Symbol \ ready : stage[j][s].status # "MISSING"}
  IN  CASE unexplained = {} -> "SUCCEEDED"
        [] unexplained # {} /\ ready # {} -> "PARTIAL"
        [] OTHER -> "FAILED"

\* upsert; a bar that existed when it was read gets a revision
Upserted(s, row) ==
  [value |-> row.value, version |-> row.version,
   revisions |-> bar[s].revisions + (IF row.revised THEN 1 ELSE 0)]

RowOf(v, seen) == [value |-> v, version |-> seen.version + 1, revised |-> seen.version > 0]

(***************************************************************************)
(* The jobs (FullMarketDailyJob, DailyMarketRecoveryJob).                  *)
(***************************************************************************)
Task(j) ==
  [pc |-> "start", job |-> j, saved |-> job[j].saved, next |-> job[j].next,
   retried |-> job[j].retried, groups |-> <<>>, copied |-> {}, todo |-> {},
   rows |-> <<>>, locked |-> {}]

\* The queue gives a worker the job, for the first time or after a lost lease.
Claim(w, j) ==
  /\ At(w, "idle") /\ job[j].status \in {"PENDING", "RUNNING"} /\ claims < MaxClaims
  /\ job' = [job EXCEPT ![j].status = "RUNNING", ![j].holder = w] /\ claims' = claims + 1
  /\ Go(w, Task(j))
  /\ UNCHANGED <<batch, stage, bar, history>>

\* Every job starts by looking for its batch; without a checkpoint the recovery
\* has frozen a universe first.
Start(w) ==
  LET j == JobOf(w) IN
  /\ At(w, "start")
  /\ IF j = "recovery"
     THEN To(w, IF worker[w].saved THEN "look" ELSE "announce")
     ELSE Go(w, [worker[w] EXCEPT
            !.pc = CASE batch[j] \in Terminal -> "finish"
                     [] batch[j] = "NONE" -> "create"
                     [] OTHER -> IF worker[w].saved THEN "collect" ELSE "announce",
            !.groups = [i \in Symbol |-> i]])
  /\ UNCHANGED <<batch, stage, bar, job, history, claims>>

\* The first report.
Announce(w) ==
  LET j == JobOf(w) IN
  /\ At(w, "announce")
  /\ job' = IF Holds(w) THEN [job EXCEPT ![j].saved = TRUE, ![j].next = 0] ELSE job
  /\ To(w, IF j = "recovery" THEN "look" ELSE "collect")
  /\ UNCHANGED <<batch, stage, bar, history, claims>>

\* _recover_date asks the sources for what the store lacks.
Look(w) ==
  LET j == JobOf(w)
      network == {s \in Symbol : bar[s].version = 0}
  IN
  /\ At(w, "look")
  /\ IF batch[j] \in Terminal THEN To(w, "finish")
     ELSE Go(w, [worker[w] EXCEPT
            !.pc = IF batch[j] = "NONE" THEN "create" ELSE "copy",
            !.groups = SetToSortSeq(network, <),
            !.copied = {<<s, bar[s].value>> : s \in Symbol \ network}])
  /\ UNCHANGED <<batch, stage, bar, job, history, claims>>

\* create: another worker's batch has another frozen universe.
Create(w) ==
  LET j == JobOf(w) IN
  /\ At(w, "create")
  /\ IF batch[j] = "NONE"
     THEN /\ batch' = [batch EXCEPT ![j] = "PENDING"]
          /\ To(w, IF j = "recovery" THEN "copy" ELSE "announce")
     ELSE UNCHANGED batch /\ To(w, "fail")
  /\ UNCHANGED <<stage, bar, job, history, claims>>

\* The recovery stages what the store has.
Copy(w) ==
  LET j == JobOf(w)
      symbols == {c[1] : c \in worker[w].copied}
  IN
  /\ At(w, "copy") /\ Free(j)
  /\ IF symbols = {} THEN UNCHANGED <<batch, stage>>
     ELSE IF MayStage(j)
     THEN StageMany(j, [s \in symbols |->
            [status |-> "FETCHED", copied |-> TRUE,
             value |-> (CHOOSE c \in worker[w].copied : c[1] = s)[2]]])
     ELSE UNCHANGED <<batch, stage>>
  /\ To(w, IF \/ symbols # {} /\ ~MayStage(j)
              \/ worker[w].next > Len(worker[w].groups) THEN "fail" ELSE "collect")
  /\ UNCHANGED <<bar, job, history, claims>>

\* One group is fetched and staged; a failed page of the market stages nothing.
Collect(w) ==
  LET j == JobOf(w) IN
  /\ At(w, "collect") /\ worker[w].next < Len(worker[w].groups) /\ Free(j)
  /\ LET s == worker[w].groups[worker[w].next + 1] IN
     \/ /\ MayStage(j)
        /\ \E g \in Results(j, s) : StageMany(j, [t \in {s} |-> g])
        /\ To(w, "report")
     \/ j = "market" /\ To(w, "report") /\ UNCHANGED <<batch, stage>>
     \/ ~MayStage(j) /\ To(w, "fail") /\ UNCHANGED <<batch, stage>>
  /\ UNCHANGED <<bar, job, history, claims>>

\* _report
Saved(w, next, retried) ==
  IF Holds(w) THEN [job EXCEPT ![JobOf(w)].next = next, ![JobOf(w)].retried = @ \/ retried]
  ELSE job

Report(w) ==
  /\ At(w, "report")
  /\ job' = Saved(w, worker[w].next + 1, FALSE)
  /\ Go(w, [worker[w] EXCEPT !.pc = "collect", !.next = @ + 1])
  /\ UNCHANGED <<batch, stage, bar, history, claims>>

\* validate, which a batch that has ended ignores
Validate(w) ==
  LET j == JobOf(w) IN
  /\ At(w, "collect") /\ worker[w].next = Len(worker[w].groups) /\ Free(j)
  /\ IF batch[j] \in Terminal THEN UNCHANGED <<batch, stage>>
     ELSE /\ batch' = [batch EXCEPT ![j] = "VALIDATING"]
          /\ stage' = [stage EXCEPT ![j] = ValidatedStages(j)]
  /\ To(w, "validated")
  /\ UNCHANGED <<bar, job, history, claims>>

\* _retry_failed, _retry_invalid: what is to be fetched once more; the market
\* gives up when it is too much, and does it once.
RetryScope(w) ==
  LET j == JobOf(w)
      skip == j = "market" /\ \/ worker[w].retried
                              \/ Cardinality(Retryable(j)) > MaxRetries
      again == IF skip THEN {} ELSE Retryable(j)
  IN
  /\ At(w, "validated")
  /\ job' = IF j = "market" THEN Saved(w, N, FALSE) ELSE job
  /\ Go(w, [worker[w] EXCEPT !.pc = IF again = {} THEN "commit" ELSE "retry", !.todo = again])
  /\ UNCHANGED <<batch, stage, bar, history, claims>>

\* The market stages what it has fetched once it has come to the last symbol (or
\* has twenty, which the model leaves out).  When that one is not to be retried the
\* loop passes it by, and what was fetched is dropped.
Dropped(w) == JobOf(w) = "market" /\ N \notin worker[w].todo

Retry(w) ==
  LET j == JobOf(w) IN
  /\ At(w, "retry") /\ (Dropped(w) \/ Free(j))
  /\ IF Dropped(w) THEN UNCHANGED <<batch, stage>> /\ To(w, "commit")
     ELSE IF MayStage(j)
     THEN /\ \E new \in [worker[w].todo -> UNION {Results(j, s) : s \in Symbol}] :
               /\ \A s \in worker[w].todo : new[s] \in Results(j, s)
               /\ StageMany(j, new)
          /\ To(w, IF j = "market" THEN "retried" ELSE "commit")
     ELSE UNCHANGED <<batch, stage>> /\ To(w, "fail")
  /\ UNCHANGED <<bar, job, history, claims>>

ReportRetry(w) ==
  /\ At(w, "retried")
  /\ job' = Saved(w, N, TRUE) /\ To(w, "commit")
  /\ UNCHANGED <<batch, stage, bar, history, claims>>

\* The last transaction validates and commits: it reads bars, locks those that
\* exist ...
Commit(w) ==
  LET j == JobOf(w)
      now == ValidatedStages(j)
      ready == {s \in Symbol : Ready(now[s])}
  IN
  /\ At(w, "commit") /\ Free(j)
  /\ IF batch[j] \in Terminal THEN To(w, "finish")
     ELSE /\ \A s \in ready : bar[s].version > 0 => Unlocked(s)
          /\ Go(w, [worker[w] EXCEPT
               !.pc = "committing",
               !.rows = [s \in {t \in ready : Changed(now[t], bar[t])} |->
                           RowOf(now[s].value, bar[s])],
               !.locked = {s \in ready : bar[s].version > 0}])
  /\ UNCHANGED <<batch, stage, bar, job, history, claims>>

\* ... and writes them.
Committed(w) ==
  LET j == JobOf(w)
      rows == worker[w].rows
      ready == {s \in Symbol : Ready(Validated(stage[j][s]))}
  IN
  /\ Committing(w)
  /\ stage' = [stage EXCEPT ![j] = ValidatedStages(j)]
  /\ bar' = [s \in Symbol |-> IF s \in DOMAIN rows THEN Upserted(s, rows[s]) ELSE bar[s]]
  /\ batch' = [batch EXCEPT ![j] = CommitStatus(j, ready)]
  /\ Go(w, [worker[w] EXCEPT !.pc = "finish", !.rows = <<>>, !.locked = {}])
  /\ UNCHANGED <<job, history, claims>>

\* The job ends as its batch has, or with an exception.
Finish(w) ==
  LET j == JobOf(w)
      failed == At(w, "fail") \/ (j = "market" /\ batch[j] = "FAILED")
  IN
  /\ At(w, "finish") \/ At(w, "fail")
  /\ job' = IF ~Holds(w) THEN job
            ELSE [job EXCEPT ![j].status = IF failed THEN "FAILED" ELSE "SUCCEEDED",
                             ![j].holder = None]
  /\ Go(w, Idle)
  /\ UNCHANGED <<batch, stage, bar, history, claims>>

\* The process dies; an open transaction is rolled back.
Crash(w) ==
  /\ ~At(w, "idle")
  /\ Go(w, Idle)
  /\ UNCHANGED <<batch, stage, bar, job, history, claims>>

\* store_historical_bars reads ...
HistoryReads(s) ==
  /\ history.symbol = 0 /\ history.count < MaxHistory
  /\ \E v \in Good : history' = [symbol |-> s, value |-> v, seen |-> bar[s],
                                 count |-> history.count + 1]
  /\ UNCHANGED <<batch, stage, bar, job, worker, claims>>

\* ... and writes, or violates the uniqueness of revisions.
HistoryWrites ==
  LET s == history.symbol IN
  /\ s # 0 /\ (bar[s].version > 0 => Unlocked(s))
  /\ bar' = IF history.seen.version > 0 /\ history.seen.revisions # bar[s].revisions THEN bar
            ELSE [bar EXCEPT ![s] = Upserted(s, RowOf(history.value, history.seen))]
  /\ history' = [NoStore EXCEPT !.count = history.count]
  /\ UNCHANGED <<batch, stage, job, worker, claims>>

-----------------------------------------------------------------------------
Step(w) ==
  \/ Start(w) \/ Announce(w) \/ Look(w) \/ Create(w) \/ Copy(w) \/ Collect(w)
  \/ Report(w) \/ Validate(w) \/ RetryScope(w) \/ Retry(w) \/ ReportRetry(w)
  \/ Commit(w) \/ Committed(w) \/ Finish(w)

Next ==
  \/ \E w \in Worker : (\E j \in Job : Claim(w, j)) \/ Step(w) \/ Crash(w)
  \/ \E s \in Symbol : HistoryReads(s)
  \/ HistoryWrites

Spec == Init /\ [][Next]_vars
-----------------------------------------------------------------------------
(* Properties. *)

\* Types.
TypeOK ==
  /\ batch \in [Job -> {"NONE", "PENDING", "FETCHING", "VALIDATING"} \cup Terminal]
  /\ \A j \in Job, s \in Symbol :
       /\ stage[j][s].status \in {"NONE", "FETCHED", "MISSING", "FAILED", "VALID", "INVALID"}
       /\ stage[j][s].value \in Value \cup {None} /\ stage[j][s].copied \in BOOLEAN
  /\ \A j \in Job : job[j].next \in 0 .. N

(***************************************************************************)
(* A batch that has succeeded has a bar in the store for every symbol of   *)
(* the frozen universe, but for those whose absence is known: overlapping  *)
(* workers, resumed ones and failed pages leave no hole behind a success.  *)
(***************************************************************************)
BatchTruth ==
  \A j \in Job : batch[j] = "SUCCEEDED" =>
    \A s \in Symbol : bar[s].version > 0 \/ (Absent(j, s) /\ stage[j][s].status = "MISSING")

(***************************************************************************)
(* No bar enters the store that has failed validation, though stages are   *)
(* staged again, by other workers too, after they were validated.          *)
(***************************************************************************)
OnlyValidated == \A s \in Symbol : bar[s].value \in Good \cup {None}

(***************************************************************************)
(* A batch that has ended keeps its status and its stages, whatever a      *)
(* worker that lost its lease, or the next one, still brings.              *)
(***************************************************************************)
EndsForGood ==
  [][\A j \in Job : batch[j] \in Terminal =>
       batch'[j] = batch[j] /\ stage'[j] = stage[j]]_vars

(***************************************************************************)
(* A bar whose value changes gets a revision in the same transaction, as   *)
(* the design asks; a committing batch and a backfill that both found no   *)
(* bar to lock write one after the other and keep no revision (README).    *)
(***************************************************************************)
ChangesRevised ==
  [][\A s \in Symbol :
       bar[s].version > 0 /\ bar'[s].value # bar[s].value
         => bar'[s].revisions > bar[s].revisions]_vars
=============================================================================
