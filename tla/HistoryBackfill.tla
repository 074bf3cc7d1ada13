--------------------------- MODULE HistoryBackfill --------------------------
(***************************************************************************)
(* The history backfill handler (PostgresHistoryBackfillJob of backend/    *)
(* src/long_invest/modules/history_backfills/jobs.py) run by the queue:    *)
(* one job row, the workers that hold or once held its lease, the          *)
(* administrator's commands, and the daily bars that are stored.           *)
(*                                                                         *)
(* A checkpoint is what _restore_history_state and __call__ read from it,  *)
(* with the defaults of the keys it lacks.  Bars are stored outside the    *)
(* job's transactions, so a worker that has lost its lease still stores.   *)
(*                                                                         *)
(* A lease lasts until a Tick, which may come at any time: heartbeats and  *)
(* reports only delay it, and need no action of their own.                 *)
(***************************************************************************)
EXTENDS Naturals, Sequences, FiniteSets

CONSTANTS
  Frozen,             \* the symbols of the frozen universe, in order
  Concurrency,        \* symbols of one group
  MaxAttempts,        \* max_attempts as submitted
  MaxRecoveries,      \* max_recoveries as submitted
  Worker,             \* executions of run_once that may overlap
  MaxCommands         \* bound on administrator commands

ASSUME HistoryBackfillAssumption ==
  /\ Frozen \in Seq({Frozen[n] : n \in DOMAIN Frozen}) /\ Frozen # <<>>
  /\ \A m, n \in 1 .. Len(Frozen) : Frozen[m] = Frozen[n] => m = n
  /\ Concurrency \in Nat \ {0}
  /\ MaxAttempts \in Nat \ {0} /\ MaxRecoveries \in Nat /\ MaxCommands \in Nat

VARIABLES
  row,          \* the job
  issued,       \* lease tokens drawn so far
  worker,       \* the executions
  stored,       \* symbols whose bars have been stored
  commands      \* commands given so far

vars == <<row, issued, worker, stored, commands>>

Elements(s) == {s[n] : n \in DOMAIN s}
All == Elements(Frozen)

\* Lists of different symbols.
Lists == UNION {{s \in [1 .. n -> All] : \A k, m \in 1 .. n : s[k] = s[m] => k = m}
                : n \in 0 .. Len(Frozen)}
Count == 0 .. Len(Frozen)

Checkpoints == [cursor: Count, succeeded: Count, failures: Lists,
                retry_items: Lists, base_succeeded: Count, original_total: Count]
NewCheckpoint == [cursor |-> 0, succeeded |-> 0, failures |-> <<>>,
                  retry_items |-> <<>>, base_succeeded |-> 0,
                  original_total |-> Len(Frozen)]

\* result_summary["data"]; without data, or without failed items, nothing can
\* be retried item by item.
Summaries == [total: Count, succeeded: Count, failed_items: Lists]
NoSummary == [total |-> 0, succeeded |-> 0, failed_items |-> <<>>]

\* Faulty variant: the total becomes that of the retried items.
CheckpointOfRetryShort ==
  [d \in Summaries |->
     IF d.failed_items = <<>> THEN NewCheckpoint
     ELSE [cursor |-> 0, succeeded |-> 0, failures |-> <<>>,
           retry_items |-> d.failed_items, base_succeeded |-> d.succeeded,
           original_total |-> Len(d.failed_items)]]

\* What command("retry") makes of the data of the last result.
CheckpointOfRetry ==
  [d \in Summaries |->
     IF d.failed_items = <<>> THEN NewCheckpoint
     ELSE [cursor |-> 0, succeeded |-> 0, failures |-> <<>>,
           retry_items |-> d.failed_items, base_succeeded |-> d.succeeded,
           original_total |-> d.total]]

INSTANCE JobRow WITH
  LeaseDuration <- 1, RetryDelay <- 0,
  Checkpoint <- Checkpoints, NoCheckpoint <- NewCheckpoint,
  Data <- Summaries, NoData <- NoSummary, RetryCheckpoint <- CheckpointOfRetry

(***************************************************************************)
(* Reading a checkpoint.                                                   *)
(***************************************************************************)
Selected(c) == IF c.retry_items # <<>> THEN c.retry_items ELSE Frozen

\* The checks of __call__ and _restore_history_state; otherwise the job fails
\* with HISTORY_BACKFILL_CHECKPOINT_INVALID.
Restorable(c) ==
  /\ Elements(c.retry_items) \subseteq All
  /\ c.base_succeeded + Len(Selected(c)) <= c.original_total
  /\ c.cursor <= Len(Selected(c))
  /\ c.succeeded + Len(c.failures) = c.cursor

GroupEnd(c) == IF c.cursor + Concurrency < Len(Selected(c))
               THEN c.cursor + Concurrency ELSE Len(Selected(c))
Group(c) == SubSeq(Selected(c), c.cursor + 1, GroupEnd(c))

\* The symbols of the group that failed, in its order.
Failing(group, good) ==
  {bad \in Lists :
     /\ Elements(bad) = Elements(group) \ good
     /\ \A k, m \in DOMAIN bad : k < m =>
          \E i \in DOMAIN group : \E n \in DOMAIN group :
            i < n /\ group[i] = bad[k] /\ group[n] = bad[m]}

\* Faulty variant: failures are forgotten.
AdvancedForgetful(c, bad) ==
  [c EXCEPT !.cursor = GroupEnd(c), !.succeeded = @ + Len(Group(c))]

\* The loop's state after a group of which the symbols in `bad` failed.
Advanced(c, bad) ==
  [c EXCEPT !.cursor = GroupEnd(c),
            !.succeeded = @ + Len(Group(c)) - Len(bad),
            !.failures = @ \o bad]

(***************************************************************************)
(* Results.                                                                *)
(***************************************************************************)
Failure(retryable) == [success |-> FALSE, partial |-> FALSE,
                       retryable |-> retryable, data |-> NoSummary]

\* _history_stopped: the result of a handler that stopped at a safe point.
StoppedResult(c) ==
  [success |-> TRUE, partial |-> FALSE, retryable |-> FALSE,
   data |-> [total |-> c.original_total,
             succeeded |-> c.base_succeeded + c.cursor - Len(c.failures),
             failed_items |-> c.failures]]

\* Faulty variants: what earlier attempts achieved is not counted; a backfill
\* of which nothing succeeded is a success.
FinalResultUnbased(c) ==
  [success   |-> c.failures = <<>> \/ c.succeeded > 0,
   partial   |-> c.failures # <<>> /\ c.succeeded > 0,
   retryable |-> FALSE,
   data      |-> [total |-> c.original_total, succeeded |-> c.succeeded,
                  failed_items |-> c.failures]]
FinalResultAlwaysGood(c) ==
  LET succeeded == c.base_succeeded + c.succeeded
  IN  [success   |-> TRUE,
       partial   |-> c.failures # <<>> /\ succeeded > 0,
       retryable |-> FALSE,
       data      |-> [total |-> c.original_total, succeeded |-> succeeded,
                      failed_items |-> c.failures]]

\* The end of __call__, every group done.
FinalResult(c) ==
  LET succeeded == c.base_succeeded + c.succeeded
  IN  [success   |-> c.failures = <<>> \/ succeeded > 0,
       partial   |-> c.failures # <<>> /\ succeeded > 0,
       retryable |-> FALSE,
       data      |-> [total |-> c.original_total, succeeded |-> succeeded,
                      failed_items |-> c.failures]]

(***************************************************************************)
(* The executions.  `local` is the loop state, in the form of the          *)
(* checkpoint that _report would write.                                    *)
(***************************************************************************)
PC == {"idle", "loop", "guard", "group", "after", "commit"}

Idle == [pc |-> "idle", token |-> NoToken, local |-> NewCheckpoint,
         result |-> Failure(FALSE)]

Init ==
  /\ row = Submitted(Absent(MaxAttempts, MaxRecoveries))
  /\ issued = 0
  /\ worker = [w \in Worker |-> Idle]
  /\ stored = {}
  /\ commands = 0

\* Faulty variant: any lease will do.
HoldsAnyLease(w) == row.status = "RUNNING" /\ row.lease > 0

Holds(w) == Active(row, worker[w].token)
Goto(w, pc) == worker' = [worker EXCEPT ![w].pc = pc]
Leave(w, result) ==
  worker' = [worker EXCEPT ![w].pc = "commit", ![w].result = result]

\* Claim, and the handler's start up to its loop.
Claim(w) ==
  /\ worker[w].pc = "idle"
  /\ Claimable(row)
  /\ row' = Claimed(row, issued + 1)
  /\ issued' = issued + 1
  /\ worker' = [worker EXCEPT ![w] =
       [pc |-> IF Restorable(row.checkpoint) THEN "loop" ELSE "commit",
        token |-> issued + 1, local |-> row.checkpoint,
        result |-> Failure(FALSE)]]
  /\ UNCHANGED <<stored, commands>>

\* _report: saves the loop's state if the lease still counts.  The handler
\* stops when the row answers PAUSED or CANCELED; it goes on to `next` when
\* the row is RUNNING, and also when the report was refused.
Report(w, next) ==
  LET c == worker[w].local
      answer == IF Holds(w) THEN Reported(row, c, FALSE) ELSE row
  IN  /\ row' = answer
      /\ IF Holds(w) /\ answer.status \in {"PAUSED", "CANCELED"}
         THEN Leave(w, StoppedResult(c))
         ELSE Goto(w, next)
      /\ UNCHANGED <<issued, stored, commands>>

ReportBefore(w) ==
  /\ worker[w].pc = "loop"
  /\ worker[w].local.cursor < Len(Selected(worker[w].local))
  /\ Report(w, "guard")

Finish(w) ==
  /\ worker[w].pc = "loop"
  /\ worker[w].local.cursor = Len(Selected(worker[w].local))
  /\ Leave(w, FinalResult(worker[w].local))
  /\ UNCHANGED <<row, issued, stored, commands>>

DiskSafe(w) ==
  /\ worker[w].pc = "guard"
  /\ Goto(w, "group")
  /\ UNCHANGED <<row, issued, stored, commands>>

\* The disk is too full: the report asks for a pause and the handler stops,
\* whatever the answer.
DiskUnsafe(w) ==
  LET c == worker[w].local IN
  /\ worker[w].pc = "guard"
  /\ row' = IF Holds(w) THEN Reported(row, c, TRUE) ELSE row
  /\ Leave(w, StoppedResult(c))
  /\ UNCHANGED <<issued, stored, commands>>

\* The group is fetched and stored concurrently; each symbol succeeds or fails.
ProcessGroup(w) ==
  LET c == worker[w].local IN
  /\ worker[w].pc = "group"
  /\ \E good \in SUBSET Elements(Group(c)) : \E bad \in Failing(Group(c), good) :
       /\ stored' = stored \cup good
       /\ worker' = [worker EXCEPT ![w].pc = "after",
                                   ![w].local = Advanced(c, bad)]
  /\ UNCHANGED <<row, issued, commands>>

ReportAfter(w) ==
  /\ worker[w].pc = "after"
  /\ Report(w, "loop")

\* The soft timeout (retryable) or an exception (final) ends the handler, in a
\* group perhaps after some of it has been stored.
Interrupt(w) ==
  LET c == worker[w].local IN
  /\ worker[w].pc \in {"loop", "guard", "group", "after"}
  /\ \E retryable \in BOOLEAN : Leave(w, Failure(retryable))
  /\ \E good \in SUBSET IF worker[w].pc = "group" THEN Elements(Group(c)) ELSE {} :
       stored' = stored \cup good
  /\ UNCHANGED <<row, issued, commands>>

\* The runner commits the result; a stale token is refused, and the
\* transaction itself may fail.
Commit(w) ==
  LET r == worker[w].result IN
  /\ worker[w].pc = "commit"
  /\ worker' = [worker EXCEPT ![w] = Idle]
  /\ \/ Holds(w) /\ r.success /\ row' = Completed(row, r)
     \/ Holds(w) /\ ~r.success /\ row' = Failed(row, r)
     \/ UNCHANGED row
  /\ UNCHANGED <<issued, stored, commands>>

Crash(w) ==
  /\ worker[w].pc # "idle"
  /\ worker' = [worker EXCEPT ![w] = Idle]
  /\ UNCHANGED <<row, issued, stored, commands>>

(***************************************************************************)
(* Recovery, commands, time.                                               *)
(***************************************************************************)
Recover ==
  /\ Expired(row)
  /\ row' = Recovered(row)
  /\ UNCHANGED <<issued, worker, stored, commands>>

Command(action) ==
  /\ commands < MaxCommands
  /\ Allowed(row, action)
  /\ row' = Commanded(row, action)
  /\ commands' = commands + 1
  /\ UNCHANGED <<issued, worker, stored>>

LeaseEnds ==
  /\ row.lease > 0
  /\ row' = Ticked(row)
  /\ UNCHANGED <<issued, worker, stored, commands>>

Next ==
  \/ \E w \in Worker :
       \/ Claim(w) \/ ReportBefore(w) \/ Finish(w) \/ DiskSafe(w)
       \/ DiskUnsafe(w) \/ ProcessGroup(w) \/ ReportAfter(w) \/ Interrupt(w)
       \/ Commit(w) \/ Crash(w)
  \/ Recover
  \/ \E action \in Action : Command(action)
  \/ LeaseEnds

Spec == Init /\ [][Next]_vars

-----------------------------------------------------------------------------
(* Properties. *)

\* Types of the row, of the workers' local checkpoints and results, and of the
\* store.
TypeOK ==
  /\ row \in Row
  /\ issued \in Nat
  /\ worker \in [Worker -> [pc: PC, token: 0 .. issued, local: Checkpoints,
                            result: Result]]
  /\ stored \subseteq All
  /\ commands \in 0 .. MaxCommands

\* What a checkpoint counts as done: selected neither from its cursor on nor
\* as a failure.
Remaining(c) ==
  Elements(SubSeq(Selected(c), c.cursor + 1, Len(Selected(c))))
Done(c) == All \ (Remaining(c) \cup Elements(c.failures))

(***************************************************************************)
(* Whatever attempts, pauses, retries of failed items and lost leases came *)
(* before, the next attempt can restore the checkpoint: no job is brought  *)
(* down by HISTORY_BACKFILL_CHECKPOINT_INVALID of its own making.          *)
(***************************************************************************)
CheckpointRestorable == Restorable(row.checkpoint)

(***************************************************************************)
(* No symbol is lost: what the checkpoint no longer selects and does not   *)
(* list as failed has been stored before the progress was saved.           *)
(***************************************************************************)
NothingLost == Done(row.checkpoint) \subseteq stored

\* Each symbol is counted once, across retries too, where the counts come from
\* an earlier result.
CountedOnce ==
  row.checkpoint.base_succeeded + row.checkpoint.succeeded
    = Cardinality(Done(row.checkpoint))

(***************************************************************************)
(* The result an operator sees is true: SUCCEEDED means that every symbol  *)
(* has been stored; PARTIAL accounts for every symbol, and names some that *)
(* failed, so that it can be retried (it can be neither canceled nor       *)
(* resumed).                                                               *)
(***************************************************************************)
ResultTrue ==
  /\ row.status = "SUCCEEDED" => stored = All
  /\ row.status = "PARTIAL" =>
       /\ All \ Elements(row.summary.failed_items) \subseteq stored
       /\ row.summary.succeeded + Len(row.summary.failed_items) = Len(Frozen)
       /\ Allowed(row, "retry")

(***************************************************************************)
(* Workers never undo progress: only a retry changes what is done, so a    *)
(* worker that lost its lease cannot take the job back.                    *)
(***************************************************************************)
ProgressKept ==
  [][\/ Done(row.checkpoint) \subseteq Done(row'.checkpoint)
     \/ row.status \in {"FAILED", "PARTIAL"} /\ row'.status = "PENDING"]_vars

(***************************************************************************)
(* The design document's rule for retries: they keep the checkpoint and    *)
(* take up only what failed or was not finished.                           *)
(***************************************************************************)
RetryOnlyUnfinished ==
  [][row'.attempt_count = row.attempt_count /\ row'.status = "PENDING"
       => Remaining(row'.checkpoint) \cap Done(row.checkpoint) = {}]_vars

\* A checkpoint can always be restored, it counts every symbol once, and the
\* result built from it is true.
ProgressSound == CheckpointRestorable /\ CountedOnce /\ ResultTrue
=============================================================================
