------------------------------- MODULE JobRow -------------------------------
(***************************************************************************)
(* One row of the table `job` and what each method of PostgresJobService   *)
(* does to it (backend/src/long_invest/platform/jobs/postgres_service.py). *)
(* Every method locks the row, checks it, assigns columns and commits, so  *)
(* an operator from the old row to the new one is the whole method.        *)
(*                                                                         *)
(* Times are kept as what is left of them: `lease` counts the ticks until  *)
(* lease_expires_at and `due` those until next_run_at; 0 means that `now`  *)
(* has reached the column.  What a handler saves and returns is opaque     *)
(* here: checkpoints and result data are elements of constant sets.        *)
(***************************************************************************)
EXTENDS Naturals

CONSTANTS
  LeaseDuration,      \* ticks a claim or a renewal buys
  RetryDelay,         \* ticks between a retryable failure and the next run
  Checkpoint,         \* what job.checkpoint may hold
  NoCheckpoint,       \* the empty checkpoint of a new job
  Data,               \* what result_summary["data"] may hold
  NoData,             \* no result has been stored, or one without data
  RetryCheckpoint     \* data -> the checkpoint a retry builds from its failed
                      \* items; NoCheckpoint when it lists none

ASSUME JobRowAssumption ==
  /\ LeaseDuration \in Nat \ {0}
  /\ RetryDelay \in Nat
  /\ NoCheckpoint \in Checkpoint
  /\ NoData \in Data
  /\ RetryCheckpoint \in [Data -> Checkpoint]
  /\ RetryCheckpoint[NoData] = NoCheckpoint

NoToken == 0          \* lease_token IS NULL

Terminal == {"SUCCEEDED", "PARTIAL", "FAILED", "CANCELED"}

\* "ABSENT" stands for a job that has not been inserted.
Status == {"ABSENT", "PENDING", "RUNNING", "PAUSED"} \cup Terminal

Action == {"pause", "resume", "cancel", "retry"}

Row == [status          : Status,
        attempt_count   : Nat,
        max_attempts    : Nat,
        recovery_count  : Nat,
        max_recoveries  : Nat,      \* 0 when the job is not recoverable
        pause_requested : BOOLEAN,
        cancel_requested: BOOLEAN,
        lease_token     : Nat,
        lease           : 0 .. LeaseDuration,
        due             : 0 .. RetryDelay,
        terminal        : BOOLEAN,  \* terminal_at IS NOT NULL
        version         : Nat,
        checkpoint      : Checkpoint,
        summary         : Data]     \* data of result_summary

Result == [success: BOOLEAN, partial: BOOLEAN, retryable: BOOLEAN, data: Data]

AtLeast(m, n) == IF m >= n THEN m ELSE n

(***************************************************************************)
(* Rows before and after their insertion.                                  *)
(***************************************************************************)
Absent(attempts, recoveries) ==
  [status |-> "ABSENT", attempt_count |-> 0, max_attempts |-> attempts,
   recovery_count |-> 0, max_recoveries |-> recoveries,
   pause_requested |-> FALSE, cancel_requested |-> FALSE,
   lease_token |-> NoToken, lease |-> 0, due |-> 0, terminal |-> FALSE,
   version |-> 1, checkpoint |-> NoCheckpoint, summary |-> NoData]

Submitted(r) == [r EXCEPT !.status = "PENDING"]

(***************************************************************************)
(* _finish and the requeueing that fail and recover_expired share.         *)
(***************************************************************************)
Finished(r, status) ==
  [r EXCEPT !.status = status, !.terminal = (status # "PAUSED"),
            !.pause_requested = FALSE, !.cancel_requested = FALSE,
            !.lease_token = NoToken, !.lease = 0, !.version = @ + 1]

\* Faulty variants: the lease is left behind; the version is not raised.
RequeuedWithLease(r, delay) ==
  [r EXCEPT !.status = "PENDING", !.due = delay, !.version = @ + 1]
RequeuedUnversioned(r, delay) ==
  [r EXCEPT !.status = "PENDING", !.due = delay,
            !.lease_token = NoToken, !.lease = 0]

Requeued(r, delay) ==
  [r EXCEPT !.status = "PENDING", !.due = delay,
            !.lease_token = NoToken, !.lease = 0, !.version = @ + 1]

\* Faulty variant: only a cancel is honoured.
HonourCancelOnly(r, otherwise) ==
  IF r.cancel_requested THEN Finished(r, "CANCELED") ELSE otherwise

\* The order in which every method asks: a cancel, then a pause, then its own
\* outcome.
HonourControl(r, otherwise) ==
  CASE r.cancel_requested -> Finished(r, "CANCELED")
    [] ~r.cancel_requested /\ r.pause_requested -> Finished(r, "PAUSED")
    [] ~r.cancel_requested /\ ~r.pause_requested -> otherwise

(***************************************************************************)
(* What a worker does with a row.                                          *)
(***************************************************************************)
Claimable(r) == r.status = "PENDING" /\ r.due = 0

\* Faulty variant: the lease outlasts its duration.
ClaimedTooLong(r, token) ==
  [r EXCEPT !.status = "RUNNING", !.attempt_count = @ + 1,
            !.lease_token = token, !.lease = LeaseDuration + 1,
            !.version = @ + 1]

Claimed(r, token) ==
  [r EXCEPT !.status = "RUNNING", !.attempt_count = @ + 1,
            !.lease_token = token, !.lease = LeaseDuration,
            !.pause_requested = FALSE, !.cancel_requested = FALSE,
            !.version = @ + 1]

\* Faulty variant: any worker may write while some worker holds the lease.
ActiveAnyToken(r, token) == r.status = "RUNNING" /\ r.lease > 0

\* _active_job: the caller still holds the lease.
Active(r, token) ==
  r.status = "RUNNING" /\ r.lease_token = token /\ r.lease > 0

\* renew_lease writes no version: a heartbeat does not invalidate what an
\* administrator has read.
Renewed(r) == [r EXCEPT !.lease = LeaseDuration]

Reported(r, checkpoint, pause) ==
  LET saved == [r EXCEPT !.checkpoint = checkpoint, !.lease = LeaseDuration,
                         !.pause_requested = @ \/ pause, !.version = @ + 1]
  IN  HonourControl(saved, saved)

Completed(r, result) ==
  LET saved == [r EXCEPT !.summary = result.data]
  IN  HonourControl(saved,
        Finished(saved, IF result.partial THEN "PARTIAL" ELSE "SUCCEEDED"))

\* Faulty variant: one attempt too many.
FailedOneMore(r, result) ==
  LET saved == [r EXCEPT !.summary = result.data]
  IN  HonourControl(saved,
        IF result.retryable /\ r.attempt_count <= r.max_attempts
        THEN Requeued(saved, RetryDelay)
        ELSE Finished(saved, "FAILED"))

Failed(r, result) ==
  LET saved == [r EXCEPT !.summary = result.data]
  IN  HonourControl(saved,
        IF result.retryable /\ r.attempt_count < r.max_attempts
        THEN Requeued(saved, RetryDelay)
        ELSE Finished(saved, "FAILED"))

(***************************************************************************)
(* recover_expired, for one of the rows it locks.                          *)
(***************************************************************************)
\* Faulty variant: only jobs that may be recovered are looked for.
ExpiredWhileRecoverable(r) ==
  r.status = "RUNNING" /\ r.lease = 0 /\ r.recovery_count < r.max_recoveries

Expired(r) == r.status = "RUNNING" /\ r.lease = 0

\* Faulty variant: waiting requests are not looked at.
RecoveredUnasked(r) ==
  IF r.recovery_count < r.max_recoveries
  THEN Requeued([r EXCEPT !.recovery_count = @ + 1,
                          !.max_attempts = AtLeast(@, r.attempt_count + 1)], 0)
  ELSE Finished(r, "FAILED")

Recovered(r) ==
  HonourControl(r,
    IF r.recovery_count < r.max_recoveries
    THEN Requeued([r EXCEPT !.recovery_count = @ + 1,
                            !.max_attempts = AtLeast(@, r.attempt_count + 1)], 0)
    ELSE Finished(r, "FAILED"))

(***************************************************************************)
(* command: the administrator's actions, and when they are allowed.        *)
(***************************************************************************)
HasFailedItems(r) == RetryCheckpoint[r.summary] # NoCheckpoint

Allowed(r, action) ==
  \/ action = "pause"  /\ r.status \in {"PENDING", "RUNNING"}
  \/ action = "resume" /\ r.status = "PAUSED"
  \/ action = "cancel" /\ r.status \in {"PENDING", "PAUSED", "RUNNING"}
  \/ action = "retry"  /\ \/ r.status = "FAILED"
                          \/ r.status = "PARTIAL" /\ HasFailedItems(r)

PauseCommand(r) ==
  IF r.status = "PENDING" THEN [r EXCEPT !.status = "PAUSED"]
                          ELSE [r EXCEPT !.pause_requested = TRUE]

ResumeCommand(r) ==
  [r EXCEPT !.status = "PENDING", !.due = 0, !.pause_requested = FALSE,
            !.max_attempts = AtLeast(@, r.attempt_count + 1)]

CancelCommand(r) ==
  IF r.status = "RUNNING" THEN [r EXCEPT !.cancel_requested = TRUE]
                          ELSE Finished(r, "CANCELED")

RetryCommand(r) ==
  [r EXCEPT !.status = "PENDING", !.due = 0, !.terminal = FALSE,
            !.max_attempts = AtLeast(@, r.attempt_count + 1),
            !.checkpoint = IF HasFailedItems(r) THEN RetryCheckpoint[r.summary]
                                                ELSE @]

Commanded(r, action) ==
  LET changed == CASE action = "pause"  -> PauseCommand(r)
                   [] action = "resume" -> ResumeCommand(r)
                   [] action = "cancel" -> CancelCommand(r)
                   [] action = "retry"  -> RetryCommand(r)
  IN  [changed EXCEPT !.version = @ + 1]

(***************************************************************************)
(* Time passes.                                                            *)
(***************************************************************************)
CountDown(n) == IF n = 0 THEN 0 ELSE n - 1

Ticked(r) == [r EXCEPT !.lease = CountDown(@), !.due = CountDown(@)]
=============================================================================
