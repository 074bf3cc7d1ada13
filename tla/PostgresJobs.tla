---------------------------- MODULE PostgresJobs ----------------------------
(***************************************************************************)
(* The job table and everything PostgresJobService may do to it, called by *)
(* any number of workers and administrators in any order.  A worker is     *)
(* only the lease token it was given: whoever was ever granted a token may *)
(* still call with it, at any later time, however long ago its lease       *)
(* expired.  That is every slow, stalled or forgotten worker there can be. *)
(*                                                                         *)
(* Each action is one committed transaction.  A call the service refuses   *)
(* (a stale token, an action the status does not allow) changes no row and *)
(* is no step here.                                                        *)
(***************************************************************************)
EXTENDS JobRow, FiniteSets

CONSTANTS
  Job,                \* one job for each (idempotency_scope, idempotency_key)
  Priority,           \* Job -> Nat, the smallest runs first
  MaxAttempts,        \* Job -> Nat, max_attempts as submitted
  MaxRecoveries,      \* Job -> Nat, 0 when the job is not recoverable
  RecoveryBatch,      \* rows one recover_expired locks at most
  MaxVersion          \* bound on commands and reports: neither is called on
                      \* a row whose version has reached it (in Next)

ASSUME PostgresJobsAssumption ==
  /\ Priority \in [Job -> Nat]
  /\ MaxAttempts \in [Job -> Nat \ {0}]
  /\ MaxRecoveries \in [Job -> Nat]
  /\ RecoveryBatch \in Nat \ {0}
  /\ MaxVersion \in Nat

VARIABLES
  job,          \* the rows of table `job`
  issued,       \* how many lease tokens have been drawn; they are 1..issued
  writer        \* history: the token under which a job's checkpoint or
                \* result was last written

vars == <<job, issued, writer>>

Init ==
  /\ job = [j \in Job |-> Absent(MaxAttempts[j], MaxRecoveries[j])]
  /\ issued = 0
  /\ writer = [j \in Job |-> NoToken]

(***************************************************************************)
(* Submission.  A second submission under the same key finds the first row *)
(* (or loses the race on the unique constraint and then finds it) and      *)
(* returns it unchanged, so it is no step.                                 *)
(***************************************************************************)
Submit(j) ==
  /\ job[j].status = "ABSENT"
  /\ job' = [job EXCEPT ![j] = Submitted(@)]
  /\ UNCHANGED <<issued, writer>>

(***************************************************************************)
(* Claiming.  `visible` are the rows of the caller's job types that no     *)
(* other transaction has locked: SKIP LOCKED passes over the rest.         *)
(***************************************************************************)
Due(visible) == {j \in visible : Claimable(job[j])}

First(visible) ==
  {j \in Due(visible) : \A k \in Due(visible) : Priority[j] <= Priority[k]}

\* Faulty variant: a token may be drawn again.
ClaimNextSameToken(j, visible) ==
  /\ j \in First(visible)
  /\ job' = [job EXCEPT ![j] = Claimed(@, 1)]
  /\ issued' = 1
  /\ UNCHANGED writer

ClaimNext(j, visible) ==
  /\ j \in First(visible)
  /\ job' = [job EXCEPT ![j] = Claimed(@, issued + 1)]
  /\ issued' = issued + 1
  /\ UNCHANGED writer

(***************************************************************************)
(* Calls under a token.                                                    *)
(***************************************************************************)
RenewLease(j, token) ==
  /\ Active(job[j], token)
  /\ job' = [job EXCEPT ![j] = Renewed(@)]
  /\ UNCHANGED <<issued, writer>>

ReportProgress(j, token, checkpoint, pause) ==
  /\ Active(job[j], token)
  /\ job' = [job EXCEPT ![j] = Reported(@, checkpoint, pause)]
  /\ writer' = [writer EXCEPT ![j] = token]
  /\ UNCHANGED issued

Complete(j, token, result) ==
  /\ result.success
  /\ Active(job[j], token)
  /\ job' = [job EXCEPT ![j] = Completed(@, result)]
  /\ writer' = [writer EXCEPT ![j] = token]
  /\ UNCHANGED issued

Fail(j, token, result) ==
  /\ ~result.success
  /\ Active(job[j], token)
  /\ job' = [job EXCEPT ![j] = Failed(@, result)]
  /\ writer' = [writer EXCEPT ![j] = token]
  /\ UNCHANGED issued

(***************************************************************************)
(* Administration and recovery.                                            *)
(***************************************************************************)
Command(j, action) ==
  /\ Allowed(job[j], action)
  /\ job' = [job EXCEPT ![j] = Commanded(@, action)]
  /\ UNCHANGED <<issued, writer>>

\* lock_expired takes the expired rows it can see, RecoveryBatch at most.
Batches(expired) ==
  {S \in SUBSET expired :
     /\ Cardinality(S) <= RecoveryBatch
     /\ S = expired \/ Cardinality(S) = RecoveryBatch}

RecoverExpired(visible) ==
  \E S \in Batches({j \in visible : Expired(job[j])}) :
    /\ S # {}
    /\ job' = [j \in Job |-> IF j \in S THEN Recovered(job[j]) ELSE job[j]]
    /\ UNCHANGED <<issued, writer>>

Tick ==
  /\ \E j \in Job : job[j].lease > 0 \/ job[j].due > 0
  /\ job' = [j \in Job |-> Ticked(job[j])]
  /\ UNCHANGED <<issued, writer>>

Next ==
  \/ \E j \in Job : Submit(j)
  \/ \E visible \in SUBSET Job : \E j \in visible : ClaimNext(j, visible)
  \/ \E j \in Job, token \in 1 .. issued :
       \/ RenewLease(j, token)
       \/ /\ job[j].version < MaxVersion
          /\ \E checkpoint \in Checkpoint, pause \in BOOLEAN :
               ReportProgress(j, token, checkpoint, pause)
       \/ \E result \in Result : Complete(j, token, result)
       \/ \E result \in Result : Fail(j, token, result)
  \/ \E j \in Job, action \in Action :
       job[j].version < MaxVersion /\ Command(j, action)
  \/ \E visible \in (SUBSET Job) \ {{}} : RecoverExpired(visible)
  \/ Tick

Spec == Init /\ [][Next]_vars

-----------------------------------------------------------------------------
(* Properties. *)

\* The columns keep their types: lease and delay never exceed what a claim,
\* renewal or failure sets.
TypeOK ==
  /\ job \in [Job -> Row]
  /\ issued \in Nat
  /\ writer \in [Job -> Nat]

(***************************************************************************)
(* Claiming increments attempt_count without looking at max_attempts, and  *)
(* the table's CHECK (max_attempts >= attempt_count) would then abort the  *)
(* claim of the same row for ever.  It never can: whatever failures,       *)
(* recoveries, resumes and retries came before, a PENDING row has an       *)
(* attempt left, and no row exceeds its limits.                            *)
(***************************************************************************)
AttemptLimitValid ==
  \A j \in Job :
    /\ job[j].attempt_count <= job[j].max_attempts
    /\ job[j].recovery_count <= job[j].max_recoveries
    /\ job[j].status = "PENDING" => job[j].attempt_count < job[j].max_attempts

(***************************************************************************)
(* A row carries a lease, and requests for the attempt that holds it, only *)
(* while it is RUNNING; no two rows share a token; terminal_at is set      *)
(* exactly in the final statuses.  A row that broke this would be claimed  *)
(* with a request of an earlier attempt, recovered twice, or never.        *)
(***************************************************************************)
LeaseWhileRunning ==
  \A j \in Job :
    /\ (job[j].status = "RUNNING") <=> (job[j].lease_token # NoToken)
    /\ job[j].pause_requested \/ job[j].cancel_requested
         => job[j].status = "RUNNING"
    /\ job[j].terminal <=> job[j].status \in Terminal

\* Each token was drawn, and identifies one row: a worker that lost its lease
\* cannot write to another job with it (claim draws a new token each time).
TokensUnique ==
  /\ \A j \in Job : job[j].lease_token \in 0 .. issued
  /\ \A j, k \in Job :
       j # k /\ job[j].lease_token = job[k].lease_token
         => job[j].lease_token = NoToken

(***************************************************************************)
(* A late worker never overwrites a newer one: the token under which a     *)
(* job's checkpoint and result are written never goes back.                *)
(***************************************************************************)
LateWriterRefused == [][\A j \in Job : writer[j] <= writer'[j]]_vars

(***************************************************************************)
(* Administrators act on a version they have read.  Every change of a row  *)
(* that they could have based their decision on raises it; only heartbeats *)
(* and the passing of time do not.                                         *)
(***************************************************************************)
Visible(r) == [r EXCEPT !.lease = 0, !.due = 0]

EveryChangeVersioned ==
  [][\A j \in Job :
       \/ Visible(job'[j]) = Visible(job[j])
       \/ job'[j].version > job[j].version
       \/ job[j].status = "ABSENT"]_vars

(***************************************************************************)
(* The queue implements the life of a job that JobLifecycle promises.      *)
(***************************************************************************)
WantedOf(r) == CASE r.cancel_requested -> "cancel"
                 [] ~r.cancel_requested /\ r.pause_requested -> "pause"
                 [] ~r.cancel_requested /\ ~r.pause_requested -> "nothing"

LC == INSTANCE JobLifecycle
        WITH phase <- [j \in Job |-> job[j].status],
             wanted <- [j \in Job |-> WantedOf(job[j])]

ImplementsLifecycle == LC!Lifecycle

\* No writer that came too late changes a job, and every change of one raises
\* its version.
WritesSound == LateWriterRefused /\ EveryChangeVersioned
=============================================================================
