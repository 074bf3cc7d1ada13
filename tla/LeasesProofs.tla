-------------------------------- MODULE LeasesProofs --------------------------------
(***************************************************************************)
(* Proofs about what is done under a lease: the jobs' table (PostgresJobs),*)
(* the requests to a data source (ProviderBudget), and the runners and     *)
(* administrators that work on the table (JobRunner).  They hold for any   *)
(* number of jobs, callers, tokens, runners, administrators and crashes,   *)
(* and any limits the settings may have.                                   *)
(*                                                                         *)
(* The assumption that a checkpoint is a number of safe points             *)
(* (JobRunnerAssumption) is cited in the part about the runners alone.     *)
(***************************************************************************)
EXTENDS JobRunner, MCLeases, FiniteSetTheorems, TLAPS

-----------------------------------------------------------------------------
(***************************************************************************)
(* The table of jobs.  A method of the service is an operator on one row,  *)
(* so the work is done by lemmas about rows: each operator keeps RowInv,   *)
(* and what it does to the token and the version.  The steps of the table  *)
(* then follow.                                                            *)
(***************************************************************************)

(***************************************************************************)
(* What one row always satisfies.  Beyond the invariants of PostgresJobs   *)
(* it says that a row not yet inserted has an attempt left, which is what  *)
(* makes it inductive under Submit.                                        *)
(***************************************************************************)
RowInv(r) ==
  /\ r \in Row
  /\ r.attempt_count <= r.max_attempts
  /\ r.recovery_count <= r.max_recoveries
  /\ r.status \in {"ABSENT", "PENDING"} => r.attempt_count < r.max_attempts
  /\ (r.status = "RUNNING") <=> (r.lease_token # NoToken)
  /\ r.pause_requested \/ r.cancel_requested => r.status = "RUNNING"
  /\ r.terminal <=> r.status \in Terminal

\* What the row operators need of the constants.
LEMMA Timers ==
  /\ LeaseDuration \in Nat \ {0} /\ RetryDelay \in Nat
  /\ {0, LeaseDuration} \subseteq 0 .. LeaseDuration
  /\ {0, RetryDelay} \subseteq 0 .. RetryDelay
BY JobRowAssumption

(***************************************************************************)
(* The operators on rows.                                                  *)
(***************************************************************************)
\* A row that has not been inserted satisfies the invariant.
LEMMA AbsentInv ==
  ASSUME NEW a \in Nat \ {0}, NEW m \in Nat
  PROVE  RowInv(Absent(a, m))
BY JobRowAssumption DEF RowInv, Row, Absent, Status, Terminal, NoToken

\* submit keeps the invariant.
LEMMA SubmittedInv ==
  ASSUME NEW r, RowInv(r), r.status = "ABSENT"
  PROVE  RowInv(Submitted(r))
BY DEF RowInv, Row, Submitted, Status, Terminal, NoToken

\* _finish keeps the invariant, drops the token and raises the version.
LEMMA FinishedInv ==
  ASSUME NEW r, RowInv(r), NEW s \in Terminal \cup {"PAUSED"}
  PROVE  /\ RowInv(Finished(r, s))
         /\ Finished(r, s).lease_token = NoToken
         /\ Finished(r, s).version = r.version + 1
<1> DEFINE f == Finished(r, s)
<1>1. f \in Row
  <2>1. r.version + 1 \in Nat
    BY DEF RowInv, Row
  <2> QED BY <2>1, Timers DEF RowInv, Row, Finished, Status, NoToken
<1>2. /\ f.status = s /\ f.terminal = (s # "PAUSED")
      /\ f.pause_requested = FALSE /\ f.cancel_requested = FALSE
      /\ f.lease_token = NoToken /\ f.version = r.version + 1
      /\ f.attempt_count = r.attempt_count /\ f.max_attempts = r.max_attempts
      /\ f.recovery_count = r.recovery_count
      /\ f.max_recoveries = r.max_recoveries
  BY DEF RowInv, Row, Finished
<1>3. s # "RUNNING" /\ s \notin {"ABSENT", "PENDING"}
  BY DEF Terminal
<1>4. (s # "PAUSED") <=> s \in Terminal
  BY DEF Terminal
<1> QED BY <1>1, <1>2, <1>3, <1>4 DEF RowInv

\* Requeueing for a retry or after a lost lease keeps the invariant, provided an
\* attempt is left.
LEMMA RequeuedInv ==
  ASSUME NEW r, RowInv(r), NEW d \in 0 .. RetryDelay,
         ~r.pause_requested, ~r.cancel_requested, ~r.terminal,
         r.attempt_count < r.max_attempts
  PROVE  /\ RowInv(Requeued(r, d))
         /\ Requeued(r, d).lease_token = NoToken
         /\ Requeued(r, d).version = r.version + 1
<1> DEFINE q == Requeued(r, d)
<1>1. q \in Row
  <2>1. r.version + 1 \in Nat
    BY DEF RowInv, Row
  <2> QED BY <2>1, Timers DEF RowInv, Row, Requeued, Status, NoToken
<1>2. /\ q.status = "PENDING" /\ q.terminal = r.terminal
      /\ q.pause_requested = r.pause_requested
      /\ q.cancel_requested = r.cancel_requested
      /\ q.lease_token = NoToken /\ q.version = r.version + 1
      /\ q.attempt_count = r.attempt_count /\ q.max_attempts = r.max_attempts
      /\ q.recovery_count = r.recovery_count
      /\ q.max_recoveries = r.max_recoveries
  BY DEF RowInv, Row, Requeued
<1> QED BY <1>1, <1>2 DEF RowInv, Terminal

\* A claim keeps the invariant: a claimable row has an attempt left.
LEMMA ClaimedInv ==
  ASSUME NEW r, RowInv(r), Claimable(r), NEW t \in Nat \ {0}
  PROVE  /\ RowInv(Claimed(r, t))
         /\ Claimed(r, t).lease_token = t
         /\ Claimed(r, t).version = r.version + 1
<1> DEFINE c == Claimed(r, t)
<1>1. c \in Row
  <2>1. r.version + 1 \in Nat /\ r.attempt_count + 1 \in Nat
    BY DEF RowInv, Row
  <2> QED BY <2>1, Timers DEF RowInv, Row, Claimed, Status
<1>2. /\ c.status = "RUNNING" /\ c.terminal = r.terminal
      /\ c.lease_token = t /\ c.version = r.version + 1
      /\ c.attempt_count = r.attempt_count + 1 
      /\ c.max_attempts = r.max_attempts
      /\ c.recovery_count = r.recovery_count
      /\ c.max_recoveries = r.max_recoveries
  BY DEF RowInv, Row, Claimed
<1>3. r.attempt_count + 1 <= r.max_attempts /\ ~r.terminal
  BY DEF RowInv, Row, Claimable, Terminal
<1> QED BY <1>1, <1>2, <1>3 DEF RowInv, Terminal, NoToken

\* A heartbeat keeps the invariant and the token.
LEMMA RenewedInv ==
  ASSUME NEW r, RowInv(r)
  PROVE  RowInv(Renewed(r)) /\ Renewed(r).lease_token = r.lease_token
BY Timers DEF RowInv, Row, Renewed

\* The passing of time keeps the invariant and the token.
LEMMA TickedInv ==
  ASSUME NEW r, RowInv(r)
  PROVE  RowInv(Ticked(r)) /\ Ticked(r).lease_token = r.lease_token
<1>1. /\ CountDown(r.lease) \in 0 .. LeaseDuration
      /\ CountDown(r.due) \in 0 .. RetryDelay
  BY Timers DEF RowInv, Row, CountDown
<1> QED BY <1>1 DEF RowInv, Row, Ticked

(***************************************************************************)
(* The methods of the service.  Each keeps RowInv, keeps or drops the      *)
(* token, and raises the version.                                          *)
(***************************************************************************)
Follows(r, s) ==
  /\ RowInv(s)
  /\ s.lease_token \in {r.lease_token, NoToken}
  /\ s.version > r.version

\* A request that is waiting finishes the row; else it is `otherwise`.
LEMMA HonourControlInv ==
  ASSUME NEW r, RowInv(r), NEW o, NEW n \in Nat, n <= r.version,
         ~r.cancel_requested /\ ~r.pause_requested
           => RowInv(o) /\ o.lease_token \in {r.lease_token, NoToken}
              /\ o.version > n
  PROVE  LET h == HonourControl(r, o)
         IN  RowInv(h) /\ h.lease_token \in {r.lease_token, NoToken}
             /\ h.version > n
<1>1. r.version \in Nat /\ r.cancel_requested \in BOOLEAN
      /\ r.pause_requested \in BOOLEAN
  BY DEF RowInv, Row
<1>2. CASE r.cancel_requested
  <2>1. HonourControl(r, o) = Finished(r, "CANCELED")
    BY <1>2 DEF HonourControl
  <2> QED BY <1>1, <2>1, FinishedInv DEF Terminal
<1>3. CASE ~r.cancel_requested /\ r.pause_requested
  <2>1. HonourControl(r, o) = Finished(r, "PAUSED")
    BY <1>3 DEF HonourControl
  <2> QED BY <1>1, <2>1, FinishedInv
<1>4. CASE ~r.cancel_requested /\ ~r.pause_requested
  <2>1. HonourControl(r, o) = o
    BY <1>4 DEF HonourControl
  <2> QED BY <1>4, <2>1
<1> QED BY <1>2, <1>3, <1>4

\* A progress report leads to a row that follows the old one.
LEMMA ReportedInv ==
  ASSUME NEW r, RowInv(r), r.status = "RUNNING",
         NEW c \in Checkpoint, NEW p \in BOOLEAN
  PROVE  Follows(r, Reported(r, c, p))
<1> DEFINE saved == [r EXCEPT !.checkpoint = c, !.lease = LeaseDuration,
                              !.pause_requested = @ \/ p, !.version = @ + 1]
<1>1. /\ saved.status = "RUNNING" /\ saved.lease_token = r.lease_token
      /\ saved.version = r.version + 1 /\ r.version \in Nat
      /\ saved.terminal = r.terminal
      /\ saved.attempt_count = r.attempt_count
      /\ saved.max_attempts = r.max_attempts
      /\ saved.recovery_count = r.recovery_count
      /\ saved.max_recoveries = r.max_recoveries
  BY DEF RowInv, Row
<1>2. saved \in Row
  <2>1. r.version + 1 \in Nat /\ (r.pause_requested \/ p) \in BOOLEAN
    BY DEF RowInv, Row
  <2> QED BY <2>1, Timers DEF RowInv, Row
<1>3. RowInv(saved)
  BY <1>1, <1>2 DEF RowInv
<1>4. Reported(r, c, p) = HonourControl(saved, saved)
  BY DEF Reported
<1> HIDE DEF saved
<1> QED BY <1>1, <1>3, <1>4, HonourControlInv DEF Follows

\* Storing a result keeps the invariant and nothing else of the row changes.
LEMMA SummaryInv ==
  ASSUME NEW r, RowInv(r), NEW d \in Data
  PROVE  LET s == [r EXCEPT !.summary = d]
         IN  /\ RowInv(s)
             /\ s.lease_token = r.lease_token /\ s.version = r.version
             /\ s.status = r.status /\ s.terminal = r.terminal
             /\ s.pause_requested = r.pause_requested
             /\ s.cancel_requested = r.cancel_requested
             /\ s.attempt_count = r.attempt_count
             /\ s.max_attempts = r.max_attempts
BY DEF RowInv, Row

\* complete leads to a row that follows the old one.
LEMMA CompletedInv ==
  ASSUME NEW r, RowInv(r), NEW result \in Result
  PROVE  Follows(r, Completed(r, result))
<1> DEFINE saved == [r EXCEPT !.summary = result.data]
           status == IF result.partial THEN "PARTIAL" ELSE "SUCCEEDED"
<1>1. /\ RowInv(saved) /\ saved.lease_token = r.lease_token
      /\ saved.version = r.version /\ r.version \in Nat
  BY SummaryInv DEF Result, RowInv, Row
<1>2. Completed(r, result) = HonourControl(saved, Finished(saved, status))
  BY DEF Completed
<1>3. status \in Terminal
  BY DEF Terminal
<1> HIDE DEF saved, status
<1>4. /\ RowInv(Finished(saved, status))
      /\ Finished(saved, status).lease_token = NoToken
      /\ Finished(saved, status).version > r.version
  BY <1>1, <1>3, FinishedInv
<1> QED BY <1>1, <1>2, <1>4, HonourControlInv DEF Follows

\* fail leads to a row that follows the old one, retried or not.
LEMMA FailedInv ==
  ASSUME NEW r, RowInv(r), r.status = "RUNNING", NEW result \in Result
  PROVE  Follows(r, Failed(r, result))
<1> DEFINE saved == [r EXCEPT !.summary = result.data]
           other == IF result.retryable /\ r.attempt_count < r.max_attempts
                    THEN Requeued(saved, RetryDelay)
                    ELSE Finished(saved, "FAILED")
<1>1. /\ RowInv(saved) /\ saved.lease_token = r.lease_token
      /\ saved.version = r.version /\ r.version \in Nat
      /\ saved.pause_requested = r.pause_requested
      /\ saved.cancel_requested = r.cancel_requested
      /\ saved.attempt_count = r.attempt_count
      /\ saved.max_attempts = r.max_attempts
      /\ ~saved.terminal
  BY SummaryInv DEF Result, RowInv, Row, Terminal
<1>2. Failed(r, result) = HonourControl(saved, other)
  BY DEF Failed
<1>3. ASSUME ~saved.cancel_requested, ~saved.pause_requested
      PROVE  /\ RowInv(other) /\ other.lease_token = NoToken
             /\ other.version > r.version
  <2>1. CASE result.retryable /\ r.attempt_count < r.max_attempts
    <3> HIDE DEF saved
    <3>1. RowInv(Requeued(saved, RetryDelay))
          /\ Requeued(saved, RetryDelay).lease_token = NoToken
          /\ Requeued(saved, RetryDelay).version = saved.version + 1
      BY <1>1, <1>3, <2>1, Timers, RequeuedInv
    <3> QED BY <1>1, <2>1, <3>1
  <2>2. CASE ~(result.retryable /\ r.attempt_count < r.max_attempts)
    <3> HIDE DEF saved
    <3>1. RowInv(Finished(saved, "FAILED"))
          /\ Finished(saved, "FAILED").lease_token = NoToken
          /\ Finished(saved, "FAILED").version = saved.version + 1
      BY <1>1, FinishedInv DEF Terminal
    <3> QED BY <1>1, <2>2, <3>1
  <2> QED BY <2>1, <2>2
<1> HIDE DEF saved, other
<1> QED BY <1>1, <1>2, <1>3, HonourControlInv DEF Follows

\* The recovery of an expired lease leads to a row that follows the old one:
\* it may raise max_attempts, never lower it.
LEMMA RecoveredInv ==
  ASSUME NEW r, RowInv(r), r.status = "RUNNING"
  PROVE  Follows(r, Recovered(r))
<1> DEFINE more == [r EXCEPT !.recovery_count = @ + 1,
                     !.max_attempts = AtLeast(@, r.attempt_count + 1)]
           other == IF r.recovery_count < r.max_recoveries
                    THEN Requeued(more, 0) ELSE Finished(r, "FAILED")
<1>1. /\ r.version \in Nat /\ r.attempt_count \in Nat
      /\ r.max_attempts \in Nat /\ r.recovery_count \in Nat
      /\ r.max_recoveries \in Nat /\ ~r.terminal
  BY DEF RowInv, Row, Terminal
<1>2. Recovered(r) = HonourControl(r, other)
  BY DEF Recovered
<1>3. ASSUME ~r.cancel_requested, ~r.pause_requested
      PROVE  /\ RowInv(other) /\ other.lease_token = NoToken
             /\ other.version > r.version
  <2>1. CASE r.recovery_count < r.max_recoveries
    <3> DEFINE m == AtLeast(r.max_attempts, r.attempt_count + 1)
    <3>1. m \in Nat /\ r.attempt_count < m /\ r.recovery_count + 1 \in Nat
      BY <1>1 DEF AtLeast
    <3>2. /\ more.status = "RUNNING" /\ more.lease_token = r.lease_token
          /\ more.version = r.version /\ more.terminal = r.terminal
          /\ more.attempt_count = r.attempt_count /\ more.max_attempts = m
          /\ more.recovery_count = r.recovery_count + 1
          /\ more.max_recoveries = r.max_recoveries
          /\ more.pause_requested = r.pause_requested
          /\ more.cancel_requested = r.cancel_requested
      BY DEF RowInv, Row
    <3>3. more \in Row
      BY <3>1 DEF RowInv, Row
    <3>4. RowInv(more)
      BY <1>1, <2>1, <3>1, <3>2, <3>3 DEF RowInv
    <3> HIDE DEF more, m
    <3>5. /\ RowInv(Requeued(more, 0))
          /\ Requeued(more, 0).lease_token = NoToken
          /\ Requeued(more, 0).version = more.version + 1
      BY <1>1, <1>3, <3>1, <3>2, <3>4, Timers, RequeuedInv
    <3> QED BY <1>1, <2>1, <3>2, <3>5
  <2>2. CASE ~(r.recovery_count < r.max_recoveries)
    BY <1>1, <2>2, FinishedInv DEF Terminal
  <2> QED BY <2>1, <2>2
<1> HIDE DEF other
<1> QED BY <1>1, <1>2, <1>3, HonourControlInv DEF Follows

\* Raising the version alone keeps the invariant.
LEMMA BumpedInv ==
  ASSUME NEW r, RowInv(r)
  PROVE  LET b == [r EXCEPT !.version = @ + 1]
         IN  RowInv(b) /\ b.lease_token = r.lease_token
             /\ b.version = r.version + 1
<1>1. r.version + 1 \in Nat
  BY DEF RowInv, Row
<1> QED BY <1>1 DEF RowInv, Row

\* The command to pause keeps the invariant and the token.
LEMMA PauseCommandInv ==
  ASSUME NEW r, RowInv(r), r.status \in {"PENDING", "RUNNING"}
  PROVE  /\ RowInv(PauseCommand(r))
         /\ PauseCommand(r).lease_token = r.lease_token
         /\ PauseCommand(r).version = r.version
<1>1. CASE r.status = "PENDING"
  BY <1>1 DEF PauseCommand, RowInv, Row, Status, Terminal
<1>2. CASE r.status = "RUNNING"
  BY <1>2 DEF PauseCommand, RowInv, Row
<1> QED BY <1>1, <1>2

\* The command to resume keeps the invariant: it grants an attempt if none is
\* left.
LEMMA ResumeCommandInv ==
  ASSUME NEW r, RowInv(r), r.status = "PAUSED"
  PROVE  /\ RowInv(ResumeCommand(r))
         /\ ResumeCommand(r).lease_token = r.lease_token
         /\ ResumeCommand(r).version = r.version
<1> DEFINE m == AtLeast(r.max_attempts, r.attempt_count + 1)
<1>1. m \in Nat /\ r.attempt_count \in Nat /\ r.attempt_count < m
  BY DEF AtLeast, RowInv, Row
<1> DEFINE c == ResumeCommand(r)
<1>2. c = [r EXCEPT !.status = "PENDING", !.due = 0,
                    !.pause_requested = FALSE, !.max_attempts = m]
  BY DEF ResumeCommand
<1> HIDE DEF m, c
<1>3. c \in Row
  BY <1>1, <1>2, Timers DEF RowInv, Row, Status
<1>4. /\ c.status = "PENDING" /\ c.max_attempts = m
      /\ c.pause_requested = FALSE
      /\ c.cancel_requested = r.cancel_requested
      /\ c.attempt_count = r.attempt_count /\ c.terminal = r.terminal
      /\ c.recovery_count = r.recovery_count
      /\ c.max_recoveries = r.max_recoveries
      /\ c.lease_token = r.lease_token /\ c.version = r.version
  BY <1>2 DEF RowInv, Row
<1>5. ~r.cancel_requested /\ ~r.terminal /\ r.lease_token = NoToken
  BY DEF RowInv, Terminal
<1> QED BY <1>1, <1>3, <1>4, <1>5 DEF RowInv, Terminal, c

\* The command to cancel keeps the invariant and keeps or drops the token.
LEMMA CancelCommandInv ==
  ASSUME NEW r, RowInv(r)
  PROVE  /\ RowInv(CancelCommand(r))
         /\ CancelCommand(r).lease_token \in {r.lease_token, NoToken}
         /\ CancelCommand(r).version >= r.version
<1>1. r.version \in Nat
  BY DEF RowInv, Row
<1>2. CASE r.status = "RUNNING"
  <2> DEFINE c == CancelCommand(r)
  <2>1. c = [r EXCEPT !.cancel_requested = TRUE]
    BY <1>2 DEF CancelCommand
  <2> HIDE DEF c
  <2>2. c \in Row
    BY <2>1 DEF RowInv, Row
  <2>3. /\ c.status = r.status /\ c.max_attempts = r.max_attempts
        /\ c.attempt_count = r.attempt_count /\ c.terminal = r.terminal
        /\ c.recovery_count = r.recovery_count
        /\ c.max_recoveries = r.max_recoveries
        /\ c.lease_token = r.lease_token /\ c.version = r.version
    BY <2>1 DEF RowInv, Row
  <2>4. RowInv(c)
    BY <1>2, <2>2, <2>3 DEF RowInv
  <2> QED BY <1>1, <2>3, <2>4 DEF c
<1>3. CASE r.status # "RUNNING"
  BY <1>1, <1>3, FinishedInv DEF CancelCommand, Terminal
<1> QED BY <1>2, <1>3

\* The command to retry keeps the invariant: it grants an attempt if none is
\* left.
LEMMA RetryCommandInv ==
  ASSUME NEW r, RowInv(r), r.status \in {"FAILED", "PARTIAL"}
  PROVE  /\ RowInv(RetryCommand(r))
         /\ RetryCommand(r).lease_token = r.lease_token
         /\ RetryCommand(r).version = r.version
<1> DEFINE m == AtLeast(r.max_attempts, r.attempt_count + 1)
           c == IF HasFailedItems(r) THEN RetryCheckpoint[r.summary]
                                     ELSE r.checkpoint
<1>1. m \in Nat /\ r.attempt_count \in Nat /\ r.attempt_count < m
  BY DEF AtLeast, RowInv, Row
<1>2. c \in Checkpoint
  BY JobRowAssumption DEF RowInv, Row
<1> DEFINE q == RetryCommand(r)
<1>3. q = [r EXCEPT !.status = "PENDING", !.due = 0, !.terminal = FALSE,
                    !.max_attempts = m, !.checkpoint = c]
  BY DEF RetryCommand
<1> HIDE DEF m, c, q
<1>4. q \in Row
  BY <1>1, <1>2, <1>3, Timers DEF RowInv, Row, Status
<1>5. /\ q.status = "PENDING" /\ q.max_attempts = m /\ q.terminal = FALSE
      /\ q.pause_requested = r.pause_requested
      /\ q.cancel_requested = r.cancel_requested
      /\ q.attempt_count = r.attempt_count
      /\ q.recovery_count = r.recovery_count
      /\ q.max_recoveries = r.max_recoveries
      /\ q.lease_token = r.lease_token /\ q.version = r.version
  BY <1>3 DEF RowInv, Row
<1>6. ~r.cancel_requested /\ ~r.pause_requested /\ r.lease_token = NoToken
  BY DEF RowInv
<1> QED BY <1>1, <1>4, <1>5, <1>6 DEF RowInv, Terminal, q

\* Any allowed command leads to a row that follows the old one.
LEMMA CommandedInv ==
  ASSUME NEW r, RowInv(r), NEW action \in Action, Allowed(r, action)
  PROVE  Follows(r, Commanded(r, action))
<1>1. r.version \in Nat
  BY DEF RowInv, Row
<1>2. PICK c : /\ RowInv(c) /\ c.lease_token \in {r.lease_token, NoToken}
               /\ c.version >= r.version
               /\ Commanded(r, action) = [c EXCEPT !.version = @ + 1]
  <2>1. CASE action = "pause"
    <3>1. Commanded(r, action) = [PauseCommand(r) EXCEPT !.version = @ + 1]
      BY <2>1 DEF Commanded
    <3> QED BY <1>1, <2>1, <3>1, PauseCommandInv DEF Allowed
  <2>2. CASE action = "resume"
    <3>1. Commanded(r, action) = [ResumeCommand(r) EXCEPT !.version = @ + 1]
      BY <2>2 DEF Commanded
    <3> QED BY <1>1, <2>2, <3>1, ResumeCommandInv DEF Allowed
  <2>3. CASE action = "cancel"
    <3>1. Commanded(r, action) = [CancelCommand(r) EXCEPT !.version = @ + 1]
      BY <2>3 DEF Commanded
    <3> QED BY <3>1, CancelCommandInv
  <2>4. CASE action = "retry"
    <3>1. Commanded(r, action) = [RetryCommand(r) EXCEPT !.version = @ + 1]
      BY <2>4 DEF Commanded
    <3> QED BY <1>1, <2>4, <3>1, RetryCommandInv DEF Allowed
  <2> QED BY <2>1, <2>2, <2>3, <2>4 DEF Action
<1>3. c.version \in Nat
  BY <1>2 DEF RowInv, Row
<1> QED BY <1>1, <1>2, <1>3, BumpedInv DEF Follows

(***************************************************************************)
(* The table.  The invariant adds to RowInv what relates rows, tokens and  *)
(* writers: tokens are drawn from a growing counter, held by one row each, *)
(* and nothing was written under a token later than the one that is held.  *)
(***************************************************************************)
TableInv ==
  /\ job \in [Job -> Row]
  /\ \A j \in Job : RowInv(job[j])
  /\ issued \in Nat
  /\ writer \in [Job -> Nat]
  /\ \A j \in Job :
       /\ job[j].lease_token <= issued
       /\ writer[j] <= issued
       /\ job[j].lease_token # NoToken => writer[j] <= job[j].lease_token
  /\ TokensUnique

\* The types of a token and a version.
LEMMA RowToken ==
  ASSUME NEW r, RowInv(r)
  PROVE  r \in Row /\ r.lease_token \in Nat /\ r.version \in Nat
BY DEF RowInv, Row

\* The empty table satisfies the invariant.
THEOREM TableInit == Init => TableInv
<1> SUFFICES ASSUME Init PROVE TableInv
  OBVIOUS
<1>1. \A j \in Job : MaxAttempts[j] \in Nat \ {0} /\ MaxRecoveries[j] \in Nat
  BY PostgresJobsAssumption
<1>2. \A j \in Job : RowInv(job[j]) /\ job[j].lease_token = NoToken
  <2> TAKE j \in Job
  <2>1. job[j] = Absent(MaxAttempts[j], MaxRecoveries[j])
    BY DEF Init
  <2> QED BY <1>1, <2>1, AbsentInv DEF Absent
<1>3. job \in [Job -> Row]
  BY <1>2, RowToken DEF Init
<1> QED BY <1>2, <1>3 DEF Init, TableInv, TokensUnique, NoToken

(***************************************************************************)
(* A step that claims nothing: each row keeps RowInv and keeps or drops    *)
(* its token, and is written, if at all, under the token it holds.         *)
(***************************************************************************)
LEMMA NoClaimStep ==
  ASSUME TableInv, issued' = issued,
         job' \in [Job -> Row], writer' \in [Job -> Nat],
         \A j \in Job :
           /\ RowInv(job'[j])
           /\ job'[j].lease_token \in {job[j].lease_token, NoToken}
           /\ \/ writer'[j] = writer[j]
              \/ writer'[j] = job[j].lease_token /\ writer'[j] # NoToken
  PROVE  TableInv' /\ \A j \in Job : writer[j] <= writer'[j]
<1>1. \A j \in Job : /\ job[j].lease_token \in Nat
                     /\ job'[j].lease_token \in Nat
                     /\ writer[j] \in Nat /\ writer'[j] \in Nat
  BY RowToken DEF TableInv
<1>2. \A j \in Job : writer[j] <= writer'[j] /\ writer'[j] <= issued'
  BY <1>1 DEF TableInv
<1>3. \A j \in Job :
        /\ job'[j].lease_token <= issued'
        /\ job'[j].lease_token # NoToken => writer'[j] <= job'[j].lease_token
  BY <1>1 DEF TableInv, NoToken
<1>4. TokensUnique'
  BY <1>1, <1>3 DEF TableInv, TokensUnique, NoToken
<1> QED BY <1>2, <1>3, <1>4 DEF TableInv

\* The bodies of LateWriterRefused and EveryChangeVersioned.
WriterStep == \A j \in Job : writer[j] <= writer'[j]

VersionStep ==
  \A j \in Job : \/ Visible(job'[j]) = Visible(job[j])
                 \/ job'[j].version > job[j].version
                 \/ job[j].status = "ABSENT" /\ job'[j].version = job[j].version

\* The common case: one transaction on one row, under its token or under none.
LEMMA OneRowStep ==
  ASSUME TableInv, NEW j \in Job, NEW r, Follows(job[j], r),
         job' = [job EXCEPT ![j] = r], issued' = issued,
         \/ writer' = writer
         \/ /\ job[j].lease_token # NoToken
            /\ writer' = [writer EXCEPT ![j] = job[j].lease_token]
  PROVE  TableInv' /\ WriterStep /\ VersionStep
<1>1. RowInv(r) /\ r \in Row /\ job[j].lease_token \in Nat
  BY RowToken DEF TableInv, Follows
<1>2. job' \in [Job -> Row] /\ writer' \in [Job -> Nat]
  BY <1>1 DEF TableInv
<1>3. \A k \in Job :
        /\ RowInv(job'[k])
        /\ job'[k].lease_token \in {job[k].lease_token, NoToken}
        /\ \/ writer'[k] = writer[k]
           \/ writer'[k] = job[k].lease_token /\ writer'[k] # NoToken
  BY <1>1 DEF TableInv, Follows
<1>4. VersionStep
  BY DEF TableInv, Follows, VersionStep
<1> QED BY <1>2, <1>3, <1>4, NoClaimStep DEF WriterStep

\* Whoever holds the lease of a row holds a token.
LEMMA ActiveRow ==
  ASSUME NEW r, NEW lease \in Nat, Active(r, lease), RowInv(r)
  PROVE  r.status = "RUNNING" /\ r.lease_token = lease /\ lease # NoToken
BY DEF Active, RowInv

\* The transactions of the service, without the bounds that Next puts on them.
Transaction ==
  \/ \E j \in Job : Submit(j)
  \/ \E visible \in SUBSET Job : \E j \in visible : ClaimNext(j, visible)
  \/ \E j \in Job, lease \in 1 .. issued :
       \/ RenewLease(j, lease)
       \/ \E checkpoint \in Checkpoint, pause \in BOOLEAN :
            ReportProgress(j, lease, checkpoint, pause)
       \/ \E result \in Result : Complete(j, lease, result) \/ Fail(j, lease, result)
  \/ \E j \in Job, action \in Action : Command(j, action)
  \/ \E visible \in SUBSET Job : RecoverExpired(visible)
  \/ Tick

\* Every transaction keeps the invariant, writes under no older token and raises
\* the version of what it visibly changes.
THEOREM TableStep ==
  TableInv /\ (Transaction \/ UNCHANGED vars) => TableInv' /\ WriterStep /\ VersionStep
<1> SUFFICES ASSUME TableInv, Transaction \/ UNCHANGED vars
             PROVE  TableInv' /\ WriterStep /\ VersionStep
  OBVIOUS
<1> USE DEF vars
<1>t. \A j \in Job : /\ RowInv(job[j]) /\ job[j].version \in Nat
                     /\ job[j].lease_token \in Nat /\ writer[j] \in Nat
  BY RowToken DEF TableInv
<1>1. ASSUME NEW j \in Job, Submit(j)
      PROVE  TableInv' /\ WriterStep /\ VersionStep
  <2>1. RowInv(Submitted(job[j])) /\ Submitted(job[j]) \in Row
        /\ Submitted(job[j]).lease_token = job[j].lease_token
    BY <1>1, <1>t, SubmittedInv, RowToken DEF Submit, Submitted, RowInv, Row
  <2>2. \A k \in Job : RowInv(job'[k])
                       /\ job'[k].lease_token = job[k].lease_token
    BY <1>1, <1>t, <2>1 DEF Submit, TableInv
  <2>3. job' \in [Job -> Row] /\ issued' = issued /\ writer' = writer
    BY <1>1, <2>1 DEF Submit, TableInv
  <2>4. TableInv' /\ WriterStep
    BY <2>2, <2>3, NoClaimStep DEF TableInv, WriterStep
  <2>5. Submitted(job[j]).version = job[j].version
    BY <1>t DEF Submitted, RowInv, Row
  <2>6. VersionStep
    BY <1>1, <2>5 DEF Submit, VersionStep, TableInv
  <2> QED BY <2>4, <2>6
<1>2. ASSUME NEW visible \in SUBSET Job, NEW j \in visible, ClaimNext(j, visible)
      PROVE  TableInv' /\ WriterStep /\ VersionStep
  <2> DEFINE c == Claimed(job[j], issued + 1)
  <2>1. j \in Job /\ Claimable(job[j]) /\ issued + 1 \in Nat \ {0}
    BY <1>2 DEF ClaimNext, First, Due, TableInv
  <2>2. RowInv(c) /\ c.lease_token = issued + 1 /\ c \in Row
        /\ c.version > job[j].version
    BY <1>t, <2>1, ClaimedInv, RowToken
  <2>3. /\ job' = [job EXCEPT ![j] = c] /\ issued' = issued + 1
        /\ writer' = writer /\ job \in [Job -> Row]
    BY <1>2 DEF ClaimNext, TableInv
  <2> HIDE DEF c
  <2>4. job'[j] = c /\ \A k \in Job \ {j} : job'[k] = job[k]
    BY <2>1, <2>3
  <2>5. /\ job' \in [Job -> Row] /\ issued' \in Nat
        /\ writer' \in [Job -> Nat]
    BY <2>1, <2>2, <2>3 DEF TableInv
  <2>6. \A k \in Job : RowInv(job'[k])
    BY <1>t, <2>2, <2>4
  <2>7. \A k \in Job :
          /\ job'[k].lease_token <= issued' /\ writer'[k] <= issued'
          /\ job'[k].lease_token # NoToken => writer'[k] <= job'[k].lease_token
    BY <1>t, <2>2, <2>3, <2>4 DEF TableInv
  <2>8. TokensUnique'
    <3>1. \A k \in Job \ {j} : job'[k].lease_token <= issued
      BY <2>4 DEF TableInv
    <3> QED BY <1>t, <2>2, <2>3, <2>4, <2>7, <3>1
            DEF TokensUnique, TableInv, NoToken
  <2>9. WriterStep
    BY <1>t, <2>3 DEF WriterStep
  <2>10. VersionStep
    BY <2>2, <2>4 DEF VersionStep
  <2> QED BY <2>5, <2>6, <2>7, <2>8, <2>9, <2>10 DEF TableInv
<1>3. ASSUME NEW j \in Job, NEW lease \in 1 .. issued, RenewLease(j, lease)
      PROVE  TableInv' /\ WriterStep /\ VersionStep
  <2>1. /\ RowInv(Renewed(job[j])) /\ Renewed(job[j]) \in Row
        /\ Renewed(job[j]).lease_token = job[j].lease_token
    BY <1>t, RenewedInv, RowToken
  <2>2. \A k \in Job : RowInv(job'[k])
                       /\ job'[k].lease_token = job[k].lease_token
    BY <1>3, <1>t, <2>1 DEF RenewLease, TableInv
  <2>3. job' \in [Job -> Row] /\ issued' = issued /\ writer' = writer
    BY <1>3, <2>1 DEF RenewLease, TableInv
  <2>4. TableInv' /\ WriterStep
    BY <2>2, <2>3, NoClaimStep DEF TableInv, WriterStep
  <2>5. Visible(Renewed(job[j])) = Visible(job[j])
    BY <1>t DEF Visible, Renewed, RowInv, Row
  <2>6. VersionStep
    BY <1>3, <2>5 DEF RenewLease, VersionStep, TableInv
  <2> QED BY <2>4, <2>6
<1>4. ASSUME NEW j \in Job, NEW lease \in 1 .. issued,
             NEW checkpoint \in Checkpoint, NEW pause \in BOOLEAN,
             ReportProgress(j, lease, checkpoint, pause)
      PROVE  TableInv' /\ WriterStep /\ VersionStep
  <2>1. lease \in Nat
    BY DEF TableInv
  <2>2. job[j].status = "RUNNING" /\ job[j].lease_token = lease
        /\ lease # NoToken
    BY <1>4, <1>t, <2>1, ActiveRow DEF ReportProgress
  <2>3. Follows(job[j], Reported(job[j], checkpoint, pause))
    BY <1>t, <2>2, ReportedInv
  <2> QED BY <1>4, <2>2, <2>3, OneRowStep DEF ReportProgress
<1>5. ASSUME NEW j \in Job, NEW lease \in 1 .. issued, NEW result \in Result,
             Complete(j, lease, result)
      PROVE  TableInv' /\ WriterStep /\ VersionStep
  <2>1. lease \in Nat
    BY DEF TableInv
  <2>2. job[j].status = "RUNNING" /\ job[j].lease_token = lease
        /\ lease # NoToken
    BY <1>5, <1>t, <2>1, ActiveRow DEF Complete
  <2>3. Follows(job[j], Completed(job[j], result))
    BY <1>t, CompletedInv
  <2> QED BY <1>5, <2>2, <2>3, OneRowStep DEF Complete
<1>6. ASSUME NEW j \in Job, NEW lease \in 1 .. issued, NEW result \in Result,
             Fail(j, lease, result)
      PROVE  TableInv' /\ WriterStep /\ VersionStep
  <2>1. lease \in Nat
    BY DEF TableInv
  <2>2. job[j].status = "RUNNING" /\ job[j].lease_token = lease
        /\ lease # NoToken
    BY <1>6, <1>t, <2>1, ActiveRow DEF Fail
  <2>3. Follows(job[j], Failed(job[j], result))
    BY <1>t, <2>2, FailedInv
  <2> QED BY <1>6, <2>2, <2>3, OneRowStep DEF Fail
<1>7. ASSUME NEW j \in Job, NEW action \in Action, Command(j, action)
      PROVE  TableInv' /\ WriterStep /\ VersionStep
  <2>1. Follows(job[j], Commanded(job[j], action))
    BY <1>7, <1>t, CommandedInv DEF Command
  <2> QED BY <1>7, <2>1, OneRowStep DEF Command
<1>8. ASSUME NEW visible \in SUBSET Job, RecoverExpired(visible)
      PROVE  TableInv' /\ WriterStep /\ VersionStep
  <2>1. PICK S \in Batches({j \in visible : Expired(job[j])}) :
          job' = [j \in Job |-> IF j \in S THEN Recovered(job[j]) ELSE job[j]]
    BY <1>8 DEF RecoverExpired
  <2>2. \A k \in S : k \in Job /\ job[k].status = "RUNNING"
    BY <1>8, <2>1 DEF Batches, Expired
  <2>3. \A k \in S : Follows(job[k], Recovered(job[k]))
    BY <1>t, <2>2, RecoveredInv
  <2>4. \A k \in Job : /\ RowInv(job'[k])
                       /\ job'[k].lease_token \in {job[k].lease_token, NoToken}
                       /\ job'[k] = job[k] \/ job'[k].version > job[k].version
    BY <1>t, <2>1, <2>3 DEF Follows
  <2>5. job' \in [Job -> Row]
    BY <2>1, <2>4, RowToken
  <2>6. issued' = issued /\ writer' = writer
    BY <1>8 DEF RecoverExpired
  <2>7. TableInv' /\ WriterStep
    BY <2>4, <2>5, <2>6, NoClaimStep DEF TableInv, WriterStep
  <2>8. VersionStep
    BY <2>4 DEF VersionStep
  <2> QED BY <2>7, <2>8
<1>9. ASSUME Tick
      PROVE  TableInv' /\ WriterStep /\ VersionStep
  <2>1. /\ job' = [j \in Job |-> Ticked(job[j])]
        /\ issued' = issued /\ writer' = writer
    BY <1>9 DEF Tick
  <2>2. \A k \in Job : /\ RowInv(job'[k])
                       /\ job'[k].lease_token = job[k].lease_token
    BY <1>t, <2>1, TickedInv
  <2>3. job' \in [Job -> Row]
    BY <2>1, <2>2, RowToken
  <2>4. TableInv' /\ WriterStep
    BY <2>1, <2>2, <2>3, NoClaimStep DEF TableInv, WriterStep
  <2>5. \A k \in Job : Visible(Ticked(job[k])) = Visible(job[k])
    BY <1>t DEF Visible, Ticked, RowInv, Row
  <2>6. VersionStep
    BY <2>1, <2>5 DEF VersionStep
  <2> QED BY <2>4, <2>6
<1>10. CASE UNCHANGED vars
  <2>1. TableInv'
    BY <1>10 DEF TableInv, TokensUnique
  <2>2. WriterStep /\ VersionStep
    BY <1>10, <1>t DEF WriterStep, VersionStep
  <2> QED BY <2>1, <2>2
<1> QED
  BY <1>1, <1>2, <1>3, <1>4, <1>5, <1>6, <1>7, <1>8, <1>9, <1>10 DEF Transaction

THEOREM TableNext ==
  TableInv /\ [Next]_vars => TableInv' /\ WriterStep /\ VersionStep
<1>1. Next => Transaction
  BY DEF Next, Transaction
<1> QED BY <1>1, TableStep

(***************************************************************************)
(* The theorems.                                                           *)
(***************************************************************************)
\* The invariant is stronger than the properties.
LEMMA TableInvImplies ==
  TableInv => TypeOK /\ AttemptLimitValid /\ LeaseWhileRunning /\ TokensUnique
<1> SUFFICES ASSUME TableInv
             PROVE  TypeOK /\ AttemptLimitValid /\ LeaseWhileRunning
                    /\ TokensUnique
  OBVIOUS
<1>1. TypeOK /\ TokensUnique
  BY DEF TableInv, TypeOK
<1>2. AttemptLimitValid
  BY DEF TableInv, RowInv, AttemptLimitValid
<1>3. LeaseWhileRunning
  BY DEF TableInv, RowInv, LeaseWhileRunning
<1> QED BY <1>1, <1>2, <1>3

\* The invariant holds in every reachable state of the queue.
THEOREM TableInvariant == Spec => []TableInv
<1>1. Init => TableInv
  BY TableInit
<1>2. TableInv /\ [Next]_vars => TableInv'
  BY TableNext
<1> QED BY <1>1, <1>2, PTL DEF Spec

\* Rows, the token counter and the writers keep their types.
THEOREM TypeCorrect == Spec => []TypeOK
<1>1. TableInv => TypeOK
  BY TableInvImplies
<1> QED BY <1>1, TableInvariant, PTL

\* A queued job always has an attempt left: the CHECK on max_attempts can
\* never abort a claim, whatever limits jobs were submitted with.
THEOREM AttemptLimits == Spec => []AttemptLimitValid
<1>1. TableInv => AttemptLimitValid
  BY TableInvImplies
<1> QED BY <1>1, TableInvariant, PTL

\* Leases and requests exist on RUNNING rows only, and no two rows share a
\* token.
THEOREM Leases == Spec => [](LeaseWhileRunning /\ TokensUnique)
<1>1. TableInv => LeaseWhileRunning /\ TokensUnique
  BY TableInvImplies
<1> QED BY <1>1, TableInvariant, PTL

\* No write under an older token follows one under a newer token, however
\* many workers still hold tokens they have lost.
THEOREM LateWriters == Spec => LateWriterRefused
<1>1. TableInv /\ [Next]_vars
        => [\A j \in Job : writer[j] <= writer'[j]]_vars
  BY TableNext DEF WriterStep
<1> QED BY <1>1, TableInvariant, PTL DEF Spec, LateWriterRefused

\* Whatever an administrator could have seen of a row changes with its version.
THEOREM Versions == Spec => EveryChangeVersioned
<1>1. TableInv /\ [Next]_vars
        => [\A j \in Job : \/ Visible(job'[j]) = Visible(job[j])
                           \/ job'[j].version > job[j].version
                           \/ job[j].status = "ABSENT"]_vars
  BY TableNext DEF VersionStep
<1> QED BY <1>1, TableInvariant, PTL DEF Spec, EveryChangeVersioned

\* Together: what a write may never do, whoever still believes to hold the job.
THEOREM Writes == Spec => WritesSound
BY LateWriters, Versions, PTL DEF WritesSound

(***************************************************************************)
(* The job table implements the life of a job promised by JobLifecycle.    *)
(* The argument is again made per row: LifeMove is one job's part of an    *)
(* abstract step, every operator on rows makes such a move, and a step of  *)
(* the table makes one on every row.                                       *)
(***************************************************************************)

LifeMove(r, s) ==
  \/ /\ <<r.status, s.status>> \in
          {<<"ABSENT", "PENDING">>, <<"PENDING", "RUNNING">>,
           <<"PENDING", "PAUSED">>, <<"PENDING", "CANCELED">>,
           <<"PAUSED", "CANCELED">>, <<"PAUSED", "PENDING">>,
           <<"FAILED", "PENDING">>, <<"PARTIAL", "PENDING">>}
     /\ WantedOf(s) = "nothing"
  \/ /\ r.status = "RUNNING" /\ s.status = "RUNNING"
     /\ \/ WantedOf(s) = "cancel"
        \/ WantedOf(s) = "pause" /\ WantedOf(r) # "cancel"
  \/ /\ r.status = "RUNNING" /\ WantedOf(r) = "nothing"
     /\ s.status \in {"SUCCEEDED", "PARTIAL", "FAILED", "PENDING", "PAUSED"}
     /\ WantedOf(s) = "nothing"
  \/ /\ r.status = "RUNNING" /\ WantedOf(s) = "nothing"
     /\ \/ WantedOf(r) = "cancel" /\ s.status = "CANCELED"
        \/ WantedOf(r) = "pause" /\ s.status = "PAUSED"
  \/ s.status = r.status /\ WantedOf(s) = WantedOf(r)

\* What the request of a row means; only a running row has one.
LEMMA WantedFacts ==
  ASSUME NEW r, RowInv(r)
  PROVE  /\ r.cancel_requested => WantedOf(r) = "cancel"
         /\ ~r.cancel_requested /\ r.pause_requested => WantedOf(r) = "pause"
         /\ ~r.cancel_requested /\ ~r.pause_requested => WantedOf(r) = "nothing"
         /\ r.status # "RUNNING" => WantedOf(r) = "nothing"
         /\ r.status = "RUNNING" \/ (~r.cancel_requested /\ ~r.pause_requested)
BY DEF WantedOf, RowInv, Row

\* _finish leads to the status it is given, with no request left.
LEMMA FinishedLife ==
  ASSUME NEW r, RowInv(r), NEW s \in Terminal \cup {"PAUSED"}
  PROVE  Finished(r, s).status = s /\ WantedOf(Finished(r, s)) = "nothing"
<1>1. Finished(r, s).status = s
  BY DEF Finished, RowInv, Row
<1>2. s # "RUNNING"
  BY DEF Terminal
<1> QED BY <1>1, <1>2, FinishedInv, WantedFacts

\* A waiting request is obeyed; without one the outcome must be a legal end.
LEMMA HonourControlLife ==
  ASSUME NEW r, RowInv(r), r.status = "RUNNING", NEW o,
         WantedOf(r) = "nothing" => LifeMove(r, o)
  PROVE  LifeMove(r, HonourControl(r, o))
<1>1. CASE r.cancel_requested
  <2>1. HonourControl(r, o) = Finished(r, "CANCELED")
    BY <1>1 DEF HonourControl
  <2> QED BY <1>1, <2>1, FinishedLife, WantedFacts DEF LifeMove, Terminal
<1>2. CASE ~r.cancel_requested /\ r.pause_requested
  <2>1. HonourControl(r, o) = Finished(r, "PAUSED")
    BY <1>2 DEF HonourControl
  <2> QED BY <1>2, <2>1, FinishedLife, WantedFacts DEF LifeMove, Terminal
<1>3. CASE ~r.cancel_requested /\ ~r.pause_requested
  <2>1. HonourControl(r, o) = o
    BY <1>3 DEF HonourControl
  <2> QED BY <1>3, <2>1, WantedFacts
<1> QED BY <1>1, <1>2, <1>3

\* A progress report moves a job along its life: it goes on, or obeys a request.
LEMMA ReportedLife ==
  ASSUME NEW r, RowInv(r), r.status = "RUNNING",
         NEW c \in Checkpoint, NEW p \in BOOLEAN
  PROVE  LifeMove(r, Reported(r, c, p))
<1> DEFINE saved == [r EXCEPT !.checkpoint = c, !.lease = LeaseDuration,
                              !.pause_requested = @ \/ p, !.version = @ + 1]
<1>1. Reported(r, c, p) = HonourControl(saved, saved)
  BY DEF Reported
<1>2. /\ saved.status = "RUNNING"
      /\ saved.cancel_requested = r.cancel_requested
      /\ saved.pause_requested = (r.pause_requested \/ p)
      /\ r.cancel_requested \in BOOLEAN /\ r.pause_requested \in BOOLEAN
  BY DEF RowInv, Row
<1>3. CASE r.cancel_requested
  <2>1. Reported(r, c, p) = Finished(saved, "CANCELED")
    BY <1>1, <1>2, <1>3 DEF HonourControl
  <2>2. /\ Finished(saved, "CANCELED").status = "CANCELED"
        /\ Finished(saved, "CANCELED").pause_requested = FALSE
        /\ Finished(saved, "CANCELED").cancel_requested = FALSE
    BY DEF Finished, RowInv, Row
  <2>3. WantedOf(Finished(saved, "CANCELED")) = "nothing"
    BY <2>2 DEF WantedOf
  <2> QED BY <1>3, <2>1, <2>2, <2>3, WantedFacts DEF LifeMove
<1>4. CASE ~r.cancel_requested /\ (r.pause_requested \/ p)
  <2>1. Reported(r, c, p) = Finished(saved, "PAUSED")
    BY <1>1, <1>2, <1>4 DEF HonourControl
  <2>2. /\ Finished(saved, "PAUSED").status = "PAUSED"
        /\ Finished(saved, "PAUSED").pause_requested = FALSE
        /\ Finished(saved, "PAUSED").cancel_requested = FALSE
    BY DEF Finished, RowInv, Row
  <2>3. WantedOf(Finished(saved, "PAUSED")) = "nothing"
    BY <2>2 DEF WantedOf
  <2>4. WantedOf(r) \in {"pause", "nothing"}
    BY <1>4, WantedFacts
  <2> QED BY <2>1, <2>2, <2>3, <2>4 DEF LifeMove
<1>5. CASE ~r.cancel_requested /\ ~(r.pause_requested \/ p)
  <2>1. Reported(r, c, p) = saved
    BY <1>1, <1>2, <1>5 DEF HonourControl
  <2>2. WantedOf(saved) = "nothing"
    BY <1>2, <1>5 DEF WantedOf
  <2> HIDE DEF saved
  <2> QED BY <1>2, <1>5, <2>1, <2>2, WantedFacts DEF LifeMove
<1> QED BY <1>3, <1>4, <1>5

\* LifeMove looks at the status and the requests of the first row only.
LEMMA LifeMoveFrom ==
  ASSUME NEW r, NEW q, NEW s, q.status = r.status, WantedOf(q) = WantedOf(r),
         LifeMove(q, s)
  PROVE  LifeMove(r, s)
BY DEF LifeMove

\* Storing a result does not touch the request.
LEMMA SummaryLife ==
  ASSUME NEW r, RowInv(r), NEW d \in Data
  PROVE  WantedOf([r EXCEPT !.summary = d]) = WantedOf(r)
BY SummaryInv DEF WantedOf

\* complete ends the attempt as its result says, unless a request waits.
LEMMA CompletedLife ==
  ASSUME NEW r, RowInv(r), r.status = "RUNNING", NEW result \in Result
  PROVE  LifeMove(r, Completed(r, result))
<1> DEFINE saved == [r EXCEPT !.summary = result.data]
           status == IF result.partial THEN "PARTIAL" ELSE "SUCCEEDED"
<1>1. result.data \in Data
  BY DEF Result
<1>2. /\ RowInv(saved) /\ saved.status = "RUNNING"
      /\ WantedOf(saved) = WantedOf(r)
  BY <1>1, SummaryInv, SummaryLife
<1>3. Completed(r, result) = HonourControl(saved, Finished(saved, status))
  BY DEF Completed
<1>4. status \in {"PARTIAL", "SUCCEEDED"}
  OBVIOUS
<1> HIDE DEF saved, status
<1>5. WantedOf(saved) = "nothing" => LifeMove(saved, Finished(saved, status))
  BY <1>2, <1>4, FinishedLife DEF LifeMove, Terminal
<1>6. LifeMove(saved, Completed(r, result))
  BY <1>2, <1>3, <1>5, HonourControlLife
<1> QED BY <1>2, <1>6, LifeMoveFrom

\* Requeueing leads to PENDING.
LEMMA RequeuedLife ==
  ASSUME NEW r, RowInv(r), NEW d, WantedOf(r) = "nothing"
  PROVE  Requeued(r, d).status = "PENDING" /\ WantedOf(Requeued(r, d)) = "nothing"
<1>1. /\ Requeued(r, d).status = "PENDING"
      /\ Requeued(r, d).cancel_requested = r.cancel_requested
      /\ Requeued(r, d).pause_requested = r.pause_requested
  BY DEF Requeued, RowInv, Row
<1> QED BY <1>1 DEF WantedOf

\* fail ends the attempt or requeues the job, unless a request waits.
LEMMA FailedLife ==
  ASSUME NEW r, RowInv(r), r.status = "RUNNING", NEW result \in Result
  PROVE  LifeMove(r, Failed(r, result))
<1> DEFINE saved == [r EXCEPT !.summary = result.data]
           other == IF result.retryable /\ r.attempt_count < r.max_attempts
                    THEN Requeued(saved, RetryDelay)
                    ELSE Finished(saved, "FAILED")
<1>1. result.data \in Data
  BY DEF Result
<1>2. /\ RowInv(saved) /\ saved.status = "RUNNING"
      /\ WantedOf(saved) = WantedOf(r)
  BY <1>1, SummaryInv, SummaryLife
<1>3. Failed(r, result) = HonourControl(saved, other)
  BY DEF Failed
<1>4. other \in {Requeued(saved, RetryDelay), Finished(saved, "FAILED")}
  OBVIOUS
<1> HIDE DEF saved, other
<1>5. WantedOf(saved) = "nothing" => LifeMove(saved, other)
  BY <1>2, <1>4, FinishedLife, RequeuedLife DEF LifeMove, Terminal
<1>6. LifeMove(saved, Failed(r, result))
  BY <1>2, <1>3, <1>5, HonourControlLife
<1> QED BY <1>2, <1>6, LifeMoveFrom

\* A lost attempt is requeued or has failed, unless a request waits.
LEMMA RecoveredLife ==
  ASSUME NEW r, RowInv(r), r.status = "RUNNING"
  PROVE  LifeMove(r, Recovered(r))
<1> DEFINE more == [r EXCEPT !.recovery_count = @ + 1,
                     !.max_attempts = AtLeast(@, r.attempt_count + 1)]
           other == IF r.recovery_count < r.max_recoveries
                    THEN Requeued(more, 0) ELSE Finished(r, "FAILED")
<1>1. Recovered(r) = HonourControl(r, other)
  BY DEF Recovered
<1>2. WantedOf(r) = "nothing" => LifeMove(r, other)
  <2> SUFFICES ASSUME WantedOf(r) = "nothing" PROVE LifeMove(r, other)
    OBVIOUS
  <2>1. CASE r.recovery_count < r.max_recoveries
    <3>1. /\ Requeued(more, 0).status = "PENDING"
          /\ Requeued(more, 0).cancel_requested = r.cancel_requested
          /\ Requeued(more, 0).pause_requested = r.pause_requested
      BY DEF Requeued, RowInv, Row
    <3>2. WantedOf(Requeued(more, 0)) = "nothing"
      BY <3>1 DEF WantedOf
    <3>3. other = Requeued(more, 0)
      BY <2>1
    <3> HIDE DEF more, other
    <3> QED BY <3>1, <3>2, <3>3 DEF LifeMove
  <2>2. CASE ~(r.recovery_count < r.max_recoveries)
    BY <2>2, FinishedLife DEF LifeMove, Terminal
  <2> QED BY <2>1, <2>2
<1> HIDE DEF other
<1> QED BY <1>1, <1>2, HonourControlLife

\* Every allowed command is a move of the life of a job.
LEMMA CommandedLife ==
  ASSUME NEW r, RowInv(r), NEW action \in Action, Allowed(r, action)
  PROVE  LifeMove(r, Commanded(r, action))
<1> DEFINE s == Commanded(r, action)
<1>1. CASE action = "pause"
  <2>1. s = [PauseCommand(r) EXCEPT !.version = @ + 1]
    BY <1>1 DEF Commanded
  <2>2. CASE r.status = "PENDING"
    <3>1. s.status = "PAUSED" /\ s.cancel_requested = r.cancel_requested
          /\ s.pause_requested = r.pause_requested
      BY <2>1, <2>2 DEF PauseCommand, RowInv, Row
    <3>2. WantedOf(s) = "nothing"
      BY <2>2, <3>1, WantedFacts DEF WantedOf
    <3> QED BY <2>2, <3>1, <3>2 DEF LifeMove
  <2>3. CASE r.status = "RUNNING"
    <3>1. s.status = "RUNNING" /\ s.cancel_requested = r.cancel_requested
          /\ s.pause_requested = TRUE /\ r.cancel_requested \in BOOLEAN
      BY <2>1, <2>3 DEF PauseCommand, RowInv, Row
    <3>2. CASE r.cancel_requested
      <4>1. WantedOf(s) = "cancel"
        BY <3>1, <3>2 DEF WantedOf
      <4> QED BY <2>3, <3>1, <4>1 DEF LifeMove
    <3>3. CASE ~r.cancel_requested
      <4>1. WantedOf(s) = "pause" /\ WantedOf(r) # "cancel"
        BY <3>1, <3>3 DEF WantedOf
      <4> QED BY <2>3, <3>1, <4>1 DEF LifeMove
    <3> QED BY <3>2, <3>3
  <2> QED BY <1>1, <2>2, <2>3 DEF Allowed
<1>2. CASE action = "resume"
  <2>1. s = [ResumeCommand(r) EXCEPT !.version = @ + 1] /\ r.status = "PAUSED"
    BY <1>2 DEF Commanded, Allowed
  <2>2. s.status = "PENDING" /\ s.cancel_requested = r.cancel_requested
        /\ s.pause_requested = FALSE
    BY <2>1 DEF ResumeCommand, RowInv, Row
  <2>3. WantedOf(s) = "nothing"
    BY <2>1, <2>2, WantedFacts DEF WantedOf
  <2> QED BY <2>1, <2>2, <2>3 DEF LifeMove
<1>3. CASE action = "cancel"
  <2>1. s = [CancelCommand(r) EXCEPT !.version = @ + 1]
        /\ r.status \in {"PENDING", "PAUSED", "RUNNING"}
    BY <1>3 DEF Commanded, Allowed
  <2>2. CASE r.status = "RUNNING"
    <3>1. s.status = "RUNNING" /\ s.cancel_requested = TRUE
      BY <2>1, <2>2 DEF CancelCommand, RowInv, Row
    <3>2. WantedOf(s) = "cancel"
      BY <3>1 DEF WantedOf
    <3> QED BY <2>2, <3>1, <3>2 DEF LifeMove
  <2>3. CASE r.status # "RUNNING"
    <3>1. s.status = "CANCELED" /\ s.cancel_requested = FALSE
          /\ s.pause_requested = FALSE
      BY <2>1, <2>3 DEF CancelCommand, Finished, RowInv, Row
    <3>2. WantedOf(s) = "nothing"
      BY <3>1 DEF WantedOf
    <3> QED BY <2>1, <2>3, <3>1, <3>2 DEF LifeMove
  <2> QED BY <2>2, <2>3
<1>4. CASE action = "retry"
  <2>1. s = [RetryCommand(r) EXCEPT !.version = @ + 1]
        /\ r.status \in {"FAILED", "PARTIAL"}
    BY <1>4 DEF Commanded, Allowed
  <2>2. s.status = "PENDING" /\ s.cancel_requested = r.cancel_requested
        /\ s.pause_requested = r.pause_requested
    BY <2>1 DEF RetryCommand, RowInv, Row
  <2>3. WantedOf(s) = "nothing"
    BY <2>1, <2>2, WantedFacts DEF WantedOf
  <2> QED BY <2>1, <2>2, <2>3 DEF LifeMove
<1> QED BY <1>1, <1>2, <1>3, <1>4 DEF Action

\* submit is a move of the life of a job.
LEMMA SubmittedLife ==
  ASSUME NEW r, RowInv(r), r.status = "ABSENT"
  PROVE  LifeMove(r, Submitted(r))
<1>1. Submitted(r).status = "PENDING"
  BY DEF Submitted, RowInv, Row
<1>2. WantedOf(Submitted(r)) = "nothing"
  BY <1>1, SubmittedInv, WantedFacts
<1> QED BY <1>1, <1>2 DEF LifeMove

\* A claim is a move of the life of a job.
LEMMA ClaimedLife ==
  ASSUME NEW r, RowInv(r), Claimable(r), NEW t \in Nat \ {0}
  PROVE  LifeMove(r, Claimed(r, t))
<1>1. /\ Claimed(r, t).status = "RUNNING" /\ r.status = "PENDING"
      /\ Claimed(r, t).cancel_requested = FALSE
      /\ Claimed(r, t).pause_requested = FALSE
  BY DEF Claimed, Claimable, RowInv, Row
<1>2. WantedOf(Claimed(r, t)) = "nothing"
  BY <1>1 DEF WantedOf
<1> QED BY <1>1, <1>2 DEF LifeMove

\* Heartbeats, time and doing nothing change neither status nor request.
LEMMA TimeLife ==
  ASSUME NEW r, RowInv(r)
  PROVE  LifeMove(r, Renewed(r)) /\ LifeMove(r, Ticked(r)) /\ LifeMove(r, r)
<1>1. WantedOf(Renewed(r)) = WantedOf(r) /\ Renewed(r).status = r.status
  BY DEF WantedOf, Renewed, RowInv, Row
<1>2. WantedOf(Ticked(r)) = WantedOf(r) /\ Ticked(r).status = r.status
  BY DEF WantedOf, Ticked, RowInv, Row
<1> QED BY <1>1, <1>2 DEF LifeMove

(***************************************************************************)
(* The table.                                                              *)
(***************************************************************************)
\* In every step of the table each job makes a move of its life or stays.
LEMMA RowsMove ==
  TableInv /\ (Transaction \/ UNCHANGED vars) => \A k \in Job : LifeMove(job[k], job'[k])
<1> SUFFICES ASSUME TableInv, Transaction \/ UNCHANGED vars
             PROVE  \A k \in Job : LifeMove(job[k], job'[k])
  OBVIOUS
<1>t. /\ \A j \in Job : RowInv(job[j]) /\ LifeMove(job[j], job[j])
      /\ job \in [Job -> Row]
  BY TimeLife DEF TableInv
<1>1. ASSUME NEW j \in Job, Submit(j)
      PROVE  \A k \in Job : LifeMove(job[k], job'[k])
  BY <1>1, <1>t, SubmittedLife DEF Submit
<1>2. ASSUME NEW visible \in SUBSET Job, NEW j \in visible, ClaimNext(j, visible)
      PROVE  \A k \in Job : LifeMove(job[k], job'[k])
  <2>1. Claimable(job[j]) /\ issued + 1 \in Nat \ {0}
    BY <1>2 DEF ClaimNext, First, Due, TableInv
  <2> QED BY <1>2, <1>t, <2>1, ClaimedLife DEF ClaimNext
<1>3. ASSUME NEW j \in Job, NEW lease \in 1 .. issued, RenewLease(j, lease)
      PROVE  \A k \in Job : LifeMove(job[k], job'[k])
  BY <1>3, <1>t, TimeLife DEF RenewLease
<1>4. ASSUME NEW j \in Job, NEW lease \in 1 .. issued,
             NEW checkpoint \in Checkpoint, NEW pause \in BOOLEAN,
             ReportProgress(j, lease, checkpoint, pause)
      PROVE  \A k \in Job : LifeMove(job[k], job'[k])
  <2>1. job[j].status = "RUNNING"
    BY <1>4 DEF ReportProgress, Active
  <2> QED BY <1>4, <1>t, <2>1, ReportedLife DEF ReportProgress
<1>5. ASSUME NEW j \in Job, NEW lease \in 1 .. issued, NEW result \in Result,
             Complete(j, lease, result) \/ Fail(j, lease, result)
      PROVE  \A k \in Job : LifeMove(job[k], job'[k])
  <2>1. job[j].status = "RUNNING"
    BY <1>5 DEF Complete, Fail, Active
  <2> QED BY <1>5, <1>t, <2>1, CompletedLife, FailedLife DEF Complete, Fail
<1>6. ASSUME NEW j \in Job, NEW action \in Action, Command(j, action)
      PROVE  \A k \in Job : LifeMove(job[k], job'[k])
  BY <1>6, <1>t, CommandedLife DEF Command
<1>7. ASSUME NEW visible \in SUBSET Job, RecoverExpired(visible)
      PROVE  \A k \in Job : LifeMove(job[k], job'[k])
  <2>1. PICK S \in Batches({j \in visible : Expired(job[j])}) :
          job' = [j \in Job |-> IF j \in S THEN Recovered(job[j]) ELSE job[j]]
    BY <1>7 DEF RecoverExpired
  <2>2. \A k \in S : job[k].status = "RUNNING"
    BY <2>1 DEF Batches, Expired
  <2> QED BY <1>t, <2>1, <2>2, RecoveredLife
<1>8. CASE Tick
  BY <1>8, <1>t, TimeLife DEF Tick
<1>9. CASE UNCHANGED vars
  BY <1>9, <1>t DEF vars
<1> QED BY <1>1, <1>2, <1>3, <1>4, <1>5, <1>6, <1>7, <1>8, <1>9 DEF Transaction

\* What the abstract actions say of one job, through the refinement mapping.
LEMMA MoveIsLifecycleNext ==
  ASSUME \A k \in Job : LifeMove(job[k], job'[k])
  PROVE  LC!LifecycleNext
<1> SUFFICES ASSUME NEW j \in Job
             PROVE  \/ LC!Submit(j) \/ LC!Start(j) \/ LC!Ask(j) \/ LC!End(j)
                    \/ LC!Obey(j) \/ LC!Decide(j) \/ LC!Stays(j)
  BY DEF LC!LifecycleNext
<1> LifeMove(job[j], job'[j])
  OBVIOUS
<1> QED
  BY DEF LifeMove, LC!Submit, LC!Start, LC!Ask, LC!End, LC!Obey, LC!Decide,
         LC!Stays, LC!Move

\* Every behaviour of the job table is, job by job, a life that JobLifecycle
\* allows: in particular an accepted cancel is never followed by anything else.
THEOREM Refinement == Spec => ImplementsLifecycle
<1>1. Init => LC!LifecycleInit
  BY DEF Init, LC!LifecycleInit, Absent, WantedOf
<1>2. TableInv /\ [Next]_vars => [LC!LifecycleNext]_LC!lifecycle
  <2>1. Next => Transaction
    BY DEF Next, Transaction
  <2> QED BY <2>1, RowsMove, MoveIsLifecycleNext
<1> QED
  BY <1>1, <1>2, TableInvariant, PTL DEF Spec, ImplementsLifecycle, LC!Lifecycle

-----------------------------------------------------------------------------
(***************************************************************************)
(* The requests to a data source: what is reserved for the urgent          *)
(* capabilities is left for them, and no more requests are awaited than    *)
(* the source may be sent at a time.                                       *)
(*                                                                         *)
(* The budget is kept because what is used and what is still reserved      *)
(* never exceed the day's limit together (Funded).  The other limit is     *)
(* kept because every request has a lease of its own that outlasts the     *)
(* time its caller awaits it (Leased), and the leases that hold are        *)
(* counted (Counted).                                                      *)
(***************************************************************************)

Funded ==
  Budget!TotalUsed + Budget!Over(RealtimeReserved,
  used["realtime"]) + Budget!Over(DailyReserved, used["daily"])
    <= DailyLimit

\* No operation has more time than its capability's timeout.
Timely == \A p \in Caller, c \in Budget!Capability :
  Budget!Waits(p, c) \/ Budget!Awaits(p, c) => deadline[p] <= Timeout[c]

Leased ==
  /\ \A p \in Caller, c \in Budget!Capability :
       Budget!Awaits(p, c) => leased[token[p]] = c /\ left[token[p]] > deadline[p]
  /\ \A p, q \in Caller, c, d \in Budget!Capability :
       Budget!Awaits(p, c) /\ Budget!Awaits(q, d) /\ token[p] = token[q] => p = q

HeldFor(c) == {t \in Budget!Held : leased[t] = c}
Counted ==
  /\ Cardinality(Budget!Held) <= MaxConcurrency
  /\ \A c \in Budget!Capability : Cardinality(HeldFor(c)) <= Concurrency[c]

BudgetInv == Budget!TypeOK /\ Funded /\ Timely /\ Leased /\ Counted

-----------------------------------------------------------------------------
\* Sets are counted there as here.
LEMMA SameCounting ==
  \A S : /\ Budget!IsFiniteSet(S) <=> IsFiniteSet(S)
         /\ Budget!Cardinality(S) = Cardinality(S)
<1>1. ASSUME NEW S PROVE Budget!IsFiniteSet(S) <=> IsFiniteSet(S)
  BY DEF Budget!IsFiniteSet, IsFiniteSet
<1>2. ASSUME NEW S PROVE Budget!Cardinality(S) = Cardinality(S)
  BY DEF Budget!Cardinality, Cardinality
<1> QED BY <1>1, <1>2

-----------------------------------------------------------------------------
(* Arithmetic of the reserves.                                             *)

\* A request that the ceiling of its capability lets through is funded: by its own
\* reserve while that lasts, and then by what nobody has reserved.
LEMMA FundedByClaim ==
  ASSUME Budget!BudgetConstants, Budget!TypeOK, Funded, NEW c \in Budget!Capability,
         ~Budget!Exhausted(c),
         used' = [used EXCEPT ![c] = @ + 1]
  PROVE  Funded'
<1>1. /\ used["realtime"] \in Nat /\ used["daily"] \in Nat /\ used["history"] \in Nat
      /\ DailyLimit \in Nat /\ RealtimeReserved \in Nat /\ DailyReserved \in Nat
  BY DEF Budget!BudgetConstants, Budget!TypeOK, Budget!Capability
<1>2. CASE c = "realtime"
  <2>1. /\ used'["realtime"] = used["realtime"] + 1 /\ used'["daily"] = used["daily"]
        /\ used'["history"] = used["history"]
    BY <1>2 DEF Budget!TypeOK, Budget!Capability
  <2>2. Budget!TotalUsed < DailyLimit - Budget!Over(DailyReserved, used["daily"])
    BY <1>1, <1>2 DEF Budget!Exhausted, Budget!Ceiling, Budget!TotalUsed, Budget!Over
  <2> QED BY <1>1, <2>1, <2>2 DEF Funded, Budget!TotalUsed, Budget!Over
<1>3. CASE c = "daily"
  <2>1. /\ used'["daily"] = used["daily"] + 1 /\ used'["realtime"] = used["realtime"]
        /\ used'["history"] = used["history"]
    BY <1>3 DEF Budget!TypeOK, Budget!Capability
  <2>2. Budget!TotalUsed < DailyLimit - Budget!Over(RealtimeReserved, used["realtime"])
    BY <1>1, <1>3 DEF Budget!Exhausted, Budget!Ceiling, Budget!TotalUsed, Budget!Over
  <2> QED BY <1>1, <2>1, <2>2 DEF Funded, Budget!TotalUsed, Budget!Over
<1>4. CASE c = "history"
  <2>1. /\ used'["history"] = used["history"] + 1 /\ used'["realtime"] = used["realtime"]
        /\ used'["daily"] = used["daily"]
    BY <1>4 DEF Budget!TypeOK, Budget!Capability
  <2>2. Budget!TotalUsed < DailyLimit - Budget!Over(RealtimeReserved, used["realtime"])
                               - Budget!Over(DailyReserved, used["daily"])
    BY <1>1, <1>4 DEF Budget!Exhausted, Budget!Ceiling, Budget!TotalUsed, Budget!Over
  <2> QED BY <1>1, <2>1, <2>2 DEF Funded, Budget!TotalUsed, Budget!Over
<1> QED BY <1>2, <1>3, <1>4 DEF Budget!Capability

\* While the sums hold, whoever has reserve left finds room for it.
LEMMA FundedReserves ==
  ASSUME Budget!BudgetConstants, Budget!TypeOK, Funded
  PROVE  Budget!ReservesKept
<1>1. /\ used["realtime"] \in Nat /\ used["daily"] \in Nat /\ used["history"] \in Nat
      /\ DailyLimit \in Nat /\ RealtimeReserved \in Nat /\ DailyReserved \in Nat
  BY DEF Budget!BudgetConstants, Budget!TypeOK, Budget!Capability
<1> QED BY <1>1 DEF Funded, Budget!ReservesKept, Budget!Ceiling, Budget!TotalUsed,
      Budget!Over

-----------------------------------------------------------------------------
(* Counting the leases.                                                    *)

\* Fewer leases that hold, for the same capabilities, count no more.
LEMMA CountedShrinks ==
  ASSUME Budget!BudgetConstants, Budget!TypeOK, Counted,
         Budget!Held' \subseteq Budget!Held, UNCHANGED leased
  PROVE  Counted'
<1>1. IsFiniteSet(Budget!Held) /\ \A c \in Budget!Capability : IsFiniteSet(HeldFor(c))
  BY FS_Subset, SameCounting DEF Budget!BudgetConstants, Budget!Held, HeldFor
<1>2. Cardinality(Budget!Held') <= MaxConcurrency
  <2>1. Cardinality(Budget!Held') <= Cardinality(Budget!Held)
    BY <1>1, FS_Subset
  <2>2. Cardinality(Budget!Held) \in Nat /\ Cardinality(Budget!Held') \in Nat
    BY <1>1, FS_Subset, FS_CardinalityType
  <2> QED BY <2>1, <2>2 DEF Counted, Budget!BudgetConstants
<1>3. ASSUME NEW c \in Budget!Capability PROVE Cardinality(HeldFor(c)') <= Concurrency[c]
  <2>1. HeldFor(c)' \subseteq HeldFor(c)
    BY DEF HeldFor
  <2>2. Cardinality(HeldFor(c)') <= Cardinality(HeldFor(c))
    BY <1>1, <2>1, FS_Subset
  <2>3. Cardinality(HeldFor(c)) \in Nat /\ Cardinality(HeldFor(c)') \in Nat
    BY <1>1, <2>1, FS_Subset, FS_CardinalityType
  <2> QED BY <2>2, <2>3 DEF Counted, Budget!BudgetConstants
<1> QED BY <1>2, <1>3 DEF Counted

\* A new lease counts one more, for one capability.
LEMMA CountedGrows ==
  ASSUME Budget!BudgetConstants, Budget!TypeOK, Counted, NEW c \in Budget!Capability,
         ~Budget!Crowded(c),
         NEW t \in Token \ Budget!Held,
         leased' = [leased EXCEPT ![t] = c],
         left' = [left EXCEPT ![t] = Budget!LeaseTime(c)]
  PROVE  Counted'
<1>0. Budget!LeaseTime(c) \in Nat \ {0} /\ MaxConcurrency \in Nat
      /\ Concurrency \in [Budget!Capability -> Nat]
  BY DEF Budget!BudgetConstants, Budget!LeaseTime
<1>1. IsFiniteSet(Budget!Held) /\ \A d \in Budget!Capability : IsFiniteSet(HeldFor(d))
  BY FS_Subset, SameCounting DEF Budget!BudgetConstants, Budget!Held, HeldFor
<1>2. Budget!Held' = Budget!Held \cup {t}
  BY <1>0 DEF Budget!Held, Budget!TypeOK
<1>3. Cardinality(Budget!Held') <= MaxConcurrency
  <2>1. Cardinality(Budget!Held') = Cardinality(Budget!Held) + 1 /\ Cardinality(Budget!Held) \in Nat
    BY <1>1, <1>2, FS_AddElement, FS_CardinalityType
  <2> QED BY SameCounting, <1>0, <2>1 DEF Budget!Crowded, Counted
<1>4. ASSUME NEW d \in Budget!Capability PROVE Cardinality(HeldFor(d)') <= Concurrency[d]
  <2>1. CASE d = c
    <3>1. HeldFor(d)' = HeldFor(d) \cup {t}
      BY <1>2, <2>1 DEF HeldFor, Budget!Held, Budget!TypeOK
    <3>2. /\ Cardinality(HeldFor(d)') = Cardinality(HeldFor(d)) + 1
          /\ Cardinality(HeldFor(d)) \in Nat
      <4>1. t \notin HeldFor(d) BY DEF HeldFor
      <4> QED BY <1>1, <3>1, <4>1, FS_AddElement, FS_CardinalityType
    <3>3. Cardinality(HeldFor(d)) < Concurrency[d]
      <4>1. Cardinality(HeldFor(d)) \in Nat BY <1>1, FS_CardinalityType
      <4> QED BY SameCounting, <1>0, <2>1, <4>1 DEF Budget!Crowded, HeldFor
    <3> QED BY <1>0, <3>2, <3>3
  <2>2. CASE d # c
    <3>1. HeldFor(d)' = HeldFor(d)
      BY <1>2, <2>2 DEF HeldFor, Budget!Held, Budget!TypeOK
    <3> QED BY <3>1 DEF Counted
  <2> QED BY <2>1, <2>2
<1> QED BY <1>3, <1>4 DEF Counted

\* Every request that is awaited has a lease of its own that holds, so that there are
\* no more of them than leases.
LEMMA LeasesCoverAwaited ==
  ASSUME Budget!BudgetConstants, Budget!TypeOK, Leased, Counted
  PROVE  Budget!AwaitedLimit
<1>0. IsFiniteSet(Budget!Held) /\ \A c \in Budget!Capability : IsFiniteSet(HeldFor(c))
  BY FS_Subset, SameCounting DEF Budget!BudgetConstants, Budget!Held, HeldFor
<1>1. \A p \in Budget!Awaiting : \E c \in Budget!Capability : Budget!Awaits(p, c)
  BY DEF Budget!Awaiting, Budget!Awaits, Budget!TypeOK
<1>2. \A p \in Budget!Awaiting : token[p] \in Budget!Held
  BY <1>1 DEF Budget!Awaiting, Leased, Budget!TypeOK, Budget!Held
<1>3. Cardinality(Budget!Awaiting) <= MaxConcurrency
  <2> DEFINE f == [p \in Budget!Awaiting |-> token[p]]
  <2>1. f \in Injection(Budget!Awaiting, Budget!Held)
    BY <1>1, <1>2 DEF Injection, IsInjective, Leased, Budget!Awaiting
  <2>2. Cardinality(Budget!Awaiting) <= Cardinality(Budget!Held) /\ IsFiniteSet(Budget!Awaiting)
    BY <1>0, <2>1, FS_Injection
  <2>3. Cardinality(Budget!Awaiting) \in Nat /\ Cardinality(Budget!Held) \in Nat
    BY <1>0, <2>2, FS_CardinalityType
  <2> QED BY <2>2, <2>3 DEF Counted, Budget!BudgetConstants
<1>4. ASSUME NEW c \in Budget!Capability
      PROVE  Cardinality({p \in Caller : Budget!Awaits(p, c)}) <= Concurrency[c]
  <2> DEFINE S == {p \in Caller : Budget!Awaits(p, c)}
             f == [p \in S |-> token[p]]
  <2>1. \A p \in S : token[p] \in HeldFor(c)
    BY <1>2 DEF Budget!Awaiting, Budget!Awaits, HeldFor, Leased
  <2>2. f \in Injection(S, HeldFor(c))
    BY <2>1 DEF Injection, IsInjective, Leased
  <2>3. Cardinality(S) <= Cardinality(HeldFor(c)) /\ IsFiniteSet(S)
    BY <1>0, <2>2, FS_Injection
  <2>4. Cardinality(S) \in Nat /\ Cardinality(HeldFor(c)) \in Nat
    BY <1>0, <2>3, FS_CardinalityType
  <2> QED BY <2>3, <2>4 DEF Counted, Budget!BudgetConstants
<1> QED BY SameCounting, <1>3, <1>4 DEF Budget!AwaitedLimit

-----------------------------------------------------------------------------
(* The invariant.                                                          *)

LEMMA BudgetInit == ASSUME Budget!BudgetConstants, Budget!Init PROVE BudgetInv
<1>1. Budget!TypeOK
  BY DEF Budget!Init, Budget!TypeOK, Budget!Capability, Budget!Idle, Budget!BudgetConstants
<1>2. Budget!Held = {} /\ \A c \in Budget!Capability : HeldFor(c) = {}
  BY DEF Budget!Init, Budget!Held, HeldFor, Budget!BudgetConstants
<1>3. Counted
  BY <1>2, FS_EmptySet DEF Counted, Budget!BudgetConstants
<1>4. Funded
  BY DEF Budget!Init, Funded, Budget!TotalUsed, Budget!Over, Budget!BudgetConstants,
    Budget!Capability
<1>5. Timely /\ Leased
  BY DEF Budget!Init, Timely, Leased, Budget!Waits, Budget!Awaits, Budget!Idle
<1> QED BY <1>1, <1>3, <1>4, <1>5 DEF BudgetInv

\* An operation begins with its timeout.
LEMMA BeginKeeps ==
  ASSUME Budget!BudgetConstants, BudgetInv, NEW p \in Caller, NEW c \in Budget!Capability,
         Budget!Begin(p, c)
  PROVE  BudgetInv'
<1> USE DEF BudgetInv
<1>1. Budget!TypeOK'
  BY DEF Budget!Begin, Budget!Go, Budget!TypeOK, Budget!BudgetConstants
<1>2. Funded' /\ Counted'
  BY DEF Budget!Begin, Funded, Counted, Budget!TotalUsed, Budget!Over, Budget!Held, HeldFor
<1>3. Timely'
  BY DEF Budget!Begin, Budget!Go, Timely, Budget!Waits, Budget!Awaits, Budget!TypeOK,
    Budget!BudgetConstants
<1>4. \A q \in Caller, d \in Budget!Capability : Budget!Awaits(q, d)' => Budget!Awaits(q, d)
  BY DEF Budget!Begin, Budget!Go, Budget!Awaits, Budget!TypeOK
<1>5. Leased'
  <2>1. UNCHANGED <<leased, token, left>> /\ \A q \in Caller, d \in Budget!Capability :
          Budget!Awaits(q, d)' => deadline'[q] = deadline[q]
    BY DEF Budget!Begin, Budget!Go, Budget!Awaits, Budget!Idle, Budget!TypeOK
  <2> QED BY <1>4, <2>1 DEF Leased
<1> QED BY <1>1, <1>2, <1>3, <1>5

\* A claim takes a lease that nobody's request holds, for longer than it may run.
LEMMA ClaimKeeps ==
  ASSUME Budget!BudgetConstants, BudgetInv, NEW p \in Caller, NEW c \in Budget!Capability,
         Budget!Claim(p, c)
  PROVE  BudgetInv'
<1> USE DEF BudgetInv
<1>0. PICK t \in Token \ Budget!Held :
        /\ leased' = [leased EXCEPT ![t] = c] /\ left' = [left EXCEPT ![t] = Budget!LeaseTime(c)]
        /\ token' = [token EXCEPT ![p] = t]
  BY DEF Budget!Claim
<1>1. Budget!LeaseTime(c) = Timeout[c] + Grace /\ Timeout[c] \in Nat /\ Grace \in Nat \ {0}
  BY DEF Budget!LeaseTime, Budget!BudgetConstants
<1>2. Budget!TypeOK'
  BY <1>0, <1>1 DEF Budget!Claim, Budget!Go, Budget!TypeOK, Budget!BudgetConstants
<1>3. Funded'
  BY FundedByClaim DEF Budget!Claim
<1>4. Counted'
  BY <1>0, CountedGrows DEF Budget!Claim
<1>5. Timely'
  BY DEF Budget!Claim, Budget!Go, Timely, Budget!Waits, Budget!Awaits, Budget!TypeOK
<1>6. \A q \in Caller \ {p}, d \in Budget!Capability :
        Budget!Awaits(q, d)' => Budget!Awaits(q,
        d) /\ token'[q] = token[q] /\ token[q] \in Budget!Held
  BY <1>0 DEF Budget!Claim, Budget!Go, Budget!Awaits, Budget!TypeOK, Leased, Budget!Held
<1>7. \A d \in Budget!Capability : Budget!Awaits(p, d)' => d = c
  BY DEF Budget!Claim, Budget!Go, Budget!Awaits, Budget!TypeOK
<1>8. leased'[t] = c /\ left'[t] > deadline'[p] /\ token'[p] = t
  BY <1>0, <1>1 DEF Budget!Claim, Timely, Budget!TypeOK
<1>9. \A u \in Budget!Held : leased'[u] = leased[u] /\ left'[u] = left[u]
  BY <1>0 DEF Budget!Held, Budget!TypeOK
<1>10. Leased'
  <2>1. ASSUME NEW q \in Caller, NEW d \in Budget!Capability, Budget!Awaits(q, d)'
        PROVE  leased'[token'[q]] = d /\ left'[token'[q]] > deadline'[q]
    <3>1. CASE q = p BY <1>7, <1>8, <2>1, <3>1
    <3>2. CASE q # p
      <4>1. Budget!Awaits(q,
            d) /\ token'[q] = token[q] /\ token[q] \in Budget!Held /\ deadline' = deadline
        BY <1>6, <2>1, <3>2 DEF Budget!Claim
      <4> QED BY <1>9, <4>1 DEF Leased
    <3> QED BY <3>1, <3>2
  <2>2. ASSUME NEW q \in Caller, NEW r \in Caller, NEW d \in Budget!Capability,
               NEW e \in Budget!Capability,
               Budget!Awaits(q, d)', Budget!Awaits(r, e)', token'[q] = token'[r]
        PROVE  q = r
    <3>1. \A o \in Caller : o # p /\ (Budget!Awaits(o, d)' \/ Budget!Awaits(o,
          e)') => token'[o] # t
      BY <1>6
    <3>2. CASE q # p /\ r # p BY <1>6, <2>2, <3>2 DEF Leased
    <3> QED BY <1>8, <2>2, <3>1, <3>2
  <2> QED BY <2>1, <2>2 DEF Leased
<1> QED BY <1>2, <1>3, <1>4, <1>5, <1>10

\* What is released is the lease of one request alone, whatever becomes of its thread.
LEMMA ReleaseKeeps ==
  ASSUME Budget!BudgetConstants, BudgetInv, NEW p \in Caller, NEW c \in Budget!Capability,
         Budget!Release(p, c) \/ Budget!Abandon(p, c)
  PROVE  BudgetInv'
<1> USE DEF BudgetInv
<1>0. /\ left' = [left EXCEPT ![token[p]] = 0] /\ threads' \in 0 .. MaxThreads
      /\ UNCHANGED <<used, since, leased, token, deadline>>
  BY DEF Budget!Release, Budget!Abandon, Budget!LeftToThread, Budget!TypeOK,
    Budget!BudgetConstants
<1>1. PICK next \in {Budget!Idle, <<"waiting", c>>} : caller' = [caller EXCEPT ![p] = next]
  BY DEF Budget!Release, Budget!Abandon
<1>2. Budget!TypeOK'
  BY <1>0, <1>1 DEF Budget!TypeOK, Budget!Idle, Budget!Capability
<1>3. Funded'
  BY <1>0 DEF Funded, Budget!TotalUsed, Budget!Over
<1>4. Counted'
  <2>1. Budget!Held' \subseteq Budget!Held BY <1>0 DEF Budget!Held, Budget!TypeOK
  <2> QED BY <1>0, <2>1, CountedShrinks
<1>5. Timely'
  BY <1>0, <1>1 DEF Timely, Budget!Waits, Budget!Awaits, Budget!TypeOK, Budget!Idle,
    Budget!Release, Budget!Abandon
<1>6. \A q \in Caller, d \in Budget!Capability :
        Budget!Awaits(q, d)' => q # p /\ Budget!Awaits(q, d)
  BY <1>1 DEF Budget!Awaits, Budget!TypeOK, Budget!Idle
<1>7. Budget!Awaits(p, c)
  BY DEF Budget!Release, Budget!Abandon
<1>8. \A q \in Caller, d \in Budget!Capability :
        Budget!Awaits(q, d)' => left'[token[q]] = left[token[q]]
  BY <1>0, <1>6, <1>7 DEF Leased, Budget!TypeOK
<1>9. Leased'
  BY <1>0, <1>6, <1>8 DEF Leased, Budget!TypeOK
<1> QED BY <1>2, <1>3, <1>4, <1>5, <1>9

\* Whoever is denied or gives up leaves its lease to expire.
LEMMA LeaveKeeps ==
  ASSUME Budget!BudgetConstants, BudgetInv, NEW p \in Caller,
         caller' = [caller EXCEPT ![p] = Budget!Idle],
         UNCHANGED <<used, since, leased, left, token, deadline>>,
         threads' \in 0 .. MaxThreads
  PROVE  BudgetInv'
<1> USE DEF BudgetInv
<1>1. Budget!TypeOK'
  BY DEF Budget!TypeOK, Budget!Idle, Budget!Capability
<1>2. Funded' /\ Counted'
  BY DEF Funded, Counted, Budget!TotalUsed, Budget!Over, Budget!Held, HeldFor
<1>3. \A q \in Caller, d \in Budget!Capability :
        (Budget!Awaits(q, d)' => Budget!Awaits(q, d)) /\ (Budget!Waits(q,
        d)' => Budget!Waits(q, d))
  BY DEF Budget!Awaits, Budget!Waits, Budget!Idle, Budget!TypeOK
<1>4. Timely' /\ Leased'
  BY <1>3 DEF Timely, Leased
<1> QED BY <1>1, <1>2, <1>4

\* A thread that ends touches neither counts nor leases.
LEMMA ThreadEndsKeeps ==
  ASSUME Budget!BudgetConstants, BudgetInv, Budget!ThreadEnds
  PROVE  BudgetInv'
<1> USE DEF BudgetInv
<1>1. Budget!TypeOK'
  BY DEF Budget!ThreadEnds, Budget!TypeOK, Budget!BudgetConstants
<1>2. Funded' /\ Counted'
  BY DEF Budget!ThreadEnds, Funded, Counted, Budget!TotalUsed, Budget!Over, Budget!Held,
    HeldFor
<1>3. Timely' /\ Leased'
  BY DEF Budget!ThreadEnds, Timely, Leased, Budget!Waits, Budget!Awaits
<1> QED BY <1>1, <1>2, <1>3

\* Time takes as much from every lease as from its request, which still has some.
LEMMA TickKeeps ==
  ASSUME Budget!BudgetConstants, BudgetInv, Budget!Tick
  PROVE  BudgetInv'
<1> USE DEF BudgetInv
<1>1. Budget!TypeOK'
  BY DEF Budget!Tick, Budget!TypeOK, Budget!Less, Budget!BudgetConstants
<1>2. Funded'
  BY DEF Budget!Tick, Funded, Budget!TotalUsed, Budget!Over
<1>3. Counted'
  <2>1. Budget!Held' \subseteq Budget!Held BY DEF Budget!Tick, Budget!Held, Budget!Less,
        Budget!TypeOK
  <2> QED BY <2>1, CountedShrinks DEF Budget!Tick
<1>4. \A q \in Caller, d \in Budget!Capability :
        (Budget!Awaits(q, d)' <=> Budget!Awaits(q, d)) /\ (Budget!Waits(q,
        d)' <=> Budget!Waits(q, d))
  BY DEF Budget!Tick, Budget!Awaits, Budget!Waits
<1>5. Timely'
  <2>1. \A q \in Caller : deadline'[q] <= deadline[q] /\ deadline'[q] \in Nat
    BY DEF Budget!Tick, Budget!Less, Budget!TypeOK
  <2> QED BY <1>4, <2>1 DEF Timely, Budget!TypeOK, Budget!BudgetConstants
<1>6. Leased'
  <2>1. ASSUME NEW q \in Caller, NEW d \in Budget!Capability, Budget!Awaits(q, d)
        PROVE  left'[token[q]] > deadline'[q]
    <3>1. deadline[q] > 0 /\ deadline[q] \in Nat /\ left[token[q]] \in Nat
      BY <2>1 DEF Budget!Tick, Budget!Awaits, Budget!Idle, Budget!TypeOK
    <3>2. left[token[q]] > deadline[q]
      BY <2>1 DEF Leased
    <3>3. left'[token[q]] = left[token[q]] - 1 /\ deadline'[q] = deadline[q] - 1
      BY <3>1, <3>2 DEF Budget!Tick, Budget!Less, Budget!TypeOK
    <3> QED BY <3>1, <3>2, <3>3
  <2> QED BY <1>4, <2>1 DEF Budget!Tick, Leased
<1> QED BY <1>1, <1>2, <1>3, <1>5, <1>6

\* A new day makes the whole limit available.
LEMMA NewDayKeeps ==
  ASSUME Budget!BudgetConstants, BudgetInv, Budget!NewDay
  PROVE  BudgetInv'
<1> USE DEF BudgetInv
<1>1. Budget!TypeOK'
  BY DEF Budget!NewDay, Budget!TypeOK, Budget!Capability, Budget!BudgetConstants
<1>2. Funded'
  BY DEF Budget!NewDay, Funded, Budget!TotalUsed, Budget!Over, Budget!BudgetConstants,
    Budget!Capability
<1>3. Counted' /\ Timely' /\ Leased'
  BY DEF Budget!NewDay, Counted, Budget!Held, HeldFor, Timely, Leased, Budget!Waits,
    Budget!Awaits
<1> QED BY <1>1, <1>2, <1>3

LEMMA BudgetStep ==
  ASSUME Budget!BudgetConstants, BudgetInv, [Budget!Next]_(Budget!vars)
  PROVE  BudgetInv'
<1>1. ASSUME NEW p \in Caller, NEW c \in Budget!Capability,
             \/ Budget!Begin(p, c) \/ Budget!Claim(p, c) \/ Budget!Denied(p, c)
             \/ Budget!Release(p, c) \/ Budget!Abandon(p, c) \/ Budget!GiveUp(p, c)
      PROVE  BudgetInv'
  <2>1. CASE Budget!Begin(p, c)   BY <2>1, BeginKeeps
  <2>2. CASE Budget!Claim(p, c)   BY <2>2, ClaimKeeps
  <2>3. CASE Budget!Denied(p, c)  BY <2>3, LeaveKeeps DEF Budget!Denied, BudgetInv, Budget!TypeOK
  <2>4. CASE Budget!Release(p, c) \/ Budget!Abandon(p, c) BY <2>4, ReleaseKeeps
  <2>5. CASE Budget!GiveUp(p, c)
    <3>1. threads' \in 0 .. MaxThreads
      BY <2>5 DEF Budget!GiveUp, Budget!LeftToThread, BudgetInv, Budget!TypeOK,
        Budget!BudgetConstants
    <3> QED BY <2>5, <3>1, LeaveKeeps DEF Budget!GiveUp
  <2> QED BY <1>1, <2>1, <2>2, <2>3, <2>4, <2>5
<1>2. CASE Budget!Tick   BY <1>2, TickKeeps
<1>3. CASE Budget!NewDay BY <1>3, NewDayKeeps
<1>4. CASE Budget!ThreadEnds BY <1>4, ThreadEndsKeeps
<1>5. CASE UNCHANGED Budget!vars
  <2>1. Budget!TypeOK' /\ Funded'
    BY <1>5 DEF Budget!vars, BudgetInv, Budget!TypeOK, Funded, Budget!TotalUsed, Budget!Over
  <2>2. Counted'
    BY <1>5 DEF Budget!vars, BudgetInv, Counted, Budget!Held, HeldFor
  <2>3. Timely' /\ Leased'
    BY <1>5 DEF Budget!vars, BudgetInv, Timely, Leased, Budget!Waits, Budget!Awaits
  <2> QED BY <2>1, <2>2, <2>3 DEF BudgetInv
<1> QED BY <1>1, <1>2, <1>3, <1>4, <1>5 DEF Budget!Next

-----------------------------------------------------------------------------
(* The invariant holds in every state a behaviour reaches. *)
THEOREM BudgetInvariant ==
  ASSUME Budget!BudgetConstants
  PROVE  Budget!Spec => []BudgetInv
<1>1. Budget!Init => BudgetInv
  BY BudgetInit
<1>2. BudgetInv /\ [Budget!Next]_(Budget!vars) => BudgetInv'
  BY BudgetStep
<1> QED BY <1>1, <1>2, PTL DEF Budget!Spec

(* What is reserved for realtime quotes and for the bars of the day is left *)
(* for them, however much the backfills and backtests ask for; and the      *)
(* requests that are awaited never exceed the limits of the source and of   *)
(* their capabilities, whoever dies with a lease.  Of the threads nobody    *)
(* awaits it says nothing: they come on top.                                *)
THEOREM BudgetKept ==
  ASSUME Budget!BudgetConstants
  PROVE  Budget!Spec => []BudgetSound
<1>1. BudgetInv => BudgetSound
  BY FundedReserves, LeasesCoverAwaited DEF BudgetInv, BudgetSound, Budget!BudgetSound
<1> QED BY <1>1, BudgetInvariant, PTL

-----------------------------------------------------------------------------
(***************************************************************************)
(* The runners.  Whatever they and the administrators do to the table is a *)
(* transaction of PostgresJobs, so its invariant holds here too.  A lease  *)
(* once lost is never alive again under its token (Kept), and no two       *)
(* runners work under one token (OwnTokens): so the position a holder has  *)
(* reached is the one it has saved, and a result that counts was earned    *)
(* (Earned).                                                               *)
(***************************************************************************)

Works(w) == runner[w].pc \in {"handle", "commit"}
Resting == AtStart.job

LoopState == [pc : PC, job : Job \cup {Resting}, token : Nat, beating : BOOLEAN,
              done : 0 .. Steps, result : Result]
RunnerTyped ==
  /\ runner \in [Runner -> LoopState]
  /\ \A w \in Runner : Works(w) => runner[w].job \in Job /\ runner[w].token <= issued
RequestsTyped ==
  request \in [Admin -> {NoRequest} \cup
                [sent : {TRUE}, job : Job, action : Action, audited : BOOLEAN, seen : Row]]

OwnTokens ==
  \A v, w \in Runner : Works(v) /\ Works(w) /\ runner[v].token = runner[w].token => v = w
Earned ==
  \A w \in Runner : runner[w].pc = "commit" /\ Holds(w) /\ runner[w].result.success
    => runner[w].done = Steps
\* What an administrator has read is a row as it was.
SeenBefore ==
  \A a \in Admin : request[a].sent =>
    /\ job[request[a].job].status # "ABSENT"
    /\ request[a].seen.version <= job[request[a].job].version

RunnerInv ==
  /\ TableInv /\ RunnerTyped /\ RequestsTyped
  /\ OwnTokens /\ Earned /\ SeenBefore
  /\ RunnerSound

-----------------------------------------------------------------------------
(* Rows.  What everything but a report and a completion does to a row.      *)
Kept(r, s) ==
  /\ \A t \in 0 .. issued : Active(s, t) => Active(r, t) /\ s.checkpoint = r.checkpoint
  /\ s.status \in {"SUCCEEDED", "PARTIAL"} =>
       s.status = r.status /\ s.checkpoint = r.checkpoint
  /\ s.status = "ABSENT" => r.status = "ABSENT"

LEMMA FinishedKept ==
  ASSUME NEW r, r \in Row, NEW status \in {"PAUSED", "CANCELED", "FAILED"}
  PROVE  LET s == Finished(r, status) IN
         s.status = status /\ s.checkpoint = r.checkpoint
BY DEF Finished, Row

LEMMA StoppedKept ==
  ASSUME NEW r, NEW s, s.status \notin {"RUNNING", "SUCCEEDED", "PARTIAL", "ABSENT"}
  PROVE  Kept(r, s)
BY DEF Kept, Active

LEMMA ClaimedKept ==
  ASSUME NEW r, RowInv(r), issued \in Nat
  PROVE  Kept(r, Claimed(r, issued + 1))
<1>1. /\ Claimed(r, issued + 1).lease_token = issued + 1
      /\ Claimed(r, issued + 1).status = "RUNNING"
  BY DEF Claimed, RowInv, Row
<1>2. \A t \in 0 .. issued : t # issued + 1
  OBVIOUS
<1> QED BY <1>1, <1>2 DEF Kept, Active

LEMMA RenewedKept ==
  ASSUME NEW r, RowInv(r), NEW lease, Active(r, lease)
  PROVE  Kept(r, Renewed(r))
BY DEF Kept, Active, Renewed, RowInv, Row

LEMMA TickedKept ==
  ASSUME NEW r, RowInv(r)
  PROVE  Kept(r, Ticked(r))
<1>1. /\ Ticked(r).status = r.status /\ Ticked(r).lease_token = r.lease_token
      /\ Ticked(r).checkpoint = r.checkpoint /\ Ticked(r).lease = CountDown(r.lease)
  BY DEF Ticked, RowInv, Row
<1>2. r.lease \in Nat /\ (CountDown(r.lease) > 0 => r.lease > 0)
  BY JobRowAssumption DEF CountDown, RowInv, Row
<1> QED BY <1>1, <1>2 DEF Kept, Active

LEMMA FailedKept ==
  ASSUME NEW r, RowInv(r), NEW result \in Result
  PROVE  Kept(r, Failed(r, result))
<1> DEFINE saved == [r EXCEPT !.summary = result.data]
<1>1. saved \in Row /\ saved.cancel_requested \in BOOLEAN /\ saved.pause_requested \in BOOLEAN
  BY DEF RowInv, Row, Result
<1> HIDE DEF saved
<1>2. Failed(r, result) \in {Finished(saved, "CANCELED"), Finished(saved, "PAUSED"),
                             Finished(saved, "FAILED"), Requeued(saved, RetryDelay)}
  BY <1>1 DEF Failed, HonourControl, saved
<1>3. Requeued(saved, RetryDelay).status = "PENDING"
  BY <1>1 DEF Requeued, Row
<1> QED BY <1>1, <1>2, <1>3, FinishedKept, StoppedKept

LEMMA RecoveredKept ==
  ASSUME NEW r, RowInv(r)
  PROVE  Kept(r, Recovered(r))
<1> DEFINE more == [r EXCEPT !.recovery_count = @ + 1,
                             !.max_attempts = AtLeast(@, r.attempt_count + 1)]
<1>1. r \in Row /\ r.cancel_requested \in BOOLEAN /\ r.pause_requested \in BOOLEAN
  BY DEF RowInv, Row
<1>2. Recovered(r) \in {Finished(r, "CANCELED"), Finished(r, "PAUSED"),
                        Finished(r, "FAILED"), Requeued(more, 0)}
  BY <1>1 DEF Recovered, HonourControl
<1>3. Requeued(more, 0).status = "PENDING"
  BY <1>1 DEF Requeued, Row
<1> HIDE DEF more
<1> QED BY <1>1, <1>2, <1>3, FinishedKept, StoppedKept

LEMMA CommandedKept ==
  ASSUME NEW r, RowInv(r), NEW action \in Action, Allowed(r, action)
  PROVE  Kept(r, Commanded(r, action))
<1> DEFINE s == Commanded(r, action)
<1>1. r \in Row
  BY DEF RowInv
<1>2. CASE action = "pause"
  <2>1. s = [PauseCommand(r) EXCEPT !.version = @ + 1]
    BY <1>2 DEF Commanded
  <2>2. CASE r.status = "PENDING"
    <3>1. s.status = "PAUSED"
      BY <1>1, <2>1, <2>2 DEF PauseCommand, Row
    <3> QED BY <3>1, StoppedKept
  <2>3. CASE r.status = "RUNNING"
    <3>1. /\ s.status = r.status /\ s.lease_token = r.lease_token /\ s.lease = r.lease
          /\ s.checkpoint = r.checkpoint
      BY <1>1, <2>1, <2>3 DEF PauseCommand, Row
    <3> QED BY <3>1 DEF Kept, Active
  <2> QED BY <1>2, <2>2, <2>3 DEF Allowed
<1>3. CASE action = "cancel"
  <2>1. s = [CancelCommand(r) EXCEPT !.version = @ + 1]
    BY <1>3 DEF Commanded
  <2>2. CASE r.status # "RUNNING"
    <3>1. s.status = "CANCELED"
      BY <1>1, <2>1, <2>2 DEF CancelCommand, Finished, Row
    <3> QED BY <3>1, StoppedKept
  <2>3. CASE r.status = "RUNNING"
    <3>1. /\ s.status = r.status /\ s.lease_token = r.lease_token /\ s.lease = r.lease
          /\ s.checkpoint = r.checkpoint
      BY <1>1, <2>1, <2>3 DEF CancelCommand, Row
    <3> QED BY <3>1 DEF Kept, Active
  <2> QED BY <2>2, <2>3
<1>4. CASE action = "resume"
  <2>1. s = [ResumeCommand(r) EXCEPT !.version = @ + 1]
    BY <1>4 DEF Commanded
  <2>2. s.status = "PENDING"
    BY <1>1, <2>1 DEF ResumeCommand, Row
  <2> QED BY <2>2, StoppedKept
<1>5. CASE action = "retry"
  <2>1. s = [RetryCommand(r) EXCEPT !.version = @ + 1]
    BY <1>5 DEF Commanded
  <2>2. s.status = "PENDING"
    BY <1>1, <2>1 DEF RetryCommand, Row
  <2> QED BY <2>2, StoppedKept
<1> QED BY <1>2, <1>3, <1>4, <1>5 DEF Action

\* A report saves the position and stops when it was asked to.
LEMMA ReportedRow ==
  ASSUME NEW r, RowInv(r), r.status = "RUNNING", NEW position \in Checkpoint,
         NEW pause \in BOOLEAN
  PROVE  LET s == Reported(r, position, pause) IN
         /\ s.checkpoint = position
         /\ s.status \in {"RUNNING", "PAUSED", "CANCELED"}
         /\ s.lease_token \in {r.lease_token, NoToken}
         /\ pause => s.status # "RUNNING"
<1> DEFINE asked == r.pause_requested \/ pause
           saved == [r EXCEPT !.checkpoint = position, !.lease = LeaseDuration,
                              !.pause_requested = asked, !.version = @ + 1]
           s == Reported(r, position, pause)
<1>1. r \in Row /\ r.version + 1 \in Nat /\ asked \in BOOLEAN /\ (pause => asked)
  BY DEF RowInv, Row
<1>2. s = HonourControl(saved, saved)
  BY DEF Reported
<1> HIDE DEF asked
<1>3. saved \in Row
  BY <1>1, Timers DEF Row
<1>4. /\ saved.checkpoint = position /\ saved.status = "RUNNING"
      /\ saved.lease_token = r.lease_token /\ saved.pause_requested = asked
  BY <1>1 DEF Row
<1> HIDE DEF saved, s
<1>5. \/ s = Finished(saved, "CANCELED") \/ s = Finished(saved, "PAUSED")
      \/ s = saved /\ ~saved.pause_requested
  BY <1>2 DEF HonourControl
<1>6. \A status \in {"CANCELED", "PAUSED"} :
        /\ Finished(saved, status).status = status
        /\ Finished(saved, status).checkpoint = saved.checkpoint
        /\ Finished(saved, status).lease_token = NoToken
  BY <1>3 DEF Finished, Row
<1>7. /\ s.checkpoint = position /\ s.status \in {"RUNNING", "PAUSED", "CANCELED"}
      /\ s.lease_token \in {r.lease_token, NoToken} /\ (pause => s.status # "RUNNING")
  BY <1>1, <1>4, <1>5, <1>6
<1> QED BY <1>7 DEF s

\* A completion ends the job where it stands.
LEMMA CompletedRow ==
  ASSUME NEW r, RowInv(r), NEW result \in Result
  PROVE  LET s == Completed(r, result) IN
         s.checkpoint = r.checkpoint /\ s.status \notin {"RUNNING", "ABSENT"}
<1> DEFINE saved == [r EXCEPT !.summary = result.data]
           s == Completed(r, result)
           status == IF result.partial THEN "PARTIAL" ELSE "SUCCEEDED"
<1>1. /\ saved \in Row /\ saved.checkpoint = r.checkpoint
      /\ saved.cancel_requested \in BOOLEAN /\ saved.pause_requested \in BOOLEAN
  BY DEF RowInv, Row, Result
<1>2. status \in {"PARTIAL", "SUCCEEDED"}
  OBVIOUS
<1> HIDE DEF saved, status
<1>3. s = HonourControl(saved, Finished(saved, status))
  BY DEF Completed, saved, status
<1>4. \/ s = Finished(saved, "CANCELED") \/ s = Finished(saved, "PAUSED")
      \/ s = Finished(saved, status)
  BY <1>1, <1>3 DEF HonourControl
<1>5. \A end \in {"CANCELED", "PAUSED", "PARTIAL", "SUCCEEDED"} :
        Finished(saved, end).status = end /\ Finished(saved, end).checkpoint = saved.checkpoint
  BY <1>1 DEF Finished, Row
<1> QED BY <1>1, <1>2, <1>4, <1>5
-----------------------------------------------------------------------------
(* Steps.  What the administrators have seen stays behind the rows.         *)
LEMMA SentTyped ==
  ASSUME RequestsTyped, NEW a \in Admin, request[a].sent
  PROVE  /\ request[a].job \in Job /\ request[a].action \in Action
         /\ request[a].audited \in BOOLEAN /\ request[a].seen \in Row
<1>1. request[a] \in {NoRequest} \cup
        [sent : {TRUE}, job : Job, action : Action, audited : BOOLEAN, seen : Row]
  BY DEF RequestsTyped
<1>2. request[a] # NoRequest
  BY DEF NoRequest
<1> HIDE DEF NoRequest
<1> QED BY <1>1, <1>2

LEMMA SeenStays ==
  ASSUME RunnerInv, Transaction \/ UNCHANGED vars,
         \A j \in Job : job'[j].status = "ABSENT" => job[j].status = "ABSENT"
  PROVE  /\ TableInv'
         /\ \A a \in Admin : request[a].sent =>
              /\ job'[request[a].job].status # "ABSENT"
              /\ request[a].seen.version <= job'[request[a].job].version
              /\ job'[request[a].job].version = request[a].seen.version
                   => Visible(job'[request[a].job]) = request[a].seen
<1>1. TableInv' /\ VersionStep
  BY TableStep DEF RunnerInv
<1>2. ASSUME NEW a \in Admin, request[a].sent
      PROVE  /\ job'[request[a].job].status # "ABSENT"
             /\ request[a].seen.version <= job'[request[a].job].version
             /\ job'[request[a].job].version = request[a].seen.version
                  => Visible(job'[request[a].job]) = request[a].seen
  <2> DEFINE r == job[request[a].job]  s == job'[request[a].job]  seen == request[a].seen
  <2>1. request[a].job \in Job /\ seen \in Row
    BY <1>2, SentTyped DEF RunnerInv
  <2>2. r.version \in Nat /\ s.version \in Nat /\ seen.version \in Nat /\ r \in Row /\ s \in Row
    BY <1>1, <2>1 DEF RunnerInv, TableInv, Row
  <2>3. r.status # "ABSENT" /\ s.status # "ABSENT" /\ seen.version <= r.version
        /\ (r.version = seen.version => Visible(r) = seen)
    BY <1>2, <2>1 DEF RunnerInv, SeenBefore, RunnerSound, VersionIdentifiesState
  <2>4. Visible(s) = Visible(r) \/ s.version > r.version
    BY <1>1, <2>1, <2>3 DEF VersionStep
  <2>5. Visible(s).version = s.version /\ Visible(r).version = r.version
    BY <2>2 DEF Visible, Row
  <2> HIDE DEF r, s, seen
  <2>6. s.status # "ABSENT" /\ seen.version <= s.version
        /\ (s.version = seen.version => Visible(s) = seen)
    BY <2>2, <2>3, <2>4, <2>5
  <2> QED BY <2>6 DEF r, s, seen
<1> QED BY <1>1, <1>2

LEMMA SeenKept ==
  ASSUME RunnerInv, Transaction \/ UNCHANGED vars, UNCHANGED request,
         \A j \in Job : job'[j].status = "ABSENT" => job[j].status = "ABSENT"
  PROVE  TableInv' /\ RequestsTyped' /\ SeenBefore' /\ VersionIdentifiesState'
BY SeenStays DEF RunnerInv, RequestsTyped, SeenBefore, VersionIdentifiesState

\* Nobody but its holder moves a job on: what a runner believes while its lease
\* counts was so before.
OthersKept(w) ==
  \A v \in Runner \ {w} : Works(v) /\ Active(job'[runner[v].job], runner[v].token) =>
    /\ Active(job[runner[v].job], runner[v].token)
    /\ job'[runner[v].job].checkpoint = job[runner[v].job].checkpoint

\* What must be true of the job a runner works on, once it is at `row`.
Stands(w, row) ==
  row.pc \in {"handle", "commit"} =>
    /\ row.job \in Job /\ row.token <= issued'
    /\ \A v \in Runner \ {w} : Works(v) => runner[v].token # row.token
    /\ Active(job'[row.job], row.token) =>
         /\ row.done = job'[row.job].checkpoint
         /\ row.pc = "commit" /\ row.result.success => row.done = Steps

LEMMA KeptOthers ==
  ASSUME RunnerInv, \A j \in Job : Kept(job[j], job'[j])
  PROVE  /\ \A v \in Runner : Works(v) /\ Active(job'[runner[v].job], runner[v].token) =>
              /\ Active(job[runner[v].job], runner[v].token)
              /\ job'[runner[v].job].checkpoint = job[runner[v].job].checkpoint
         /\ SuccessIsComplete'
<1>1. \A v \in Runner : Works(v) => runner[v].job \in Job /\ runner[v].token \in 0 .. issued
  BY DEF RunnerInv, RunnerTyped, TableInv, LoopState, Works
<1>2. SuccessIsComplete'
  BY DEF Kept, RunnerInv, RunnerSound, SuccessIsComplete
<1> QED BY <1>1, <1>2 DEF Kept

\* One runner moves, with or without a transaction.
LEMMA OneMoved ==
  ASSUME RunnerInv, Transaction \/ UNCHANGED vars, UNCHANGED request, NEW w \in Runner,
         NEW row \in LoopState, runner' = [runner EXCEPT ![w] = row],
         issued' >= issued, OthersKept(w), SuccessIsComplete',
         \A j \in Job : job'[j].status = "ABSENT" => job[j].status = "ABSENT", Stands(w, row)
  PROVE  RunnerInv'
<1>1. TableInv' /\ RequestsTyped' /\ SeenBefore' /\ VersionIdentifiesState'
  BY SeenKept
<1>2. /\ runner'[w] = row /\ \A v \in Runner \ {w} : runner'[v] = runner[v]
  BY DEF RunnerInv, RunnerTyped
<1>3. issued \in Nat /\ issued' \in Nat
  BY <1>1 DEF RunnerInv, TableInv
<1>4. RunnerTyped'
  <2>1. \A v \in Runner \ {w} : Works(v) => runner[v].token \in Nat /\ runner[v].token <= issued'
    BY <1>3 DEF RunnerInv, RunnerTyped, LoopState, Works
  <2> QED BY <1>2, <2>1 DEF RunnerInv, RunnerTyped, Works, Stands
<1>5. OwnTokens'
  BY <1>2 DEF RunnerInv, OwnTokens, Works, Stands
<1>6. Earned'
  BY <1>2 DEF RunnerInv, Earned, Holds, Works, OthersKept, Stands
<1>7. HolderInStep'
  BY <1>2 DEF RunnerInv, RunnerSound, HolderInStep, Holds, Works, OthersKept, Stands
<1> QED BY <1>1, <1>4, <1>5, <1>6, <1>7 DEF RunnerInv, RunnerSound

\* No runner moves.
LEMMA RunnersStay ==
  ASSUME RunnerInv, TableInv', UNCHANGED runner, issued' >= issued,
         \A j \in Job : Kept(job[j], job'[j])
  PROVE  RunnerTyped' /\ OwnTokens' /\ Earned' /\ HolderInStep' /\ SuccessIsComplete'
<1>1. /\ \A v \in Runner : Works(v) /\ Active(job'[runner[v].job], runner[v].token) =>
           /\ Active(job[runner[v].job], runner[v].token)
           /\ job'[runner[v].job].checkpoint = job[runner[v].job].checkpoint
      /\ SuccessIsComplete'
  BY KeptOthers
<1>2. issued \in Nat /\ issued' \in Nat
  BY DEF RunnerInv, TableInv
<1>3. RunnerTyped'
  <2>1. \A v \in Runner : Works(v) => runner[v].token \in Nat /\ runner[v].token <= issued'
    BY <1>2 DEF RunnerInv, RunnerTyped, LoopState, Works
  <2> QED BY <2>1 DEF RunnerInv, RunnerTyped, Works
<1> QED BY <1>1, <1>3 DEF RunnerInv, RunnerSound, OwnTokens, Earned, HolderInStep, Holds, Works

LEMMA NoneMoved ==
  ASSUME RunnerInv, Transaction \/ UNCHANGED vars, UNCHANGED <<runner, request>>,
         issued' >= issued, \A j \in Job : Kept(job[j], job'[j])
  PROVE  RunnerInv'
<1>1. TableInv' /\ RequestsTyped' /\ SeenBefore' /\ VersionIdentifiesState'
  BY SeenKept DEF Kept
<1> QED BY <1>1, RunnersStay DEF RunnerInv, RunnerSound

-----------------------------------------------------------------------------
(* The actions.                                                             *)
LEMMA RowFacts ==
  ASSUME RunnerInv
  PROVE  /\ issued \in Nat /\ Steps \in Nat
         /\ \A j \in Job : RowInv(job[j])
         /\ \A w \in Runner : runner[w] \in LoopState
BY JobRunnerAssumption DEF RunnerInv, TableInv, RunnerTyped, LoopState

\* A runner that leaves its job alone, or was not at it.
LEMMA RunnerRests ==
  ASSUME RunnerInv, Transaction \/ UNCHANGED vars, issued' >= issued, UNCHANGED request,
         \A j \in Job : Kept(job[j], job'[j]),
         NEW w \in Runner, NEW row \in LoopState, row.pc \notin {"handle", "commit"},
         runner' = [runner EXCEPT ![w] = row]
  PROVE  RunnerInv'
<1>1. OthersKept(w) /\ SuccessIsComplete'
  BY KeptOthers DEF OthersKept
<1>2. \A j \in Job : job'[j].status = "ABSENT" => job[j].status = "ABSENT"
  BY DEF Kept
<1>3. Stands(w, row)
  BY DEF Stands
<1> QED BY <1>1, <1>2, <1>3, OneMoved

\* A runner that goes on with its job under its token.
LEMMA RunnerGoesOn ==
  ASSUME RunnerInv, Transaction \/ UNCHANGED vars, issued' = issued, UNCHANGED request,
         \A j \in Job : Kept(job[j], job'[j]),
         NEW w \in Runner, NEW row \in LoopState, runner[w].pc = "handle",
         row.pc \in {"handle", "commit"},
         row.job = runner[w].job, row.token = runner[w].token, row.done = runner[w].done,
         row.pc = "commit" /\ row.result.success => row.done = Steps,
         runner' = [runner EXCEPT ![w] = row]
  PROVE  RunnerInv'
<1>1. OthersKept(w) /\ SuccessIsComplete'
  BY KeptOthers DEF OthersKept
<1>2. \A j \in Job : job'[j].status = "ABSENT" => job[j].status = "ABSENT"
  BY DEF Kept
<1>3. Works(w) /\ row.job \in Job /\ row.token <= issued /\ issued \in Nat
  BY DEF Works, RunnerInv, RunnerTyped, TableInv
<1>4. \A v \in Runner \ {w} : Works(v) => runner[v].token # row.token
  BY <1>3 DEF RunnerInv, OwnTokens
<1>5. Active(job'[row.job], row.token) => row.done = job'[row.job].checkpoint
  BY <1>3, KeptOthers DEF RunnerInv, RunnerSound, HolderInStep, Holds
<1>6. Stands(w, row)
  BY <1>3, <1>4, <1>5 DEF Stands
<1>7. issued' >= issued
  BY <1>3
<1> QED BY <1>1, <1>2, <1>6, <1>7, OneMoved

LEMMA ClaimRun ==
  ASSUME RunnerInv, NEW w \in Runner, Claim(w)
  PROVE  RunnerInv'
<1>1. PICK j \in Handles[w] :
        /\ ClaimNext(j, Handles[w])
        /\ runner' = [runner EXCEPT ![w] =
             [pc |-> "handle", job |-> j, token |-> issued + 1, beating |-> TRUE,
              done |-> job[j].checkpoint, result |-> NoResult]]
  BY DEF Claim
<1> DEFINE row == [pc |-> "handle", job |-> j, token |-> issued + 1, beating |-> TRUE,
                   done |-> job[j].checkpoint, result |-> NoResult]
<1>2. Handles[w] \in SUBSET Job /\ j \in Job
  BY JobRunnerAssumption
<1>3. Transaction
  BY <1>1, <1>2 DEF Transaction
<1>4. issued \in Nat /\ RowInv(job[j]) /\ job \in [Job -> Row]
  BY <1>2 DEF RunnerInv, TableInv
<1>5. /\ job' = [job EXCEPT ![j] = Claimed(job[j], issued + 1)]
      /\ issued' = issued + 1 /\ UNCHANGED request
  BY <1>1 DEF ClaimNext, Claim
<1>6. \A k \in Job : Kept(job[k], job'[k])
  <2>1. Kept(job[j], Claimed(job[j], issued + 1))
    BY <1>4, ClaimedKept
  <2>2. \A k \in Job \ {j} : job'[k] = job[k]
    BY <1>4, <1>5
  <2> QED BY <1>2, <1>4, <1>5, <2>1, <2>2 DEF Kept
<1>7. OthersKept(w) /\ SuccessIsComplete'
  BY <1>6, KeptOthers DEF OthersKept
<1>8. job'[j].checkpoint = job[j].checkpoint /\ job[j].checkpoint \in 0 .. Steps
  BY <1>2, <1>4, <1>5, JobRunnerAssumption DEF Claimed, Row
<1>9. row \in LoopState
  BY <1>2, <1>4, <1>8, JobRowAssumption DEF LoopState, PC, NoResult, Result
<1>10. \A v \in Runner \ {w} : Works(v) => runner[v].token # row.token
  BY <1>4 DEF RunnerInv, RunnerTyped
<1>11. \A k \in Job : job'[k].status = "ABSENT" => job[k].status = "ABSENT"
  BY <1>6 DEF Kept
<1>12. /\ row.pc = "handle" /\ row.job = j /\ row.token = issued + 1
       /\ row.done = job[j].checkpoint
  OBVIOUS
<1>13. runner' = [runner EXCEPT ![w] = row]
  BY <1>1
<1> HIDE DEF row
<1>14. Stands(w, row)
  BY <1>2, <1>4, <1>5, <1>8, <1>10, <1>12 DEF Stands
<1>15. issued' >= issued
  BY <1>4, <1>5
<1> QED BY <1>3, <1>5, <1>7, <1>9, <1>11, <1>13, <1>14, <1>15, OneMoved

\* What the table may do without any runner finding its job changed.
LEMMA UntouchedKept ==
  ASSUME RunnerInv, UNCHANGED table
  PROVE  /\ UNCHANGED vars /\ issued' = issued /\ issued' >= issued
         /\ \A j \in Job : Kept(job[j], job'[j])
BY DEF table, vars, Kept, RunnerInv, TableInv

LEMMA RecoverRun ==
  ASSUME RunnerInv, NEW w \in Runner, Recover(w)
  PROVE  RunnerInv'
<1> DEFINE row == [runner[w] EXCEPT !.pc = "claim"]
<1>1. row \in LoopState /\ row.pc = "claim"
  BY RowFacts DEF LoopState, PC
<1>2. runner' = [runner EXCEPT ![w] = row] /\ UNCHANGED request
  BY DEF Recover, Goto
<1> HIDE DEF row
<1>3. CASE RecoverExpired(Job)
  <2>1. Transaction
    BY <1>3 DEF Transaction
  <2>2. PICK S \in Batches({j \in Job : Expired(job[j])}) :
          job' = [j \in Job |-> IF j \in S THEN Recovered(job[j]) ELSE job[j]]
    BY <1>3 DEF RecoverExpired
  <2>3. \A j \in Job : Kept(job[j], job'[j])
    <3>1. \A j \in Job : Kept(job[j], Recovered(job[j])) /\ Kept(job[j], job[j])
      BY RowFacts, RecoveredKept DEF Kept
    <3> QED BY <2>2, <3>1
  <2>4. issued' >= issued
    BY <1>3, RowFacts DEF RecoverExpired
  <2> QED BY <1>1, <1>2, <2>1, <2>3, <2>4, RunnerRests
<1>4. CASE UNCHANGED table
  BY <1>1, <1>2, <1>4, UntouchedKept, RunnerRests
<1> QED BY <1>3, <1>4 DEF Recover

\* Steps of a loop that touch nothing else: no work found, a commit that fails,
\* a crash, a restart.
LEMMA LoopRun ==
  ASSUME RunnerInv, NEW w \in Runner,
         NothingDue(w) \/ CommitError(w) \/ Crash(w) \/ Restart(w)
  PROVE  RunnerInv'
<1> DEFINE again == [runner[w] EXCEPT !.pc = "recover"]
           down == [AtStart EXCEPT !.pc = "down"]
<1>1. again \in LoopState /\ again.pc = "recover"
  BY RowFacts DEF LoopState, PC
<1>2. down \in LoopState /\ down.pc = "down"
  <2>1. NoResult \in Result
    BY JobRowAssumption DEF NoResult, Result
  <2>2. 0 \in 0 .. Steps
    BY RowFacts
  <2> QED BY <2>1, <2>2 DEF LoopState, AtStart, PC, Resting, NoToken
<1>3. UNCHANGED table /\ UNCHANGED request
  BY DEF NothingDue, CommitError, Crash, Restart
<1>4. \/ runner' = [runner EXCEPT ![w] = again]
      \/ runner' = [runner EXCEPT ![w] = down]
  BY DEF NothingDue, CommitError, Crash, Restart, Goto
<1> HIDE DEF again, down
<1> QED BY <1>1, <1>2, <1>3, <1>4, UntouchedKept, RunnerRests

LEMMA HeartbeatRun ==
  ASSUME RunnerInv, NEW w \in Runner, Heartbeat(w)
  PROVE  RunnerInv'
<1> DEFINE r == runner[w]  quiet == [r EXCEPT !.beating = FALSE]
<1>1. r.pc = "handle" /\ Works(w) /\ UNCHANGED request
  BY DEF Heartbeat, Works
<1>2. r \in LoopState /\ r.job \in Job /\ r.token \in Nat /\ r.token <= issued /\ issued \in Nat
  BY <1>1, RowFacts DEF RunnerInv, RunnerTyped, LoopState
<1>3. CASE Active(job[r.job], r.token)
  <2>1. RenewLease(r.job, r.token) /\ UNCHANGED runner
    BY <1>3 DEF Heartbeat
  <2>2. r.token \in 1 .. issued
    BY <1>2, <1>3, RowFacts, ActiveRow DEF NoToken
  <2>3. Transaction
    BY <1>2, <2>1, <2>2 DEF Transaction
  <2>4. \A j \in Job : Kept(job[j], job'[j])
    <3>1. Kept(job[r.job], Renewed(job[r.job])) /\ \A j \in Job : Kept(job[j], job[j])
      BY <1>2, <1>3, RowFacts, RenewedKept DEF Kept
    <3>2. \A j \in Job : job'[j] = IF j = r.job THEN Renewed(job[r.job]) ELSE job[j]
      BY <1>2, <2>1 DEF RenewLease, RunnerInv, TableInv
    <3> QED BY <3>1, <3>2
  <2>5. issued' >= issued
    BY <1>2, <2>1 DEF RenewLease
  <2> QED BY <1>1, <2>1, <2>3, <2>4, <2>5, NoneMoved
<1>4. CASE ~Active(job[r.job], r.token)
  <2>1. UNCHANGED table /\ runner' = [runner EXCEPT ![w] = quiet]
    BY <1>4 DEF Heartbeat
  <2>2. /\ quiet \in LoopState /\ quiet.pc = "handle" /\ quiet.job = r.job
        /\ quiet.token = r.token /\ quiet.done = r.done
    BY <1>1, <1>2 DEF LoopState
  <2> HIDE DEF quiet
  <2> QED BY <1>1, <2>1, <2>2, UntouchedKept, RunnerGoesOn
<1> QED BY <1>3, <1>4

LEMMA ReturnRun ==
  ASSUME RunnerInv, NEW w \in Runner, Return(w)
  PROVE  RunnerInv'
<1> DEFINE r == runner[w]
<1>1. PICK result \in {Outcome(FALSE, FALSE, FALSE), Outcome(FALSE, FALSE, TRUE)}
                   \cup IF r.done = Steps
                        THEN {Outcome(TRUE, FALSE, FALSE), Outcome(TRUE, TRUE, FALSE)}
                        ELSE {} :
        Leave(w, r.done, result)
  BY DEF Return
<1> DEFINE row == [r EXCEPT !.pc = "commit", !.beating = FALSE, !.done = r.done,
                            !.result = result]
<1>2. result \in Result /\ (result.success => r.done = Steps)
  <2>1. \A success, partial, retryable \in BOOLEAN :
          /\ Outcome(success, partial, retryable) \in Result
          /\ Outcome(success, partial, retryable).success = success
    BY JobRowAssumption DEF Outcome, Result
  <2>2. Outcome(FALSE, FALSE, FALSE).success = FALSE /\ Outcome(FALSE, FALSE, TRUE).success = FALSE
    BY <2>1
  <2> QED BY <1>1, <2>1, <2>2
<1>3. r \in LoopState /\ r.pc = "handle" /\ UNCHANGED table /\ UNCHANGED request
  BY RowFacts DEF Return
<1>4. row \in LoopState
  BY <1>2, <1>3 DEF LoopState, PC
<1>5. /\ row.pc = "commit" /\ row.job = r.job /\ row.token = r.token /\ row.done = r.done
      /\ row.result = result
  BY <1>3 DEF LoopState
<1>6. runner' = [runner EXCEPT ![w] = row]
  BY <1>1, <1>3 DEF Leave, LoopState
<1> HIDE DEF row
<1> QED BY <1>2, <1>3, <1>4, <1>5, <1>6, UntouchedKept, RunnerGoesOn

LEMMA CommitRun ==
  ASSUME RunnerInv, NEW w \in Runner, Commit(w)
  PROVE  RunnerInv'
<1> DEFINE r == runner[w]  row == [r EXCEPT !.pc = "recover"]
<1>1. /\ r \in LoopState /\ r.pc = "commit" /\ Works(w) /\ UNCHANGED request
      /\ runner' = [runner EXCEPT ![w] = row]
  BY RowFacts DEF Commit, Works, Goto
<1>2. row \in LoopState /\ row.pc = "recover"
  BY <1>1 DEF LoopState, PC
<1>3. /\ r.job \in Job /\ r.token \in Nat /\ r.token <= issued /\ issued \in Nat
      /\ r.result \in Result /\ r.result.success \in BOOLEAN
  BY <1>1, RowFacts DEF RunnerInv, RunnerTyped, LoopState, Result
<1> HIDE DEF row
<1>4. CASE UNCHANGED table
  BY <1>1, <1>2, <1>4, UntouchedKept, RunnerRests
<1>5. ASSUME Active(job[r.job], r.token)
      PROVE  r.token \in 1 .. issued
  BY <1>3, <1>5, RowFacts, ActiveRow DEF NoToken
<1>6. CASE Active(job[r.job], r.token) /\ ~r.result.success /\ Fail(r.job, r.token, r.result)
  <2>1. Transaction
    BY <1>3, <1>5, <1>6 DEF Transaction
  <2>2. Kept(job[r.job], Failed(job[r.job], r.result)) /\ \A j \in Job : Kept(job[j], job[j])
    BY <1>3, RowFacts, FailedKept DEF Kept
  <2>3. \A j \in Job : job'[j] = IF j = r.job THEN Failed(job[r.job], r.result) ELSE job[j]
    BY <1>3, <1>6 DEF Fail, RunnerInv, TableInv
  <2>4. issued' >= issued
    BY <1>3, <1>6 DEF Fail
  <2> QED BY <1>1, <1>2, <2>1, <2>2, <2>3, <2>4, RunnerRests
<1>7. CASE Active(job[r.job], r.token) /\ r.result.success
           /\ Complete(r.job, r.token, r.result)
  <2>1. Transaction
    BY <1>3, <1>5, <1>7 DEF Transaction
  <2> DEFINE s == Completed(job[r.job], r.result)
  <2>2. s.checkpoint = job[r.job].checkpoint /\ s.status \notin {"RUNNING", "ABSENT"}
    BY <1>3, RowFacts, CompletedRow
  <2> HIDE DEF s
  <2>3. \A j \in Job : job'[j] = IF j = r.job THEN s ELSE job[j]
    BY <1>3, <1>7 DEF Complete, RunnerInv, TableInv, s
  <2>4. issued' >= issued
    BY <1>3, <1>7 DEF Complete
  <2>5. Holds(w)
    BY <1>1, <1>7 DEF Holds
  <2>6. job[r.job].checkpoint = Steps
    BY <1>1, <1>7, <2>5 DEF RunnerInv, RunnerSound, HolderInStep, Earned
  <2>7. SuccessIsComplete'
    BY <2>2, <2>3, <2>6 DEF RunnerInv, RunnerSound, SuccessIsComplete
  <2>8. OthersKept(w)
    BY <2>2, <2>3 DEF OthersKept, Active, RunnerInv, RunnerTyped
  <2>9. \A j \in Job : job'[j].status = "ABSENT" => job[j].status = "ABSENT"
    BY <2>2, <2>3
  <2>10. Stands(w, row)
    BY <1>2 DEF Stands
  <2> QED BY <1>1, <1>2, <2>1, <2>4, <2>7, <2>8, <2>9, <2>10, OneMoved
<1> QED BY <1>3, <1>4, <1>6, <1>7 DEF Commit

LEMMA SafePointRun ==
  ASSUME RunnerInv, NEW w \in Runner, NEW pause \in BOOLEAN, SafePoint(w, pause)
  PROVE  RunnerInv'
<1> DEFINE r == runner[w]  next == r.done + 1
           live == Active(job[r.job], r.token)
           s == Reported(job[r.job], next, pause)
           onward == [r EXCEPT !.done = next]
           leaving == [r EXCEPT !.pc = "commit", !.beating = FALSE, !.done = next,
                                !.result = NoResult]
<1>1. r \in LoopState /\ r.pc = "handle" /\ Works(w) /\ r.done < Steps /\ UNCHANGED request
  BY RowFacts DEF SafePoint, Works
<1>2. /\ r.job \in Job /\ r.token \in Nat /\ r.token <= issued /\ issued \in Nat
      /\ next \in 0 .. Steps /\ next \in Checkpoint
  BY <1>1, RowFacts, JobRunnerAssumption DEF RunnerInv, RunnerTyped, LoopState
<1>3. /\ onward \in LoopState /\ onward.pc = "handle" /\ onward.job = r.job
      /\ onward.token = r.token /\ onward.done = next
  BY <1>1, <1>2 DEF LoopState
<1>4. NoResult \in Result
  BY JobRowAssumption DEF NoResult, Result
<1>5. /\ leaving \in LoopState /\ leaving.pc = "commit" /\ leaving.job = r.job
      /\ leaving.token = r.token /\ leaving.done = next
  BY <1>1, <1>2, <1>4 DEF LoopState, PC
<1>6. \A v \in Runner \ {w} : Works(v) => runner[v].token # r.token
  BY <1>1 DEF RunnerInv, OwnTokens
<1>7. CASE live
  <2>1. ReportProgress(r.job, r.token, next, pause)
    BY <1>7 DEF SafePoint
  <2>2. \/ runner' = [runner EXCEPT ![w] = leaving] /\ (s.status \in {"PAUSED", "CANCELED"} \/ pause)
        \/ runner' = [runner EXCEPT ![w] = onward]
    BY <1>7 DEF SafePoint, Leave
  <2>3. r.token \in 1 .. issued /\ job[r.job].status = "RUNNING" /\ job[r.job].lease_token = r.token
    BY <1>2, <1>7, RowFacts, ActiveRow DEF NoToken
  <2>4. Transaction
    BY <1>2, <2>1, <2>3 DEF Transaction
  <2>5. /\ s.checkpoint = next /\ s.status \in {"RUNNING", "PAUSED", "CANCELED"}
        /\ s.lease_token \in {r.token, NoToken} /\ (pause => s.status # "RUNNING")
    BY <1>2, <2>3, RowFacts, ReportedRow
  <2>6. \A j \in Job : job'[j] = IF j = r.job THEN s ELSE job[j]
    BY <1>2, <2>1 DEF ReportProgress, RunnerInv, TableInv
  <2>7. issued' = issued
    BY <2>1 DEF ReportProgress
  <2> HIDE DEF s, leaving, onward, next
  <2>8. SuccessIsComplete'
    BY <2>5, <2>6 DEF RunnerInv, RunnerSound, SuccessIsComplete
  <2>9. OthersKept(w)
    <3> SUFFICES ASSUME NEW v \in Runner \ {w}, Works(v),
                        Active(job'[runner[v].job], runner[v].token)
                 PROVE  /\ Active(job[runner[v].job], runner[v].token)
                        /\ job'[runner[v].job].checkpoint = job[runner[v].job].checkpoint
      BY DEF OthersKept
    <3>1. runner[v].job \in Job /\ runner[v].token # r.token
      BY <1>6 DEF RunnerInv, RunnerTyped
    <3>2. CASE runner[v].job = r.job
      <4>1. s.lease_token = runner[v].token /\ s.status = "RUNNING"
        BY <2>6, <3>1, <3>2 DEF Active
      <4>2. s.lease_token = NoToken /\ RowInv(s)
        BY <1>2, <2>4, <2>5, <2>6, <3>1, <4>1, TableStep DEF RunnerInv, TableInv
      <4> QED BY <4>1, <4>2 DEF RowInv
    <3>3. CASE runner[v].job # r.job
      BY <2>6, <3>1, <3>3
    <3> QED BY <3>2, <3>3
  <2>10. \A j \in Job : job'[j].status = "ABSENT" => job[j].status = "ABSENT"
    BY <2>5, <2>6
  <2>11. ASSUME s.status \in {"PAUSED", "CANCELED"} \/ pause
         PROVE  Stands(w, leaving)
    <3>1. ~Active(job'[r.job], r.token)
      BY <1>2, <2>5, <2>6, <2>11 DEF Active
    <3> QED BY <1>2, <1>5, <1>6, <2>7, <3>1 DEF Stands
  <2>12. Stands(w, onward)
    BY <1>2, <1>3, <1>6, <2>5, <2>6, <2>7 DEF Stands
  <2>13. issued' >= issued
    BY <1>2, <2>7
  <2> QED BY <1>1, <1>3, <1>5, <2>2, <2>4, <2>8, <2>9, <2>10, <2>11, <2>12, <2>13, OneMoved
<1>8. CASE ~live
  <2>1. UNCHANGED table
    BY <1>8 DEF SafePoint
  <2>2. \/ runner' = [runner EXCEPT ![w] = leaving]
        \/ runner' = [runner EXCEPT ![w] = onward]
    BY <1>8 DEF SafePoint, Leave
  <2>3. /\ UNCHANGED vars /\ issued' = issued /\ issued' >= issued
        /\ \A j \in Job : Kept(job[j], job'[j])
    BY <2>1, UntouchedKept
  <2>4. OthersKept(w) /\ SuccessIsComplete'
    BY <2>3, KeptOthers DEF OthersKept
  <2>5. ~Active(job'[r.job], r.token)
    BY <1>8, <2>1 DEF table
  <2> HIDE DEF leaving, onward, next
  <2>6. Stands(w, leaving) /\ Stands(w, onward)
    BY <1>2, <1>3, <1>5, <1>6, <2>3, <2>5 DEF Stands
  <2>7. \A j \in Job : job'[j].status = "ABSENT" => job[j].status = "ABSENT"
    BY <2>3 DEF Kept
  <2> QED BY <1>1, <1>3, <1>5, <2>2, <2>3, <2>4, <2>6, <2>7, OneMoved
<1> QED BY <1>7, <1>8

LEMMA SubmitRun ==
  ASSUME RunnerInv, NEW j \in Job, Submit(j), UNCHANGED runnerVars
  PROVE  RunnerInv'
<1>1. Transaction
  BY DEF Transaction
<1>2. Kept(job[j], Submitted(job[j])) /\ \A k \in Job : Kept(job[k], job[k])
  <2>1. Submitted(job[j]).status = "PENDING"
    BY RowFacts DEF Submitted, RowInv, Row
  <2> QED BY <2>1, StoppedKept DEF Kept
<1>3. \A k \in Job : job'[k] = IF k = j THEN Submitted(job[j]) ELSE job[k]
  BY DEF Submit, RunnerInv, TableInv
<1>4. issued' >= issued /\ UNCHANGED <<runner, request>>
  BY RowFacts DEF Submit, runnerVars
<1> QED BY <1>1, <1>2, <1>3, <1>4, NoneMoved

LEMMA TickRun ==
  ASSUME RunnerInv, Tick, UNCHANGED runnerVars
  PROVE  RunnerInv'
<1>1. Transaction
  BY DEF Transaction
<1>2. \A j \in Job : Kept(job[j], job'[j])
  BY RowFacts, TickedKept DEF Tick
<1>3. issued' >= issued /\ UNCHANGED <<runner, request>>
  BY RowFacts DEF Tick, runnerVars
<1> QED BY <1>1, <1>2, <1>3, NoneMoved

\* A request is sent, with the row as it was read.
LEMMA SendRun ==
  ASSUME RunnerInv, NEW a \in Admin, NEW j \in Job, NEW action \in Action, Send(a, j, action)
  PROVE  RunnerInv'
<1> DEFINE sent == [sent |-> TRUE, job |-> j, action |-> action, audited |-> FALSE,
                    seen |-> Visible(job[j])]
<1>1. request' = [request EXCEPT ![a] = sent] /\ UNCHANGED table /\ UNCHANGED runner
      /\ job[j].status # "ABSENT"
  BY DEF Send
<1>2. job[j] \in Row /\ job[j].version \in Nat
  BY RowFacts DEF RowInv, Row
<1>3. Visible(job[j]) \in Row /\ Visible(job[j]).version = job[j].version
  BY <1>2, Timers DEF Visible, Row
<1>4. sent \in [sent : {TRUE}, job : Job, action : Action, audited : BOOLEAN, seen : Row]
  BY <1>3
<1>5. sent.job = j /\ sent.seen = Visible(job[j])
  OBVIOUS
<1> HIDE DEF sent
<1>6. RequestsTyped'
  BY <1>1, <1>4 DEF RunnerInv, RequestsTyped
<1>7. request'[a] = sent /\ \A b \in Admin \ {a} : request'[b] = request[b]
  BY <1>1 DEF RunnerInv, RequestsTyped
<1>8. SeenBefore' /\ VersionIdentifiesState'
  BY <1>1, <1>2, <1>3, <1>5, <1>7 DEF RunnerInv, RunnerSound, SeenBefore, VersionIdentifiesState,
     table
<1>9. TableInv' /\ RunnerTyped' /\ OwnTokens' /\ Earned' /\ HolderInStep' /\ SuccessIsComplete'
  <2>1. TableInv'
    BY <1>1, TableStep DEF RunnerInv, table, vars
  <2> QED BY <1>1, <2>1 DEF RunnerInv, RunnerTyped, RunnerSound, OwnTokens, Earned, HolderInStep,
            SuccessIsComplete, Works, Holds, table
<1> QED BY <1>6, <1>8, <1>9 DEF RunnerInv, RunnerSound

\* What becomes of a request does not matter to what it has seen.
LEMMA RequestsKept ==
  ASSUME RunnerInv, NEW a \in Admin, Deliver(a) \/ Forget(a)
  PROVE  RunnerInv'
<1> DEFINE q == request[a]  told == [q EXCEPT !.audited = TRUE]
<1>1. /\ q.sent /\ q.job \in Job /\ q.action \in Action /\ q.seen \in Row
      /\ UNCHANGED runner
  BY SentTyped DEF Deliver, Forget, RunnerInv
<1>2. q \in [sent : {TRUE}, job : Job, action : Action, audited : BOOLEAN, seen : Row]
  <2>1. q \in {NoRequest} \cup
          [sent : {TRUE}, job : Job, action : Action, audited : BOOLEAN, seen : Row]
    BY DEF RunnerInv, RequestsTyped
  <2>2. q # NoRequest
    BY <1>1 DEF NoRequest
  <2> HIDE DEF NoRequest, q
  <2> QED BY <2>1, <2>2
<1>3. /\ told \in [sent : {TRUE}, job : Job, action : Action, audited : BOOLEAN, seen : Row]
      /\ told.job = q.job /\ told.seen = q.seen /\ told.sent = q.sent
  BY <1>2
<1>4. ~NoRequest.sent
  BY DEF NoRequest
<1> HIDE DEF told, NoRequest
<1>5. ASSUME request' = [request EXCEPT ![a] = told] \/ request' = [request EXCEPT ![a] = NoRequest],
             Transaction \/ UNCHANGED vars, issued' >= issued,
             \A j \in Job : Kept(job[j], job'[j])
      PROVE  RunnerInv'
  <2>1. RequestsTyped'
    BY <1>3, <1>5 DEF RunnerInv, RequestsTyped
  <2>2. /\ request'[a] \in {told, NoRequest}
        /\ \A b \in Admin \ {a} : request'[b] = request[b]
    BY <1>5 DEF RunnerInv, RequestsTyped
  <2>3. /\ TableInv'
        /\ \A b \in Admin : request[b].sent =>
             /\ job'[request[b].job].status # "ABSENT"
             /\ request[b].seen.version <= job'[request[b].job].version
             /\ job'[request[b].job].version = request[b].seen.version
                  => Visible(job'[request[b].job]) = request[b].seen
    BY <1>5, SeenStays DEF Kept
  <2>4. SeenBefore' /\ VersionIdentifiesState'
    BY <1>1, <1>3, <1>4, <2>2, <2>3 DEF SeenBefore, VersionIdentifiesState
  <2> QED BY <1>1, <1>5, <2>1, <2>3, <2>4, RunnersStay DEF RunnerInv, RunnerSound
<1>6. CASE Forget(a)
  BY <1>5, <1>6, UntouchedKept DEF Forget
<1>7. CASE Deliver(a)
  <2>1. CASE UNCHANGED <<table, request>>
    BY <1>1, <2>1, UntouchedKept, NoneMoved
  <2>2. CASE /\ Allowed(job[q.job], q.action) /\ Command(q.job, q.action)
             /\ request' = [request EXCEPT ![a].audited = TRUE]
    <3>1. Transaction
      BY <1>1, <2>2 DEF Transaction
    <3>2. Kept(job[q.job], Commanded(job[q.job], q.action)) /\ \A j \in Job : Kept(job[j], job[j])
      BY <1>1, <2>2, RowFacts, CommandedKept DEF Kept
    <3>3. \A j \in Job : job'[j] = IF j = q.job THEN Commanded(job[q.job], q.action) ELSE job[j]
      BY <1>1, <2>2 DEF Command, RunnerInv, TableInv
    <3>4. issued' >= issued
      BY <2>2, RowFacts DEF Command
    <3>5. request' = [request EXCEPT ![a] = told]
      BY <2>2 DEF told
    <3> QED BY <1>5, <3>1, <3>2, <3>3, <3>4, <3>5
  <2> QED BY <1>7, <2>1, <2>2 DEF Deliver
<1> QED BY <1>6, <1>7

LEMMA RunnerStepKeeps ==
  ASSUME RunnerInv, RunnerNext
  PROVE  RunnerInv'
<1>1. ASSUME NEW w \in Runner, RunnerStep(w) \/ Disturbance(w)
      PROVE  RunnerInv'
  BY <1>1, RecoverRun, ClaimRun, LoopRun, SafePointRun, ReturnRun, CommitRun, HeartbeatRun
  DEF RunnerStep, Disturbance
<1>2. ASSUME NEW j \in Job, Submit(j) /\ UNCHANGED runnerVars
      PROVE  RunnerInv'
  BY <1>2, SubmitRun
<1>3. ASSUME NEW a \in Admin,
             \/ \E j \in Job, action \in Action : Send(a, j, action)
             \/ Deliver(a) \/ Forget(a)
      PROVE  RunnerInv'
  BY <1>3, SendRun, RequestsKept
<1>4. ASSUME Tick /\ UNCHANGED runnerVars
      PROVE  RunnerInv'
  BY <1>4, TickRun
<1> QED BY <1>1, <1>2, <1>3, <1>4 DEF RunnerNext

LEMMA RunnerStart ==
  ASSUME RunnerInit PROVE RunnerInv
<1>1. TableInv
  BY TableInit DEF RunnerInit
<1>2. \A w \in Runner : runner[w] = AtStart /\ runner[w].pc = "recover"
  BY DEF RunnerInit, AtStart
<1>3. AtStart \in LoopState
  <2>1. NoResult \in Result
    BY JobRowAssumption DEF NoResult, Result
  <2>2. 0 \in 0 .. Steps
    BY JobRunnerAssumption
  <2> QED BY <2>1, <2>2 DEF LoopState, AtStart, PC, Resting, NoToken
<1>4. RunnerTyped
  BY <1>2, <1>3 DEF RunnerTyped, RunnerInit, Works
<1>5. RequestsTyped /\ \A a \in Admin : ~request[a].sent
  BY DEF RunnerInit, RequestsTyped, NoRequest
<1>6. \A j \in Job : job[j].status = "ABSENT"
  BY DEF RunnerInit, Init, Absent
<1> QED BY <1>1, <1>2, <1>4, <1>5, <1>6 DEF RunnerInv, OwnTokens, Earned, SeenBefore, RunnerSound,
        HolderInStep, SuccessIsComplete, VersionIdentifiesState, Works, Holds

LEMMA RunnerStutters ==
  ASSUME RunnerInv, UNCHANGED allVars
  PROVE  RunnerInv'
<1>1. UNCHANGED table /\ UNCHANGED <<runner, request>>
  BY DEF allVars, table
<1> QED BY <1>1, UntouchedKept, NoneMoved

THEOREM RunnerInvariant == RunnerSpec => []RunnerInv
<1>1. RunnerInv /\ [RunnerNext]_allVars => RunnerInv'
  BY RunnerStepKeeps, RunnerStutters
<1> QED BY <1>1, RunnerStart, PTL DEF RunnerSpec

\* Whatever crashes, expires or overlaps: a runner whose lease counts has saved
\* all it has done, a job has succeeded only when its progress is complete, and
\* the version an administrator sends names the state the decision was made on.
THEOREM RunnersSound == RunnerSpec => []RunnerSound
<1>1. RunnerInv => RunnerSound
  BY DEF RunnerInv
<1> QED BY <1>1, RunnerInvariant, PTL

\* Every call that a runner or an administrator makes is one of the service's.
LEMMA CallsAreTransactions ==
  ASSUME RunnerInv, RunnerNext
  PROVE  Transaction \/ UNCHANGED vars
<1> USE DEF vars, table
<1>1. ASSUME NEW w \in Runner, Active(job[runner[w].job], runner[w].token), Works(w)
      PROVE  runner[w].job \in Job /\ runner[w].token \in 1 .. issued
  <2>1. runner[w].job \in Job /\ runner[w].token \in Nat /\ runner[w].token <= issued
    BY <1>1, RowFacts DEF RunnerInv, RunnerTyped, LoopState
  <2> QED BY <1>1, <2>1, RowFacts, ActiveRow DEF NoToken
<1>2. ASSUME NEW w \in Runner, Recover(w) \/ Claim(w)
      PROVE  Transaction \/ UNCHANGED vars
  <2>1. Handles[w] \in SUBSET Job
    BY JobRunnerAssumption
  <2> QED BY <1>2, <2>1 DEF Recover, Claim, Transaction
<1>3. ASSUME NEW w \in Runner, NEW pause \in BOOLEAN, SafePoint(w, pause)
      PROVE  Transaction \/ UNCHANGED vars
  <2>1. runner[w].pc = "handle" /\ runner[w].done < Steps /\ runner[w] \in LoopState
    BY <1>3, RowFacts DEF SafePoint
  <2>2. runner[w].done + 1 \in Checkpoint
    BY <2>1, RowFacts, JobRunnerAssumption DEF LoopState
  <2>3. CASE Active(job[runner[w].job], runner[w].token)
    BY <1>1, <1>3, <2>1, <2>2, <2>3 DEF SafePoint, Works, Transaction
  <2> QED BY <1>3, <2>3 DEF SafePoint
<1>4. ASSUME NEW w \in Runner, Commit(w) \/ Heartbeat(w)
      PROVE  Transaction \/ UNCHANGED vars
  <2>1. Works(w) /\ runner[w].result \in Result /\ runner[w].result.success \in BOOLEAN
    BY <1>4, RowFacts DEF Commit, Heartbeat, Works, LoopState, Result
  <2>2. CASE Active(job[runner[w].job], runner[w].token)
    BY <1>1, <1>4, <2>1, <2>2 DEF Commit, Heartbeat, Transaction
  <2>3. CASE ~Active(job[runner[w].job], runner[w].token)
    BY <1>4, <2>1, <2>3 DEF Commit, Heartbeat
  <2> QED BY <2>2, <2>3
<1>5. ASSUME NEW w \in Runner,
             NothingDue(w) \/ Return(w) \/ Restart(w) \/ CommitError(w) \/ Crash(w)
      PROVE  UNCHANGED vars
  BY <1>5 DEF NothingDue, Return, Restart, CommitError, Crash
<1>6. ASSUME NEW a \in Admin, Deliver(a)
      PROVE  Transaction \/ UNCHANGED vars
  <2>1. request[a].sent
    BY <1>6 DEF Deliver
  <2>2. request[a].job \in Job /\ request[a].action \in Action
    BY <2>1, SentTyped DEF RunnerInv
  <2> QED BY <1>6, <2>2 DEF Deliver, Transaction
<1>7. ASSUME NEW a \in Admin, (\E j \in Job, action \in Action : Send(a, j, action)) \/ Forget(a)
      PROVE  UNCHANGED vars
  BY <1>7 DEF Send, Forget
<1>8. ASSUME (\E j \in Job : Submit(j)) \/ Tick
      PROVE  Transaction
  BY <1>8 DEF Transaction
<1> QED BY <1>2, <1>3, <1>4, <1>5, <1>6, <1>7, <1>8 DEF RunnerNext, RunnerStep, Disturbance

\* What runners and administrators do together is what the service allows, so
\* its guarantees hold under them however long they run: the limits on attempts,
\* the leases, the writes and the life of a job.
THEOREM RunnersKeepQueue ==
  RunnerSpec => /\ [](TypeOK /\ AttemptLimitValid /\ LeaseWhileRunning)
                /\ WritesSound
                /\ ImplementsLifecycle
<1>1. RunnerInv => TypeOK /\ AttemptLimitValid /\ LeaseWhileRunning
  BY TableInvImplies DEF RunnerInv
<1>2. RunnerInv /\ [RunnerNext]_allVars =>
        TableInv /\ (Transaction \/ UNCHANGED vars)
  BY CallsAreTransactions DEF RunnerInv, allVars, vars
<1>3. TableInv /\ (Transaction \/ UNCHANGED vars) =>
        /\ [\A j \in Job : writer[j] <= writer'[j]]_vars
        /\ [\A j \in Job : \/ Visible(job'[j]) = Visible(job[j])
                           \/ job'[j].version > job[j].version
                           \/ job[j].status = "ABSENT"]_vars
  BY TableStep DEF WriterStep, VersionStep
<1>4. TableInv /\ (Transaction \/ UNCHANGED vars) => [LC!LifecycleNext]_LC!lifecycle
  BY RowsMove, MoveIsLifecycleNext
<1>5. RunnerInit => LC!LifecycleInit
  BY DEF RunnerInit, Init, LC!LifecycleInit, Absent, WantedOf
<1> QED BY <1>1, <1>2, <1>3, <1>4, <1>5, RunnerInvariant, PTL
        DEF RunnerSpec, WritesSound, LateWriterRefused, EveryChangeVersioned,
            ImplementsLifecycle, LC!Lifecycle
=============================================================================
