----------------------------- MODULE JobRunner ------------------------------
(***************************************************************************)
(* The background processes that work the queue (PostgresJobRunner of      *)
(* backend/src/long_invest/platform/jobs/postgres_runner.py) and the       *)
(* administrators who command it (JobAdminService, admin.py), over the     *)
(* table of PostgresJobs.  Several runners overlap: a process and its      *)
(* replacement, or two runners of one process.                             *)
(*                                                                         *)
(* The handler is the checkpointing kind the queue is made for: it works   *)
(* through Steps safe points, saves at each how far it has come, stops     *)
(* there when the answer is PAUSED or CANCELED, and takes no notice when   *)
(* the answer is that its lease is gone.                                   *)
(***************************************************************************)
EXTENDS PostgresJobs

CONSTANTS
  Runner,             \* the runners
  Handles,            \* Runner -> SUBSET Job: the job types it has handlers for
  Steps,              \* safe points of a handler
  Admin,              \* administrators, each with one request at a time
  MaxCrashes,         \* bound on crashes
  MaxCommands         \* bound on requests sent

ASSUME JobRunnerAssumption ==
  /\ Handles \in [Runner -> SUBSET Job]
  /\ \A j \in Job : \E w \in Runner : j \in Handles[w]
  /\ Steps \in Nat
  /\ Checkpoint = 0 .. Steps /\ NoCheckpoint = 0
  /\ MaxCrashes \in Nat /\ MaxCommands \in Nat

VARIABLES
  runner,       \* the loop of each runner and its handler's local state
  request,      \* the request of each administrator
  crashes,      \* crashes so far
  commands      \* requests sent so far

runnerVars == <<runner, request, crashes, commands>>
allVars == <<job, issued, writer, runner, request, crashes, commands>>
table == <<job, issued, writer>>

NoResult == [success |-> TRUE, partial |-> FALSE, retryable |-> FALSE,
             data |-> NoData]
Outcome(success, partial, retryable) ==
  [success |-> success, partial |-> partial, retryable |-> retryable,
   data |-> NoData]

\* Where run_once is: about to recover, about to claim, in the handler, about
\* to commit the result; or the process is down.
PC == {"recover", "claim", "handle", "commit", "down"}

RunnerState == [pc: PC, job: Job, token: Nat, beating: BOOLEAN,
                done: 0 .. Steps, result: Result]

AtStart == [pc |-> "recover", job |-> CHOOSE j \in Job : TRUE,
            token |-> NoToken, beating |-> FALSE, done |-> 0,
            result |-> NoResult]

NoRequest == [sent |-> FALSE]

RunnerInit ==
  /\ Init
  /\ runner = [w \in Runner |-> AtStart]
  /\ request = [a \in Admin |-> NoRequest]
  /\ crashes = 0
  /\ commands = 0

Goto(w, pc) == runner' = [runner EXCEPT ![w].pc = pc]

(***************************************************************************)
(* run_once                                                                *)
(***************************************************************************)
Recover(w) ==
  /\ runner[w].pc = "recover"
  /\ Goto(w, "claim")
  /\ IF \E j \in Job : Expired(job[j])
     THEN RecoverExpired(Job)
     ELSE UNCHANGED table
  /\ UNCHANGED <<request, crashes, commands>>

\* Faulty variant: work resumes one safe point too far.
ClaimBeyond(w) ==
  /\ runner[w].pc = "claim"
  /\ \E j \in Handles[w] :
       /\ ClaimNext(j, Handles[w])
       /\ runner' = [runner EXCEPT ![w] =
            [pc |-> "handle", job |-> j, token |-> issued + 1,
             beating |-> TRUE, done |-> job[j].checkpoint + 1,
             result |-> NoResult]]
  /\ UNCHANGED <<request, crashes, commands>>

Claim(w) ==
  /\ runner[w].pc = "claim"
  /\ \E j \in Handles[w] :
       /\ ClaimNext(j, Handles[w])
       /\ runner' = [runner EXCEPT ![w] =
            [pc |-> "handle", job |-> j, token |-> issued + 1,
             beating |-> TRUE, done |-> job[j].checkpoint,
             result |-> NoResult]]
  /\ UNCHANGED <<request, crashes, commands>>

NothingDue(w) ==
  /\ runner[w].pc = "claim"
  /\ First(Handles[w]) = {}
  /\ Goto(w, "recover")
  /\ UNCHANGED <<table, request, crashes, commands>>

\* Faulty variant: the token alone is checked, so a late heartbeat revives a
\* lease that has expired.
HeartbeatRevives(w) ==
  LET r == runner[w] IN
  /\ r.pc = "handle" /\ r.beating
  /\ job[r.job].lease_token = r.token
  /\ job' = [job EXCEPT ![r.job] = Renewed(@)]
  /\ UNCHANGED <<issued, writer, runnerVars>>

\* The heartbeat task gives up at the first renewal that is refused.  When it
\* is late or its transaction fails, it just does not happen.
Heartbeat(w) ==
  LET r == runner[w] IN
  /\ r.pc = "handle" /\ r.beating
  /\ IF Active(job[r.job], r.token)
     THEN RenewLease(r.job, r.token) /\ UNCHANGED runner
     ELSE UNCHANGED table /\ runner' = [runner EXCEPT ![w].beating = FALSE]
  /\ UNCHANGED <<request, crashes, commands>>

\* The handler leaves; heartbeats stop before the result is committed.
Leave(w, done, result) ==
  runner' = [runner EXCEPT ![w].pc = "commit", ![w].beating = FALSE,
                           ![w].done = done, ![w].result = result]

\* One group of work and the report that follows it.  `pause` is the disk
\* guard asking for a pause along with the report.
SafePoint(w, pause) ==
  LET r == runner[w]
      next == r.done + 1
      live == Active(job[r.job], r.token)
      answer == IF live THEN Reported(job[r.job], next, pause).status ELSE "NONE"
  IN
  /\ r.pc = "handle" /\ r.done < Steps
  /\ IF live THEN ReportProgress(r.job, r.token, next, pause)
             ELSE UNCHANGED table
  /\ IF answer \in {"PAUSED", "CANCELED"} \/ pause
     THEN Leave(w, next, NoResult)
     ELSE runner' = [runner EXCEPT ![w].done = next]
  /\ UNCHANGED <<request, crashes, commands>>

\* All groups done: a full or a partial success, or a failure for good.  At
\* any time an exception (final) or the soft timeout (retryable).
Return(w) ==
  /\ runner[w].pc = "handle"
  /\ \E result \in {Outcome(FALSE, FALSE, FALSE), Outcome(FALSE, FALSE, TRUE)}
                   \cup IF runner[w].done = Steps
                        THEN {Outcome(TRUE, FALSE, FALSE), Outcome(TRUE, TRUE, FALSE)}
                        ELSE {} :
       Leave(w, runner[w].done, result)
  /\ UNCHANGED <<table, request, crashes, commands>>

Commit(w) ==
  LET r == runner[w] IN
  /\ r.pc = "commit"
  /\ Goto(w, "recover")
  /\ CASE ~Active(job[r.job], r.token) -> UNCHANGED table
       [] Active(job[r.job], r.token) /\ r.result.success ->
            Complete(r.job, r.token, r.result)
       [] Active(job[r.job], r.token) /\ ~r.result.success ->
            Fail(r.job, r.token, r.result)
  /\ UNCHANGED <<request, crashes, commands>>

\* The transaction fails: run_forever logs it and scans again, the result is
\* lost and the row stays RUNNING until its lease ends.
CommitError(w) ==
  /\ runner[w].pc = "commit"
  /\ Goto(w, "recover")
  /\ UNCHANGED <<table, request, crashes, commands>>

Crash(w) ==
  /\ runner[w].pc # "down" /\ crashes < MaxCrashes
  /\ runner' = [runner EXCEPT ![w] = [AtStart EXCEPT !.pc = "down"]]
  /\ crashes' = crashes + 1
  /\ UNCHANGED <<table, request, commands>>

Restart(w) ==
  /\ runner[w].pc = "down"
  /\ Goto(w, "recover")
  /\ UNCHANGED <<table, request, crashes, commands>>

(***************************************************************************)
(* Administration.  A request is made from a row the administrator has     *)
(* read and carries its version; it reaches the server at some later time, *)
(* perhaps more than once.  `audited`: the audit log holds its key.        *)
(***************************************************************************)
Send(a, j, action) ==
  /\ ~request[a].sent /\ commands < MaxCommands
  /\ job[j].status # "ABSENT"
  /\ request' = [request EXCEPT ![a] =
       [sent |-> TRUE, job |-> j, action |-> action, audited |-> FALSE,
        seen |-> Visible(job[j])]]
  /\ commands' = commands + 1
  /\ UNCHANGED <<table, runner, crashes>>

Deliver(a) ==
  /\ request[a].sent
  /\ LET q == request[a] IN
     IF /\ ~q.audited
        /\ job[q.job].version = q.seen.version
        /\ Allowed(job[q.job], q.action)
     THEN /\ Command(q.job, q.action)
          /\ request' = [request EXCEPT ![a].audited = TRUE]
     ELSE UNCHANGED <<table, request>>
  /\ UNCHANGED <<runner, crashes, commands>>

Forget(a) ==
  /\ request[a].sent
  /\ request' = [request EXCEPT ![a] = NoRequest]
  /\ UNCHANGED <<table, runner, crashes, commands>>

(***************************************************************************)
(* The system.                                                             *)
(***************************************************************************)
RunnerStep(w) ==
  \/ Recover(w) \/ Claim(w) \/ NothingDue(w)
  \/ SafePoint(w, FALSE) \/ Return(w) \/ Commit(w) \/ Restart(w)

Disturbance(w) ==
  \/ Heartbeat(w) \/ SafePoint(w, TRUE) \/ CommitError(w) \/ Crash(w)

RunnerNext ==
  \/ \E j \in Job : Submit(j) /\ UNCHANGED runnerVars
  \/ \E w \in Runner : RunnerStep(w) \/ Disturbance(w)
  \/ \E a \in Admin : \/ \E j \in Job, action \in Action : Send(a, j, action)
                      \/ Deliver(a) \/ Forget(a)
  \/ Tick /\ UNCHANGED runnerVars

\* The scan loop of a process goes on, a stopped container is restarted, and
\* time passes.  Heartbeats, requests and failures are never owed.
Fairness ==
  /\ \A w \in Runner : WF_allVars(RunnerStep(w))
  /\ WF_allVars(Tick /\ UNCHANGED runnerVars)

RunnerSpec == RunnerInit /\ [][RunnerNext]_allVars /\ Fairness

-----------------------------------------------------------------------------
(* Properties. *)

\* Types of the loops' local state; no runner holds a token never drawn.
RunnerTypeOK ==
  /\ runner \in [Runner -> RunnerState]
  /\ \A w \in Runner : runner[w].token <= issued
  /\ crashes \in 0 .. MaxCrashes
  /\ commands \in 0 .. MaxCommands

Holds(w) == /\ runner[w].pc \in {"handle", "commit"}
            /\ Active(job[runner[w].job], runner[w].token)

(***************************************************************************)
(* The handler ignores the answer that its lease is gone and works on.     *)
(* Still, whoever holds a lease that counts has saved everything it has    *)
(* done: a lease once lost is never alive again, so no report refused in   *)
(* between can be missing from the checkpoint.                             *)
(***************************************************************************)
HolderInStep ==
  \A w \in Runner : Holds(w) => runner[w].done = job[runner[w].job].checkpoint

(***************************************************************************)
(* A job is SUCCEEDED or PARTIAL only if its saved progress is complete,   *)
(* whatever crashed, expired or overlapped on the way.                     *)
(***************************************************************************)
SuccessIsComplete ==
  \A j \in Job :
    job[j].status \in {"SUCCEEDED", "PARTIAL"} => job[j].checkpoint = Steps

\* Saved progress never goes back, although runners that lost their lease keep
\* reporting older positions.
ProgressKept ==
  [][\A j \in Job : job'[j].checkpoint >= job[j].checkpoint]_allVars

(***************************************************************************)
(* The version an administrator sends identifies what was seen: while it   *)
(* still matches, status, requests, counters, checkpoint and result are    *)
(* those the decision was made on.                                         *)
(***************************************************************************)
VersionIdentifiesState ==
  \A a \in Admin :
    request[a].sent /\ job[request[a].job].version = request[a].seen.version
      => Visible(job[request[a].job]) = request[a].seen

(***************************************************************************)
(* Once a running job has been told to cancel it is CANCELED in the end,   *)
(* even if every runner that knew of it crashes.                           *)
(***************************************************************************)
CancelTakesEffect ==
  \A j \in Job : job[j].cancel_requested ~> job[j].status = "CANCELED"

\* A running job told to pause stops in the end: PAUSED, or CANCELED if that was
\* asked for too.
PauseTakesEffect ==
  \A j \in Job :
    job[j].pause_requested ~> job[j].status \in {"PAUSED", "CANCELED"}

(***************************************************************************)
(* Every job comes to rest: none is queued, running or retried for ever.   *)
(***************************************************************************)
JobsSettle ==
  \A j \in Job :
    job[j].status = "PENDING" ~> job[j].status \in Terminal \cup {"PAUSED"}

\* What holds of the runners, the jobs and the administrators at any time.
RunnerSound == HolderInStep /\ SuccessIsComplete /\ VersionIdentifiesState
=============================================================================
