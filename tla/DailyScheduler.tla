--------------------------- MODULE DailyScheduler ---------------------------
(***************************************************************************)
(* The persistent half of the dual path scheduler: the 17:00 job of every  *)
(* trading day, the scan for missed days at start-up, and the recovery     *)
(* jobs it submits.  Time is days, each with a part before and a part      *)
(* after 17:00.  What happens inside the collection of one day is the      *)
(* subject of DailyBatch; here a day ends with a status of its batch.      *)
(***************************************************************************)
EXTENDS Integers, FiniteSets, FiniteSetsExt

CONSTANTS LastDay,      \* days are 0..LastDay; the batch of day 0 exists
          TradingDay,   \* the open days, a subset of 0..LastDay
          MaxFailures,  \* bound on raised exceptions and paused scans
          MaxOutages,   \* bound on stops and crashes of the process
          MaxOrders     \* bound on the users' commands

VARIABLES
  day, evening,  \* the database's clock
  up,            \* whether the background process runs
  due,           \* the 17:00 trigger has come due and has not fired
  daily,         \* [day -> status of its DAILY_MARKET_DATA job]
  recovery,      \* [set of days -> the DAILY_MARKET_RECOVERY job of that gap]
  batch,         \* [path -> [day -> status of its daily_data_batch]]
  scanned,       \* the last day of the last scan that recorded no failure
  failures, outages, orders

dailyVars == <<day, evening, up, due, daily, recovery, batch, scanned,
               failures, outages, orders>>

Days == 0..LastDay
Ended == {"SUCCEEDED", "PARTIAL", "FAILED"}
Good  == {"SUCCEEDED", "PARTIAL"}

\* A job that waits or runs is PENDING: its lease and retries are JobRunner's.
\* next is its checkpoint, from the checkpoint its last attempt started at.
NoJob == [status |-> "none", next |-> 0, from |-> 0]

DailyInit ==
  /\ day = 0 /\ evening = TRUE
  /\ up = TRUE /\ due = FALSE
  /\ daily = [d \in Days |-> IF d = 0 THEN "SUCCEEDED" ELSE "none"]
  /\ recovery = [gap \in SUBSET TradingDay |-> NoJob]
  /\ batch = [path \in {"market", "recovery"} |->
               [d \in Days |-> IF d = 0 /\ path = "market" THEN "SUCCEEDED" ELSE "none"]]
  /\ scanned = 0
  /\ failures = 0 /\ outages = 0 /\ orders = 0

Failure == failures < MaxFailures /\ failures' = failures + 1

-----------------------------------------------------------------------------
(* The scan at start-up.                                                    *)

Collected == {d \in Days : \E path \in DOMAIN batch : batch[path][d] \in Good}

\* A slip to catch: yesterday is left out.
GapOlder(before) ==
  {d \in TradingDay \ Collected : d > Min(Collected) /\ d < before}

\* batch_date_bounds, batch_dates: only good batches count.
Gap(before) ==
  {d \in TradingDay \ Collected : d > Min(Collected) /\ d <= before}

\* The key is the dates; scheduled_at is in the hash, so a second one conflicts.
NewGap(gap) == recovery[gap].status = "none"

SubmitRecovery(gap) ==
  recovery' = IF gap # {} /\ NewGap(gap)
                THEN [recovery EXCEPT ![gap].status = "PENDING"]
                ELSE recovery

\* Once per day; a repetition is the same request and answers the same job.
SubmitDaily ==
  daily' = IF day \in TradingDay /\ daily[day] = "none"
             THEN [daily EXCEPT ![day] = "PENDING"]
             ELSE daily

\* recover_persistent, with the scheduler's first heartbeat.
Start ==
  /\ ~up /\ up' = TRUE
  /\ LET gap == Gap(day - 1) IN
       \/ /\ SubmitRecovery(gap)
          /\ IF evening THEN SubmitDaily ELSE UNCHANGED daily
          /\ scanned' = IF gap = {} \/ NewGap(gap) THEN day - 1 ELSE scanned
          /\ UNCHANGED failures
       \/ /\ Failure                  \* the clocks differ: nothing is submitted
          /\ UNCHANGED <<recovery, daily, scanned>>
       \/ /\ Failure                  \* the plan fails, the day's job does not
          /\ IF evening THEN SubmitDaily ELSE UNCHANGED daily
          /\ UNCHANGED <<recovery, scanned>>
  /\ UNCHANGED <<day, evening, due, batch, outages, orders>>

Stop ==
  /\ up /\ outages < MaxOutages /\ outages' = outages + 1
  /\ up' = FALSE /\ due' = FALSE
  /\ UNCHANGED <<day, evening, daily, recovery, batch, scanned, failures, orders>>

-----------------------------------------------------------------------------
(* The clock and the 17:00 trigger.                                         *)

Evening ==
  /\ ~evening /\ evening' = TRUE
  /\ due' = up
  /\ UNCHANGED <<day, up, daily, recovery, batch, scanned, failures, outages, orders>>

\* A trigger that could not fire within its minute is a misfire.
NextDay ==
  /\ evening /\ day < LastDay
  /\ day' = day + 1 /\ evening' = FALSE
  /\ due' = FALSE
  /\ IF due THEN Failure ELSE UNCHANGED failures
  /\ UNCHANGED <<up, daily, recovery, batch, scanned, outages, orders>>

FirePersistent ==
  /\ up /\ due /\ due' = FALSE
  /\ \/ SubmitDaily /\ UNCHANGED failures
     \/ Failure /\ UNCHANGED daily
  /\ UNCHANGED <<day, evening, up, recovery, batch, scanned, outages, orders>>

-----------------------------------------------------------------------------
(* The jobs.                                                                *)

\* One day is collected, or its batch has ended already.
CollectDay(path, d, status) ==
  /\ status \in IF batch[path][d] \in Ended THEN {batch[path][d]} ELSE Ended
  /\ batch' = [batch EXCEPT ![path][d] = status]

RunDaily(d) ==
  /\ up /\ daily[d] = "PENDING"
  /\ \/ /\ \E status \in Ended : /\ CollectDay("market", d, status)
                                 /\ daily' = [daily EXCEPT ![d] = status]
        /\ UNCHANGED failures
     \/ /\ Failure
        /\ daily' = [daily EXCEPT ![d] = "FAILED"] /\ UNCHANGED batch
  /\ UNCHANGED <<day, evening, up, due, recovery, scanned, outages, orders>>

Rank(gap, d) == Cardinality({e \in gap : e < d})
DateAt(gap, n) == CHOOSE d \in gap : Rank(gap, d) = n

\* A slip to catch: a resumed attempt forgets the dates it found done.
SummariesOfAttempt(gap) == {d \in gap : Rank(gap, d) >= recovery[gap].from}

\* _completed_summaries of the dates found done, and those of this attempt.
Summaries(gap) ==
  {d \in gap : Rank(gap, d) < recovery[gap].from}
    \cup {d \in gap : Rank(gap, d) \in recovery[gap].from .. recovery[gap].next}

EndOf(gap) ==
  IF \A d \in Summaries(gap) : batch["recovery"][d] = "SUCCEEDED"
    THEN "SUCCEEDED" ELSE "PARTIAL"

RecoverDate(gap) ==
  /\ up /\ recovery[gap].status = "PENDING" /\ recovery[gap].next < Cardinality(gap)
  /\ \/ /\ \E status \in Ended :
             CollectDay("recovery", DateAt(gap, recovery[gap].next), status)
        /\ recovery' = [recovery EXCEPT ![gap].next = @ + 1]
        /\ UNCHANGED failures
     \/ /\ Failure
        /\ recovery' = [recovery EXCEPT ![gap].status = "FAILED"]
        /\ UNCHANGED batch
  /\ UNCHANGED <<day, evening, up, due, daily, scanned, outages, orders>>

FinishRecovery(gap) ==
  /\ up /\ gap # {} /\ recovery[gap].status = "PENDING"
  /\ recovery[gap].next = Cardinality(gap)
  /\ recovery' = [recovery EXCEPT ![gap].status = EndOf(gap)]
  /\ UNCHANGED <<day, evening, up, due, daily, batch, scanned, failures, outages,
                 orders>>

-----------------------------------------------------------------------------
(* The users' commands on a recovery job.                                   *)

\* A PARTIAL job can be retried only from a list of failed items in its
\* result, and this job reports dates and batches.
MayRetry(job) == job.status = "FAILED"

Order(gap, from, to) ==
  /\ orders < MaxOrders /\ orders' = orders + 1
  /\ recovery[gap].status \in from
  /\ recovery' = [recovery EXCEPT ![gap].status = to, ![gap].from = recovery[gap].next]
  /\ UNCHANGED <<day, evening, up, due, daily, batch, scanned, failures, outages>>

PauseRecovery(gap)  == Order(gap, {"PENDING"}, "PAUSED")
ResumeRecovery(gap) == Order(gap, {"PAUSED"}, "PENDING")
CancelRecovery(gap) == Order(gap, {"PENDING", "PAUSED"}, "CANCELED")
RetryRecovery(gap)  == MayRetry(recovery[gap]) /\ Order(gap, {"FAILED", "PARTIAL"}, "PENDING")

DailyNext ==
  \/ Start \/ Stop \/ Evening \/ NextDay \/ FirePersistent
  \/ \E d \in Days : RunDaily(d)
  \/ \E gap \in SUBSET TradingDay :
       \/ RecoverDate(gap) \/ FinishRecovery(gap)
       \/ PauseRecovery(gap) \/ ResumeRecovery(gap) \/ CancelRecovery(gap)
       \/ RetryRecovery(gap)

DailySpec == DailyInit /\ [][DailyNext]_dailyVars

-----------------------------------------------------------------------------
(* The end of a recovery job tells the truth about all of its dates, the   *)
(* ones an earlier attempt collected before a pause or a failure included.  *)
RecoveryTruth ==
  \A gap \in DOMAIN recovery :
    /\ recovery[gap].status = "SUCCEEDED" =>
         \A d \in gap : batch["recovery"][d] = "SUCCEEDED"
    /\ recovery[gap].status = "PARTIAL" =>
         /\ \A d \in gap : batch["recovery"][d] \in Ended
         /\ \E d \in gap : batch["recovery"][d] # "SUCCEEDED"

(* No missed day is overlooked: once a start-up scan has recorded success,  *)
(* every trading day up to the day before it has good data or belongs to a  *)
(* job that was submitted for it.                                           *)
GapsHeld ==
  \A d \in TradingDay : d <= scanned =>
    \/ d \in Collected
    \/ \E gap \in DOMAIN recovery : d \in gap /\ recovery[gap].status # "none"

(* A recovery that ended PARTIAL can be retried for what failed.            *)
PartialRetried ==
  \A gap \in DOMAIN recovery :
    recovery[gap].status = "PARTIAL" => MayRetry(recovery[gap])

\* The days the scans have passed are collected or asked for, and a recovery
\* ends with the truth about all its dates.
DailySound == RecoveryTruth /\ GapsHeld
=============================================================================
