---------------------------- MODULE MCScheduling ----------------------------
(***************************************************************************)
(* Small instances of the scheduling and collecting side: the intraday and *)
(* the persistent half of the scheduler, the batches of quotes and the     *)
(* subscriptions.  What they share is handed over as a frozen snapshot or  *)
(* an idempotency key, never a row both write, so a behaviour is one of    *)
(* theirs.                                                                 *)
(***************************************************************************)
EXTENDS IntradayScheduler, TLC

CONSTANTS LastDay, TradingDay, MaxFailures, MaxOutages, MaxOrders,
          Symbol, Collector, MaxMishaps,
          Security, Target, Policy, MaxRequests, MaxRows

ASSUME SchedulingAssumption ==
  /\ IsFiniteSet(Symbol)
  /\ LastDay \in Nat /\ TradingDay \subseteq 0..LastDay

VARIABLES
  kind,                \* which of the four moves
  day, evening, up, due, daily, recovery, batch, scanned, failures, outages, orders,
  cycle, announced, expired, collector, mishaps,
  rows, sent, audit, snapshot, acted

Persistent    == INSTANCE DailyScheduler
Cycles        == INSTANCE QuoteCycles
Subscriptions == INSTANCE MonitorSubscriptions

persistent    == <<day, evening, up, due, daily, recovery, batch, scanned, failures,
                   outages, orders>>
cycles        == <<cycle, announced, expired, collector, mishaps>>
subscriptions == <<rows, sent, audit, snapshot, acted>>

Symmetry == Permutations(Run)

SchedulingInit ==
  /\ kind \in {"intraday", "persistent", "cycles", "subscriptions"}
  /\ SchedulerInit /\ Persistent!DailyInit /\ Cycles!CyclesInit
  /\ Subscriptions!SubscriptionsInit

SchedulingNext ==
  /\ UNCHANGED kind
  /\ \/ /\ kind = "intraday" /\ SchedulerNext
        /\ UNCHANGED <<persistent, cycles, subscriptions>>
     \/ /\ kind = "persistent" /\ Persistent!DailyNext
        /\ UNCHANGED <<schedulerVars, cycles, subscriptions>>
     \/ /\ kind = "cycles" /\ Cycles!CyclesNext
        /\ UNCHANGED <<schedulerVars, persistent, subscriptions>>
     \/ /\ kind = "subscriptions" /\ Subscriptions!SubscriptionsNext
        /\ UNCHANGED <<schedulerVars, persistent, cycles>>

SchedulingSpec ==
  SchedulingInit /\ [][SchedulingNext]_<<schedulerVars, persistent, cycles, subscriptions, kind>>

\* The days the scans have passed are collected or asked for, and a recovery
\* ends with the truth about all its dates.
DailySound == Persistent!DailySound

\* What the end of a batch of quotes announced is what it holds, for ever.
EndHolds == Cycles!EndHolds

\* Requests take effect once, a security has one open subscription, and whoever
\* compares only the version acts on the configuration it has seen.
SubscriptionsSound == Subscriptions!SubscriptionsSound
=============================================================================
