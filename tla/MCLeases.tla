------------------------------ MODULE MCLeases ------------------------------
(***************************************************************************)
(* Small instances of the two tables of leases: those of the jobs, and     *)
(* those of the requests to a data source, which its budget counts.  They  *)
(* share nothing, so a behaviour is one of either.                         *)
(***************************************************************************)
EXTENDS PostgresJobs

CONSTANTS
  j1, j2,
  Caller, Token, Timeout, Grace, DailyLimit, RealtimeReserved, DailyReserved,
  MaxConcurrency, CapabilityLimit, Concurrency, MinInterval, MaxThreads

VARIABLES
  kind,                \* which of the two moves
  used, since, leased, left, caller, token, deadline, threads

Budget == INSTANCE ProviderBudget
ASSUME BudgetAssumption == Budget!BudgetConstants
budget == <<used, since, leased, left, caller, token, deadline, threads>>

\* j1 is urgent and may be recovered; j2 is not recoverable.
TwoJobs == {j1, j2}
MCCheckpoint == {"new", "cursor", "retry"}
MCData == {"plain", "items"}
MCRetryCheckpoint == [d \in MCData |-> IF d = "items" THEN "retry" ELSE "new"]
MCPriority == [j \in Job |-> IF j = j1 THEN 0 ELSE 1]
MCMaxAttempts == [j \in Job |-> IF j = j1 THEN 2 ELSE 1]
MCMaxRecoveries == [j \in Job |-> IF j = j1 THEN 1 ELSE 0]

\* A history takes longer than other requests.
Capabilities == {"realtime", "daily", "history"}
MCTimeout == [c \in Capabilities |-> IF c = "history" THEN 3 ELSE 1]
MCLimit == [c \in Capabilities |-> 4]
MCConcurrency == [c \in Capabilities |-> 1]

\* The side that does not move has one initial state.
LeasesInit ==
  /\ kind \in {"jobs", "budget"} /\ Init /\ Budget!Init
  /\ kind = "jobs" => token = [p \in Caller |-> CHOOSE t \in Token : TRUE]

LeasesNext ==
  \/ kind = "jobs" /\ Next /\ UNCHANGED <<budget, kind>>
  \/ kind = "budget" /\ Budget!Next /\ UNCHANGED <<vars, kind>>

LeasesSpec == LeasesInit /\ [][LeasesNext]_<<vars, budget, kind>>

\* What is reserved for urgent requests is left for them, and the requests somebody
\* awaits never exceed the limits.
BudgetSound == Budget!BudgetSound
=============================================================================
