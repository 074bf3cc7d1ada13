--------------------------- MODULE ProviderBudget ---------------------------
(***************************************************************************)
(* The budget of requests to one data source                               *)
(* (backend/src/long_invest/modules/providers/budget.py).  Every request   *)
(* is counted and leased in one transaction under the source's advisory    *)
(* lock before it is sent, and its lease released in another when it has   *)
(* been answered.  Callers are coroutines of several processes, any of     *)
(* which may die.  Most adapters send from a thread (asyncio.to_thread in  *)
(* browser_http_client.py, baostock.py, tushare.py, sina.py): a coroutine  *)
(* that runs out of time stops awaiting its request and gives back the     *)
(* lease, but its thread goes on.  "history" stands for every capability   *)
(* without a reserve.                                                      *)
(***************************************************************************)
EXTENDS Naturals, FiniteSets

CONSTANTS
  Caller,
  Token,              \* of leases
  Timeout,            \* timeout_seconds of each capability
  Grace,              \* five seconds, by which a lease outlasts its request
  DailyLimit,         \* ProviderBudgetPolicy: requests a day,
  RealtimeReserved,   \*   how many of them are kept for realtime quotes,
  DailyReserved,      \*   how many for the bars of the day,
  MaxConcurrency,     \*   and requests at a time
  CapabilityLimit,    \* requests a day,
  Concurrency,        \*   and requests at a time, of each capability
  MinInterval,        \*   and the time between two
  MaxThreads          \* bound: threads nobody awaits

Capability == {"realtime", "daily", "history"}

VARIABLES
  used,               \* ProviderBudgetUsage of the day: requests counted,
  since,              \*   and the time since the last, up to MinInterval
  leased,             \* ProviderRequestLease: what each lease is for,
  left,               \*   and how long it still holds; 0 when it does not
  caller,             \* what each caller is doing, for which capability,
  token,              \*   under which lease,
  deadline,           \*   and the time it still has
  threads             \* requests on the wire that nobody awaits any more

\* What _validate_budget_settings and the table's checks make sure of: the reserves
\* are below the limit.  A lease lasts longer than its request may.
BudgetConstants ==
  /\ IsFiniteSet(Token)
  /\ Timeout \in [Capability -> Nat] /\ Grace \in Nat \ {0}
  /\ DailyLimit \in Nat /\ RealtimeReserved \in Nat /\ DailyReserved \in Nat
  /\ RealtimeReserved + DailyReserved < DailyLimit
  /\ MaxConcurrency \in Nat /\ MinInterval \in Nat
  /\ CapabilityLimit \in [Capability -> Nat] /\ Concurrency \in [Capability -> Nat]
  /\ MaxThreads \in Nat

vars == <<used, since, leased, left, caller, token, deadline, threads>>

Idle == <<"idle", "history">>

Init ==
  /\ used = [c \in Capability |-> 0] /\ since = [c \in Capability |-> MinInterval]
  /\ leased = [t \in Token |-> "history"] /\ left = [t \in Token |-> 0]
  /\ caller = [p \in Caller |-> Idle]
  /\ token \in [Caller -> Token] /\ deadline = [p \in Caller |-> 0]
  /\ threads = 0

Waits(p, c) == caller[p] = <<"waiting", c>>
Awaits(p, c) == caller[p] = <<"awaiting", c>>
Go(p, pc, c) == caller' = [caller EXCEPT ![p] = <<pc, c>>]

TotalUsed == used["realtime"] + used["daily"] + used["history"]

Held == {t \in Token : left[t] > 0}

Over(a, b) == IF a > b THEN a - b ELSE 0

\* Faulty variant: others are kept out of a reserve only while both are unused.
CeilingTogether(c) ==
  CASE c = "realtime" -> DailyLimit - Over(DailyReserved, used["daily"])
    [] c = "daily" -> DailyLimit - Over(RealtimeReserved, used["realtime"])
    [] OTHER -> DailyLimit - Over(RealtimeReserved + DailyReserved,
                                  used["realtime"] + used["daily"])

\* _total_ceiling
Ceiling(c) ==
  CASE c = "realtime" -> DailyLimit - Over(DailyReserved, used["daily"])
    [] c = "daily" -> DailyLimit - Over(RealtimeReserved, used["realtime"])
    [] OTHER -> DailyLimit - Over(RealtimeReserved, used["realtime"])
                           - Over(DailyReserved, used["daily"])

Exhausted(c) == TotalUsed >= Ceiling(c) \/ used[c] >= CapabilityLimit[c]

Crowded(c) ==
  \/ Cardinality(Held) >= MaxConcurrency
  \/ Cardinality({t \in Held : leased[t] = c}) >= Concurrency[c]

\* Faulty variant: every lease lasts as long as a realtime request.
LeaseTimeShort(c) == Timeout["realtime"] + Grace

LeaseTime(c) == Timeout[c] + Grace

\* An operation of an adapter starts, with its timeout; it may ask for several
\* requests, one after the other.
Begin(p, c) ==
  /\ caller[p] = Idle
  /\ Go(p, "waiting", c) /\ deadline' = [deadline EXCEPT ![p] = Timeout[c]]
  /\ UNCHANGED <<used, since, leased, left, token, threads>>

\* claim, which guard repeats while the source is crowded or asked too soon.
\* Expired and released leases are deleted.
Claim(p, c) ==
  /\ Waits(p, c)
  /\ ~Exhausted(c) /\ since[c] >= MinInterval /\ ~Crowded(c)
  /\ used' = [used EXCEPT ![c] = @ + 1] /\ since' = [since EXCEPT ![c] = 0]
  /\ \E t \in Token \ Held :
       /\ leased' = [leased EXCEPT ![t] = c] /\ left' = [left EXCEPT ![t] = LeaseTime(c)]
       /\ token' = [token EXCEPT ![p] = t]
  /\ Go(p, "awaiting", c)
  /\ UNCHANGED <<deadline, threads>>

\* Denied for the rest of the day.
Denied(p, c) ==
  /\ Waits(p, c) /\ Exhausted(c)
  /\ caller' = [caller EXCEPT ![p] = Idle]
  /\ UNCHANGED <<used, since, leased, left, token, deadline, threads>>

\* The request has been answered: release. A failed request may be sent again,
\* under a claim of its own.
Release(p, c) ==
  /\ Awaits(p, c)
  /\ left' = [left EXCEPT ![token[p]] = 0]
  /\ caller' \in {[caller EXCEPT ![p] = next] : next \in {Idle, <<"waiting", c>>}}
  /\ UNCHANGED <<used, since, leased, token, deadline, threads>>

\* What becomes of a request nobody awaits: httpx takes it back, a thread goes on.
LeftToThread == threads' \in threads .. threads + 1 /\ threads' <= MaxThreads

\* The operation runs out of time or is canceled: the guard's finally releases
\* the lease, whether the request is still out or not.
Abandon(p, c) ==
  /\ Awaits(p, c) /\ LeftToThread
  /\ left' = [left EXCEPT ![token[p]] = 0]
  /\ caller' = [caller EXCEPT ![p] = Idle]
  /\ UNCHANGED <<used, since, leased, token, deadline>>

\* The operation runs out of time while it waits, its release fails, or its
\* process dies; the lease stays until it expires.
GiveUp(p, c) ==
  /\ \/ Waits(p, c) /\ UNCHANGED threads
     \/ Awaits(p, c) /\ LeftToThread
  /\ caller' = [caller EXCEPT ![p] = Idle]
  /\ UNCHANGED <<used, since, leased, left, token, deadline>>

\* A request nobody awaits is answered, or its process dies.
ThreadEnds ==
  /\ threads > 0 /\ threads' = threads - 1
  /\ UNCHANGED <<used, since, leased, left, caller, token, deadline>>

Less(n) == IF n > 0 THEN n - 1 ELSE 0

\* asyncio.timeout ends the awaiting in time, not the threads.
Tick ==
  /\ \A p \in Caller : caller[p] # Idle => deadline[p] > 0
  /\ since' = [c \in Capability |-> IF since[c] < MinInterval THEN since[c] + 1
                                    ELSE since[c]]
  /\ left' = [t \in Token |-> Less(left[t])]
  /\ deadline' = [p \in Caller |-> Less(deadline[p])]
  /\ UNCHANGED <<used, leased, caller, token, threads>>

\* Usage is counted by day, the time of the last request as well.
NewDay ==
  /\ TotalUsed > 0
  /\ used' = [c \in Capability |-> 0] /\ since' = [c \in Capability |-> MinInterval]
  /\ UNCHANGED <<leased, left, caller, token, deadline, threads>>

-----------------------------------------------------------------------------
Next ==
  \/ \E p \in Caller, c \in Capability :
       \/ Begin(p, c) \/ Claim(p, c) \/ Denied(p, c)
       \/ Release(p, c) \/ Abandon(p, c) \/ GiveUp(p, c)
  \/ ThreadEnds \/ Tick \/ NewDay

Spec == Init /\ [][Next]_vars

-----------------------------------------------------------------------------
(* Properties. *)

\* Types.
TypeOK ==
  /\ used \in [Capability -> Nat] /\ since \in [Capability -> 0 .. MinInterval]
  /\ leased \in [Token -> Capability] /\ left \in [Token -> Nat]
  /\ caller \in [Caller -> {"idle", "waiting", "awaiting"} \X Capability]
  /\ token \in [Caller -> Token] /\ deadline \in [Caller -> Nat]
  /\ threads \in 0 .. MaxThreads

(***************************************************************************)
(* The requirement that backfills and backtests cannot use up what is      *)
(* reserved for realtime quotes and for the bars of the day: as long as    *)
(* either has not used its reserve, the day's total has room for it.       *)
(***************************************************************************)
ReservesKept ==
  /\ used["realtime"] < RealtimeReserved => TotalUsed < Ceiling("realtime")
  /\ used["daily"] < DailyReserved => TotalUsed < Ceiling("daily")

(***************************************************************************)
(* No more requests are awaited at a time than the source may be sent,     *)
(* though leases expire by themselves and processes die without releasing  *)
(* theirs: no lease ends before its caller stops to await its request.     *)
(***************************************************************************)
Awaiting == {p \in Caller : caller[p][1] = "awaiting"}

AwaitedLimit ==
  /\ Cardinality(Awaiting) <= MaxConcurrency
  /\ \A c \in Capability : Cardinality({p \in Caller : Awaits(p, c)}) <= Concurrency[c]

\* The reserves are kept and what is awaited is within its limits.
BudgetSound == ReservesKept /\ AwaitedLimit

(***************************************************************************)
(* Not so: that no more requests are on the wire than the source may be    *)
(* sent at a time.  The next caller is let out beside the thread of one    *)
(* that has run out of time.                                               *)
(***************************************************************************)
WireLimit == Cardinality(Awaiting) + threads <= MaxConcurrency
=============================================================================
