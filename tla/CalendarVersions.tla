--------------------------- MODULE CalendarVersions ---------------------------
(***************************************************************************)
(* The trading calendar of one market (modules/calendar): immutable        *)
(* versions and the pointer at the current one.  A request reads without   *)
(* locks (what its key stood for, the pointer, the version it builds on),  *)
(* later takes a version number, and at its end inserts the version under  *)
(* the unique constraints and moves the pointer if nobody has moved it.    *)
(* How the scheduler hears of a change is modelled in IntradayScheduler.   *)
(***************************************************************************)
EXTENDS Integers, Sequences
CONSTANTS
  Request,             \* the requests of users
  Key,                 \* their idempotency keys; one may be sent again
  LastDate,            \* the calendar has the dates 0 .. LastDate
  Needed,              \* how many days from today on an import must confirm
  Imported,            \* the contents users import
  MaxVersions          \* bound: versions
VARIABLES
  versions,            \* trading_calendar_version, by number
  pointer,             \* trading_calendar_current
  today,
  request              \* the open transaction of each request

calendarVars == <<versions, pointer, today, request>>

Date == 0 .. LastDate
\* A date without a row is closed and MISSING.
Status == {"CONFIRMED", "PROVISIONAL", "OVERRIDDEN", "MISSING"}
Day == [open : BOOLEAN, status : Status, sessions : {"none", "proper", "overlapping"}]
Trading(status) == [open |-> TRUE, status |-> status, sessions |-> "proper"]
Closed(status)  == [open |-> FALSE, status |-> status, sessions |-> "none"]
Days == [Date -> Day]
Version == [days : Days, key : Key, base : 0 .. MaxVersions,
            source : {"import", "manual_override", "restore"}, date : Date,
            checked : Date]        \* the day its request was checked on

\* Trading days have sessions that do not overlap, other days have none.
Proper(days) == \A d \in Date : days[d].sessions = IF days[d].open THEN "proper" ELSE "none"
Confirmed(day) == day.status \in {"CONFIRMED", "OVERRIDDEN"}
\* Whether every one of the next dates is confirmed, today being the first.
Covers(days, from) == \A d \in from .. from + Needed - 1 : d \in Date /\ Confirmed(days[d])
Current == versions[pointer.version]

Idle == [at |-> "idle"]
Building(k, source, days, base, expected, date) ==
  [at |-> "built", key |-> k, source |-> source, days |-> days, base |-> base,
   expected |-> expected, date |-> date, number |-> 0, checked |-> today]

CalendarInit ==
  /\ today = 0
  /\ versions = <<>>
  /\ pointer = [version |-> 0, moves |-> 0]
  /\ request = [r \in Request |-> Idle]

\* A key stands for one request: a repeated one gets the answer of the first.
Unused(k) == \A n \in DOMAIN versions : versions[n].key # k
Begin(r, k, source, days, base, date) ==
  /\ request[r].at = "idle" /\ Unused(k) /\ Proper(days)
  /\ request' = [request EXCEPT ![r] = Building(k, source, days, base, pointer.moves, date)]
  /\ UNCHANGED <<versions, pointer, today>>

(* An import replaces all days; it must confirm today and the days after it. *)
Import(r, k, days) ==
  /\ Covers(days, today)
  /\ Begin(r, k, "import", days, pointer.version, 0)

(* An override replaces or adds one day of the current version.  The user has *)
(* seen the version the pointer still is at.                                  *)
OverrideDay(r, k, d, open) ==
  /\ pointer.version # 0
  /\ LET day == IF open THEN Trading("OVERRIDDEN") ELSE Closed("OVERRIDDEN")
     IN Begin(r, k, "manual_override", [Current.days EXCEPT ![d] = day], pointer.version, d)

(* A restored version is a new one with the days of the old. *)
Restore(r, k, n) ==
  /\ pointer.version # 0 /\ n \in DOMAIN versions
  /\ Covers(versions[n].days, today)
  /\ Begin(r, k, "restore", versions[n].days, n, 0)

(* The number of the new version is one more than the greatest that is     *)
(* committed.                                                              *)
TakeNumber(r) ==
  /\ request[r].at = "built"
  /\ request' = [request EXCEPT ![r].at = "numbered", ![r].number = Len(versions) + 1]
  /\ UNCHANGED <<versions, pointer, today>>

\* What the unique constraints and the comparison of the pointer leave.
Insertable(q) == q.number = Len(versions) + 1 /\ Unused(q.key)
\* A slip to catch: the pointer is switched without a comparison.
PointerIgnored(q) == TRUE

PointerUnmoved(q) == q.expected = pointer.moves

(* The version, its audit and its announcement are committed together, or  *)
(* the request fails.                                                      *)
Activate(r) ==
  LET q == request[r] IN
  /\ q.at = "numbered" /\ Insertable(q) /\ PointerUnmoved(q)
  /\ versions' = Append(versions, [days |-> q.days, key |-> q.key, base |-> q.base,
                                   source |-> q.source, date |-> q.date,
                                   checked |-> q.checked])
  /\ pointer' = [version |-> q.number, moves |-> pointer.moves + 1]
  /\ request' = [request EXCEPT ![r] = Idle]
  /\ UNCHANGED today
Conflict(r) ==
  LET q == request[r] IN
  /\ q.at = "numbered" /\ ~(Insertable(q) /\ PointerUnmoved(q))
  /\ request' = [request EXCEPT ![r] = Idle]
  /\ UNCHANGED <<versions, pointer, today>>

Midnight ==
  /\ today + Needed <= LastDate /\ today' = today + 1
  /\ UNCHANGED <<versions, pointer, request>>

CalendarNext ==
  \/ \E r \in Request :
       \/ \E k \in Key :
            /\ Len(versions) < MaxVersions
            /\ \/ \E days \in Imported : Import(r, k, days)
               \/ \E d \in Date, open \in BOOLEAN : OverrideDay(r, k, d, open)
               \/ \E n \in 1 .. MaxVersions : Restore(r, k, n)
       \/ TakeNumber(r) \/ Activate(r) \/ Conflict(r)
  \/ Midnight
CalendarSpec == CalendarInit /\ [][CalendarNext]_calendarVars

CalendarTypeOK ==
  /\ versions \in Seq(Version) /\ Len(versions) <= MaxVersions
  /\ pointer \in [version : 0 .. MaxVersions, moves : 0 .. MaxVersions]
  /\ today \in Date

(* The list of versions marks the newest as the current one, and a change   *)
(* by hand is never lost: the version of an override is the one current     *)
(* before it with that day alone changed, whatever was imported, restored   *)
(* or overridden while the request was on its way.                          *)
NoChangeLost ==
  /\ pointer.version = Len(versions)
  /\ \A n \in 2 .. Len(versions) : versions[n].source = "manual_override" =>
       /\ versions[n].base = n - 1
       /\ \A d \in Date \ {versions[n].date} : versions[n].days[d] = versions[n - 1].days[d]

(* No override takes the ground from under the scheduler: whatever days were *)
(* overridden since, and whenever those requests had begun, a version still  *)
(* confirms the days that the last import or restore before it had to, from  *)
(* the day that one was checked on.  (That day may be yesterday: a midnight  *)
(* may pass before the request ends.)                                        *)
RestsOn(n, m) ==
  /\ versions[m].source # "manual_override"
  /\ \A o \in m + 1 .. n : versions[o].source = "manual_override"
StillCovered ==
  \A n \in 1 .. Len(versions) :
    \E m \in 1 .. n : RestsOn(n, m) /\ Covers(versions[n].days, versions[m].checked)

CalendarSound == NoChangeLost /\ StillCovered
=============================================================================
