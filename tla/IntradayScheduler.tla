-------------------------- MODULE IntradayScheduler --------------------------
(***************************************************************************)
(* The intraday half of the dual path scheduler: the schedules users edit, *)
(* the listener that hears of an edit, the refresh that turns schedules    *)
(* into the day's triggers, and the market snapshots the triggers start.   *)
(*                                                                         *)
(* The scheduler process runs triggers, listener and automatic snapshots;  *)
(* the API process runs the manual ones in the background of a request.    *)
(* Each process has its own lock around the collection of quotes.  Time is *)
(* the minutes of one trading day.                                         *)
(***************************************************************************)
EXTENDS Integers, Sequences, FiniteSets

CONSTANTS Schedule,    \* the monitor schedules
          Times,       \* the minutes a schedule may name, a subset of 1..LastMinute
          LastMinute,  \* the last minute of the day
          Manual,      \* the idempotency keys of manual snapshots
          Run,         \* how many snapshots can be under way: their numbers
          MaxChanges,  \* bound on the edits of schedules
          MaxFaults    \* bound on failed steps, lost connections, stalls and crashes

ASSUME IntradayAssumption ==
  LastMinute \in Nat /\ Times \subseteq 1..LastMinute

VARIABLES
  clock,       \* the minute of the database's clock
  schedules,   \* [Schedule -> its revisions, oldest first, and whether archived]
  edits,       \* edits so far
  triggers,    \* the minutes that have an intraday trigger installed
  refresh,     \* the refresh that holds the refresh lock
  listener,    \* the LISTEN connection and its wake-up event
  lost,        \* an edit nobody heard of, or a refresh that failed or was paused
  runs,        \* [Run -> a snapshot under way]
  occurrence,  \* [key -> status of its ScheduleOccurrence row]
  faults,
  orphaned     \* keys that lost a run since their last start, to a crash or a failed end

schedulerVars == <<clock, schedules, edits, triggers, refresh, listener, lost,
                   runs, occurrence, faults, orphaned>>

Key     == Times \cup Manual
Process == {"scheduler", "api"}
Home(k) == IF k \in Manual THEN "api" ELSE "scheduler"

Idle       == [step |-> "idle", since |-> 0, left |-> {}, times |-> {}]
NoRun      == [step |-> "none", key |-> 0, outcome |-> "none"]
Down       == [state |-> "down", linked |-> FALSE, wake |-> FALSE]
Connecting == [state |-> "connecting", linked |-> FALSE, wake |-> FALSE]
Up         == listener.state # "down"

Current(s) == schedules[s].revisions[Len(schedules[s].revisions)]
Active     == {s \in Schedule : ~schedules[s].archived}
Configured == UNION {Current(s) : s \in Active}

SchedulerInit ==
  /\ clock = 0
  /\ schedules = [s \in Schedule |-> [revisions |-> <<Times>>, archived |-> FALSE]]
  /\ edits = 0
  /\ triggers = {}
  /\ refresh = Idle
  /\ listener = Down
  /\ lost = FALSE
  /\ runs = [r \in Run |-> NoRun]
  /\ occurrence = [k \in Key |-> "none"]
  /\ faults = 0
  /\ orphaned = {}

Fault == faults < MaxFaults /\ faults' = faults + 1

-----------------------------------------------------------------------------
(* Edits of schedules; each commits its revision and its notification.      *)

Notified ==
  /\ edits < MaxChanges /\ edits' = edits + 1
  /\ IF listener.linked
       THEN listener' = [listener EXCEPT !.wake = TRUE] /\ UNCHANGED lost
       ELSE lost' = TRUE /\ UNCHANGED listener
  /\ UNCHANGED <<clock, triggers, refresh, runs, occurrence, faults, orphaned>>

Revised(s, times) ==
  schedules' = [schedules EXCEPT ![s].revisions = Append(@, times)]

Update(s, times) ==
  ~schedules[s].archived /\ Revised(s, times) /\ Notified

Restore(s, n) ==
  ~schedules[s].archived /\ Revised(s, schedules[s].revisions[n]) /\ Notified

Archive(s) ==
  /\ ~schedules[s].archived
  /\ schedules' = [schedules EXCEPT ![s].archived = TRUE]
  /\ Notified

-----------------------------------------------------------------------------
(* The refresh: begin_scan, remove the day's triggers, read the schedules   *)
(* one after the other, install the triggers that are still to come.        *)

BeginRefresh ==
  /\ refresh = Idle
  /\ refresh' = [Idle EXCEPT !.step = "list", !.since = clock]
  /\ triggers' = {}
  /\ UNCHANGED <<clock, schedules, edits, runs, occurrence, faults, orphaned>>

List ==
  /\ refresh.step = "list"
  /\ refresh' = [refresh EXCEPT !.step = "read", !.left = Active]
  /\ lost' = FALSE
  /\ UNCHANGED <<clock, schedules, edits, triggers, listener, runs, occurrence,
                 faults, orphaned>>

\* One schedule that cannot be read is left out, and the refresh goes on.
ReadRevision(s) ==
  /\ refresh.step = "read" /\ s \in refresh.left
  /\ \/ /\ refresh' = [refresh EXCEPT
              !.left  = @ \ {s},
              !.times = @ \cup IF s \in Active THEN Current(s) ELSE {}]
        /\ UNCHANGED <<faults, lost>>
     \/ /\ Fault /\ lost' = TRUE
        /\ refresh' = [refresh EXCEPT !.left = @ \ {s}]
  /\ UNCHANGED <<clock, schedules, edits, triggers, listener, runs, occurrence,
                 orphaned>>

\* A slip to catch: the event is cleared after the refresh, not before it.
AfterRefreshCleared ==
  IF listener.state = "starting" THEN Connecting
  ELSE [listener EXCEPT !.state = "waiting", !.wake = FALSE]

AfterRefresh ==
  IF listener.state = "starting" THEN Connecting
  ELSE [listener EXCEPT !.state = "waiting"]

InstallTriggers ==
  /\ refresh.step = "read" /\ refresh.left = {}
  /\ \E grace \in BOOLEAN :        \* a trigger of this very minute may misfire
       triggers' = {t \in refresh.times :
                      t > refresh.since /\ (t > clock \/ (grace /\ t = clock))}
  /\ refresh' = Idle
  /\ listener' = AfterRefresh
  /\ UNCHANGED <<clock, schedules, edits, lost, runs, occurrence, faults, orphaned>>

\* The clocks differ: automatic scheduling is paused, nothing is installed.
RefreshPaused ==
  /\ refresh.step = "list"
  /\ Fault /\ lost' = TRUE
  /\ refresh' = Idle
  /\ listener' = AfterRefresh
  /\ UNCHANGED <<clock, schedules, edits, triggers, runs, occurrence, orphaned>>

\* The calendar or the list fails: the triggers are gone already, the listener reconnects.
RefreshFails ==
  /\ refresh # Idle /\ listener.state = "refreshing"
  /\ Fault
  /\ refresh' = Idle
  /\ listener' = Connecting
  /\ lost' = TRUE
  /\ UNCHANGED <<clock, schedules, edits, triggers, runs, occurrence, orphaned>>

-----------------------------------------------------------------------------
(* The process and its listener.                                            *)

StartScheduler ==
  /\ listener.state = "down"
  /\ BeginRefresh
  /\ listener' = [Down EXCEPT !.state = "starting"]
  /\ UNCHANGED lost

Connect ==
  /\ listener = Connecting
  /\ listener' = [Connecting EXCEPT !.state = "waiting", !.linked = TRUE]
  /\ UNCHANGED <<clock, schedules, edits, triggers, refresh, lost, runs,
                 occurrence, faults, orphaned>>

\* Nothing tells the waiting listener that its connection is gone.
LoseConnection ==
  /\ listener.linked
  /\ Fault
  /\ listener' = [listener EXCEPT !.linked = FALSE]
  /\ UNCHANGED <<clock, schedules, edits, triggers, refresh, lost, runs,
                 occurrence, orphaned>>

Hear ==
  /\ listener.state = "waiting" /\ listener.wake
  /\ listener' = [listener EXCEPT !.state = "refreshing", !.wake = FALSE]
  /\ BeginRefresh
  /\ UNCHANGED lost

-----------------------------------------------------------------------------
(* A trigger fires, and the snapshot it starts.                             *)

Begins(k, step) ==
  \E r \in Run : /\ runs[r] = NoRun
                 /\ runs' = [runs EXCEPT ![r] = [NoRun EXCEPT !.step = step, !.key = k]]

Fire(t) ==
  /\ Up /\ t \in triggers /\ t = clock
  /\ triggers' = triggers \ {t}
  /\ Begins(t, "check")
  /\ UNCHANGED <<clock, schedules, edits, refresh, listener, lost, occurrence,
                 faults, orphaned>>

\* _fire_intraday: too late, or the clocks differ, and nothing happens.
CheckTime(r) ==
  /\ runs[r].step = "check"
  /\ \/ /\ clock = runs[r].key
        /\ runs' = [runs EXCEPT ![r].step = "start"] /\ UNCHANGED faults
     \/ /\ clock > runs[r].key
        /\ runs' = [runs EXCEPT ![r] = NoRun] /\ UNCHANGED faults
     \/ /\ Fault
        /\ runs' = [runs EXCEPT ![r] = NoRun]
  /\ UNCHANGED <<clock, schedules, edits, triggers, refresh, listener, lost,
                 occurrence, orphaned>>

\* A manual snapshot, or the repetition of one: the request itself starts it.
Request(m) ==
  /\ m \in Manual
  /\ Begins(m, "start")
  /\ UNCHANGED <<clock, schedules, edits, triggers, refresh, listener, lost,
                 occurrence, faults, orphaned>>

\* start_snapshot: a row that is still RUNNING is run again.
StartSnapshot(r) ==
  /\ runs[r].step = "start"
  /\ LET k == runs[r].key IN
       IF occurrence[k] \in {"none", "RUNNING"}
         THEN /\ occurrence' = [occurrence EXCEPT ![k] = "RUNNING"]
              /\ runs' = [runs EXCEPT ![r].step = "enter"]
              /\ orphaned' = orphaned \ {k}
         ELSE /\ runs' = [runs EXCEPT ![r] = NoRun]
              /\ UNCHANGED <<occurrence, orphaned>>
  /\ UNCHANGED <<clock, schedules, edits, triggers, refresh, listener, lost, faults>>

\* Its transaction fails, and the trigger or the request with it.
StartFails(r) ==
  /\ runs[r].step = "start" /\ Fault
  /\ runs' = [runs EXCEPT ![r] = NoRun]
  /\ UNCHANGED <<clock, schedules, edits, triggers, refresh, listener, lost,
                 occurrence, orphaned>>

Collecting(p) == {r \in Run : runs[r].step = "collect" /\ Home(runs[r].key) = p}

\* RealtimeQuoteRuntime.run: a held lock means OVERLAP_SKIPPED, recorded FAILED.
Enter(r) ==
  /\ runs[r].step = "enter"
  /\ runs' = [runs EXCEPT ![r] =
       IF Collecting(Home(@.key)) = {}
         THEN [@ EXCEPT !.step = "collect"]
         ELSE [@ EXCEPT !.step = "finish", !.outcome = "FAILED"]]
  /\ UNCHANGED <<clock, schedules, edits, triggers, refresh, listener, lost,
                 occurrence, faults, orphaned>>

Outcome == {"SUCCEEDED", "PARTIAL", "FAILED"}

\* A slip to catch: an exception of the collection is not caught.
EndedUnlessRaised(run, outcome) ==
  IF outcome = "FAILED" THEN NoRun ELSE [run EXCEPT !.step = "finish", !.outcome = outcome]

\* The collector answers, times out or raises: every way has an outcome.
Ended(run, outcome) == [run EXCEPT !.step = "finish", !.outcome = outcome]

Collect(r) ==
  /\ runs[r].step = "collect"
  /\ \E outcome \in Outcome :
       runs' = [runs EXCEPT ![r] = Ended(@, outcome)]
  /\ UNCHANGED <<clock, schedules, edits, triggers, refresh, listener, lost,
                 occurrence, faults, orphaned>>

Finish(r) ==
  /\ runs[r].step = "finish"
  /\ occurrence' = [occurrence EXCEPT ![runs[r].key] = runs[r].outcome]
  /\ runs' = [runs EXCEPT ![r] = NoRun]
  /\ UNCHANGED <<clock, schedules, edits, triggers, refresh, listener, lost,
                 faults, orphaned>>

\* finish_snapshot raises: nothing catches it, and nothing records the end.
FinishFails(r) ==
  /\ runs[r].step = "finish" /\ Fault
  /\ runs' = [runs EXCEPT ![r] = NoRun]
  /\ orphaned' = orphaned \cup {runs[r].key}
  /\ UNCHANGED <<clock, schedules, edits, triggers, refresh, listener, lost, occurrence>>

-----------------------------------------------------------------------------
(* Time and crashes.                                                        *)

Tick ==
  /\ clock < LastMinute
  /\ clock' = clock + 1
  /\ IF Up /\ clock \in triggers
       THEN Fault /\ triggers' = triggers \ {clock}   \* the loop stalled: misfired
       ELSE UNCHANGED <<triggers, faults>>
  /\ UNCHANGED <<schedules, edits, refresh, listener, lost, runs, occurrence,
                 orphaned>>

Gone(p) == [r \in Run |-> IF runs[r] # NoRun /\ Home(runs[r].key) = p
                            THEN NoRun ELSE runs[r]]

\* The runs of a key that have started its row and not yet ended it.
Holding(k) == {r \in Run : runs[r].key = k /\ runs[r].step \in {"enter", "collect", "finish"}}

Crash(p) ==
  /\ Fault
  /\ runs' = Gone(p)
  /\ orphaned' = orphaned \cup {k \in Key : Home(k) = p /\ Holding(k) # {}}
  /\ IF p = "scheduler"
       THEN /\ Up /\ listener' = Down
            /\ triggers' = {} /\ refresh' = Idle /\ lost' = FALSE
       ELSE UNCHANGED <<listener, triggers, refresh, lost>>
  /\ UNCHANGED <<clock, schedules, edits, occurrence>>

SchedulerNext ==
  \/ \E s \in Schedule, times \in SUBSET Times : Update(s, times)
  \/ \E s \in Schedule : \E n \in 1..Len(schedules[s].revisions) : Restore(s, n)
  \/ \E s \in Schedule : Archive(s) \/ ReadRevision(s)
  \/ List \/ InstallTriggers \/ RefreshPaused \/ RefreshFails
  \/ StartScheduler \/ Connect \/ LoseConnection \/ Hear
  \/ \E t \in Times : Fire(t)
  \/ \E m \in Manual : Request(m)
  \/ \E r \in Run : CheckTime(r) \/ StartSnapshot(r) \/ Enter(r) \/ Collect(r)
                      \/ Finish(r) \/ StartFails(r) \/ FinishFails(r)
  \/ Tick
  \/ \E p \in Process : Crash(p)

SchedulerSpec == SchedulerInit /\ [][SchedulerNext]_schedulerVars

-----------------------------------------------------------------------------
(* No edit is forgotten: when the listener waits, has nothing to hear and   *)
(* no notification was lost, the triggers of the rest of the day are those  *)
(* of the schedules as they are now.  An edit that commits while a refresh  *)
(* is reading is the case to get right.                                     *)
TriggersFollow ==
  listener.state = "waiting" /\ ~listener.wake /\ ~lost
    => \A t \in Times : t > clock => (t \in triggers <=> t \in Configured)

(* A snapshot that is RUNNING is being run, unless since its last start a   *)
(* process that ran it crashed or an end could not be recorded: every other *)
(* way out of the collection records an end, no repetition of the request   *)
(* opens a row that has ended, and a row left behind is run again by the    *)
(* next repetition, whose run then holds it.                                *)
RunningIsHeld ==
  \A k \in Key : occurrence[k] = "RUNNING" /\ k \notin orphaned => Holding(k) # {}

\* The day's triggers follow the schedules, and a row that is RUNNING is held by
\* a run or was left behind by one that was lost.
IntradaySound == TriggersFollow /\ RunningIsHeld
=============================================================================
