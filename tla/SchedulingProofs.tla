-------------------------- MODULE SchedulingProofs --------------------------
(***************************************************************************)
(* Proofs about the four components that MCScheduling runs, each for any   *)
(* values of its constants.                                                *)
(*                                                                         *)
(* Intraday: an edit is either in what a refresh has read or still to be   *)
(* heard (Follows), and a run of an occurrence holds it until it records   *)
(* an end or its key is orphaned (StillHeld; RunsTyped says what runs      *)
(* are).  Cycles: only an open cycle has anything left to do (CycleOpen).  *)
(* Subscriptions: what a request has seen was true of the revision it read *)
(* (SeenOf).  Daily: a date a batch has collected was a date of its plan,  *)
(* and is counted once (DatesDone, FirstCollected).                        *)
(***************************************************************************)
EXTENDS MCScheduling, FiniteSetTheorems, SequenceTheorems, TLAPS

-----------------------------------------------------------------------------
(* The intraday scheduler.                                                  *)

HolderSteps == {"enter", "collect", "finish"}

RunsTyped ==
  /\ runs \in [Run -> [step : {"none", "check", "start"} \cup HolderSteps,
                       key : Key \cup {0}, outcome : Outcome \cup {"none"}]]
  /\ \A r \in Run : runs[r].step = "finish" => runs[r].outcome \in Outcome
  /\ occurrence \in [Key -> {"none", "RUNNING"} \cup Outcome]

SchedulesTyped ==
  /\ clock \in Nat
  /\ schedules \in [Schedule -> [revisions : Seq(SUBSET Times), archived : BOOLEAN]]
  /\ \A s \in Schedule : schedules[s].revisions # <<>>
  /\ triggers \subseteq Times /\ lost \in BOOLEAN
  /\ refresh \in [step : {"idle", "list", "read"}, since : 0..clock,
                  left : SUBSET Schedule, times : SUBSET Times]
  /\ listener \in [state : {"down", "starting", "connecting", "waiting", "refreshing"},
                   linked : BOOLEAN, wake : BOOLEAN]

\* Who refreshes holds the refresh, and only a connected listener hears.
Listens ==
  /\ refresh # Idle <=> listener.state \in {"starting", "refreshing"}
  /\ refresh.step = "idle" <=> refresh = Idle
  /\ listener.state \in {"down", "starting", "connecting"} =>
       ~listener.linked /\ ~listener.wake

\* As long as no edit is still to be heard of and none was lost, what a refresh has
\* read is what the schedules say, and what it has installed as well.
Follows ==
  /\ refresh.step = "list" => refresh.times = {}
  /\ ~listener.wake /\ ~lost =>
       /\ listener.state \in {"connecting", "waiting"} =>
            \A t \in Times : t > clock => (t \in triggers <=> t \in Configured)
       /\ refresh.step = "read" =>
            /\ refresh.left \subseteq Active
            /\ refresh.times = UNION {Current(s) : s \in Active \ refresh.left}

IntradayInv == RunsTyped /\ RunningIsHeld /\ SchedulesTyped /\ Listens /\ Follows

\* Steps of the snapshots alone, and all others.
LEMMA RunsStay ==
  ASSUME RunsTyped, RunningIsHeld, UNCHANGED <<runs, occurrence, orphaned>>
  PROVE  RunsTyped' /\ RunningIsHeld'
BY DEF RunsTyped, RunningIsHeld, Holding

LEMMA SchedulesStay ==
  ASSUME SchedulesTyped, Listens, Follows,
         UNCHANGED <<clock, schedules, triggers, refresh, listener, lost>>
  PROVE  SchedulesTyped' /\ Listens' /\ Follows'
<1>1. Configured' = Configured /\ Active' = Active /\ \A s \in Schedule : Current(s)' = Current(s)
  BY DEF Configured, Active, Current
<1>2. SchedulesTyped'
  BY DEF SchedulesTyped
<1>3. Listens'
  BY DEF Listens, Idle
<1>4. Follows'
  <2>1. refresh.step = "read" /\ refresh.left \subseteq Active =>
          UNION {Current(s)' : s \in Active' \ refresh.left'}
            = UNION {Current(s) : s \in Active \ refresh.left}
    BY <1>1 DEF Active
  <2> QED BY <1>1, <2>1 DEF Follows
<1> QED BY <1>2, <1>3, <1>4

LEMMA IntradayInit == SchedulerInit => IntradayInv
<1> SUFFICES ASSUME SchedulerInit PROVE IntradayInv
  OBVIOUS
<1>1. RunsTyped /\ RunningIsHeld
  BY DEF SchedulerInit, RunsTyped, RunningIsHeld, NoRun, Outcome
<1>2. SchedulesTyped
  <2>1. <<Times>> \in Seq(SUBSET Times) /\ <<Times>> # <<>>
    OBVIOUS
  <2>2. refresh \in [step : {"idle", "list", "read"}, since : 0..clock,
                     left : SUBSET Schedule, times : SUBSET Times]
    BY DEF SchedulerInit, Idle
  <2>3. \A s \in Schedule : schedules[s].revisions = <<Times>>
    BY DEF SchedulerInit
  <2>4. schedules \in [Schedule -> [revisions : Seq(SUBSET Times), archived : BOOLEAN]]
    BY <2>1 DEF SchedulerInit
  <2> QED BY <2>1, <2>2, <2>3, <2>4 DEF SchedulerInit, SchedulesTyped, Down
<1>3. Listens /\ Follows
  BY DEF SchedulerInit, Listens, Follows, Idle, Down
<1> QED BY <1>1, <1>2, <1>3 DEF IntradayInv

\* An edit is heard of or counted as lost, whatever it says.
LEMMA EditKeeps ==
  ASSUME IntradayInv, NEW s \in Schedule, Notified,
         schedules' \in [Schedule -> [revisions : Seq(SUBSET Times), archived : BOOLEAN]],
         \A z \in Schedule : schedules'[z].revisions # <<>>
  PROVE  IntradayInv'
<1> USE DEF IntradayInv
<1>1. RunsTyped' /\ RunningIsHeld'
  BY RunsStay DEF Notified
<1>2. SchedulesTyped'
  BY DEF SchedulesTyped, Notified
<1>3. Listens'
  BY DEF Listens, Notified, SchedulesTyped, Idle
<1>4. Follows'
  <2>1. listener'.wake \/ lost'
    BY DEF Notified, SchedulesTyped
  <2> QED BY <2>1 DEF Follows, Notified
<1> QED BY <1>1, <1>2, <1>3, <1>4

\* A refresh begins with nothing installed and nothing read.
LEMMA BeginKeeps ==
  ASSUME IntradayInv, StartScheduler \/ Hear
  PROVE  IntradayInv'
<1> USE DEF IntradayInv
<1>1. RunsTyped' /\ RunningIsHeld'
  BY RunsStay DEF StartScheduler, Hear, BeginRefresh
<1>2. /\ refresh' = [step |-> "list", since |-> clock, left |-> {}, times |-> {}]
      /\ refresh' # Idle
  <2>1. refresh' = [Idle EXCEPT !.step = "list", !.since = clock]
    BY DEF StartScheduler, Hear, BeginRefresh
  <2>2. refresh' = [step |-> "list", since |-> clock, left |-> {}, times |-> {}]
    BY <2>1 DEF Idle
  <2>3. refresh'.step = "list" /\ Idle.step = "idle"
    BY <2>2 DEF Idle
  <2> QED BY <2>2, <2>3
<1>3. SchedulesTyped'
  <2>1. listener' \in [state : {"down", "starting", "connecting", "waiting", "refreshing"},
                       linked : BOOLEAN, wake : BOOLEAN]
    BY DEF SchedulesTyped, StartScheduler, Hear, Down
  <2>2. refresh' \in [step : {"idle", "list", "read"}, since : 0..clock,
                      left : SUBSET Schedule, times : SUBSET Times]
    BY <1>2 DEF SchedulesTyped
  <2> QED BY <2>1, <2>2 DEF SchedulesTyped, StartScheduler, Hear, BeginRefresh
<1>4. Listens'
  BY <1>2 DEF Listens, StartScheduler, Hear, Down, SchedulesTyped
<1>5. Follows'
  BY <1>2 DEF Follows, StartScheduler, Hear, Down, SchedulesTyped
<1> QED BY <1>1, <1>3, <1>4, <1>5

\* The list is what is active now; what was edited before is in it.
LEMMA ListKeeps ==
  ASSUME IntradayInv, List
  PROVE  IntradayInv'
<1> USE DEF IntradayInv
<1>1. RunsTyped' /\ RunningIsHeld'
  BY RunsStay DEF List
<1>2. Active' = Active /\ Active \subseteq Schedule
  BY DEF List, Active
<1>3. SchedulesTyped'
  BY <1>2 DEF List, SchedulesTyped
<1>4. Listens'
  BY DEF List, Listens, Idle, SchedulesTyped
<1>5. refresh'.step = "read" /\ refresh'.left = Active' /\ refresh'.times = {}
  BY <1>2 DEF List, SchedulesTyped, Follows
<1>6. Follows'
  <2>1. listener.state \notin {"connecting", "waiting"}
    BY DEF List, Listens, Idle
  <2> QED BY <1>5, <2>1 DEF Follows, List
<1> QED BY <1>1, <1>3, <1>4, <1>6

\* Each schedule is read as it is, or the refresh counts as lost.
LEMMA ReadKeeps ==
  ASSUME IntradayInv, NEW s \in Schedule, ReadRevision(s)
  PROVE  IntradayInv'
<1> USE DEF IntradayInv
<1>1. RunsTyped' /\ RunningIsHeld'
  BY RunsStay DEF ReadRevision
<1>2. Active' = Active /\ \A z \in Schedule : Current(z)' = Current(z)
  BY DEF ReadRevision, Active, Current
<1>3. Current(s) \in SUBSET Times
  BY DEF SchedulesTyped, Current
<1>4. SchedulesTyped'
  <2>1. refresh' \in [step : {"idle", "list", "read"}, since : 0..clock,
                      left : SUBSET Schedule, times : SUBSET Times]
    BY <1>3, ZenonT(30) DEF ReadRevision, SchedulesTyped
  <2> QED BY <2>1 DEF ReadRevision, SchedulesTyped
<1>5. refresh.step = "read" /\ refresh'.step = "read"
  BY DEF ReadRevision, SchedulesTyped
<1>6. Listens'
  BY <1>5 DEF ReadRevision, Listens, Idle
<1>7. listener.state \notin {"connecting", "waiting"}
  BY <1>5 DEF Listens, Idle
<1>8. ASSUME ~listener'.wake, ~lost'
      PROVE  /\ refresh'.left \subseteq Active
             /\ refresh'.times = UNION {Current(z) : z \in Active \ refresh'.left}
  <2>1. ~listener.wake /\ ~lost /\ s \in refresh.left
        /\ refresh'.left = refresh.left \ {s}
        /\ refresh'.times = refresh.times \cup IF s \in Active THEN Current(s) ELSE {}
    <3>1. lost \in BOOLEAN /\ listener' = listener
      BY DEF ReadRevision, SchedulesTyped
    <3>2. refresh' = [refresh EXCEPT
              !.left  = @ \ {s},
              !.times = @ \cup IF s \in Active THEN Current(s) ELSE {}] /\ lost' = lost
      BY <1>8 DEF ReadRevision
    <3> QED BY <1>8, <3>1, <3>2 DEF ReadRevision, SchedulesTyped
  <2>2. refresh.left \subseteq Active
        /\ refresh.times = UNION {Current(z) : z \in Active \ refresh.left}
    BY <1>5, <2>1 DEF Follows
  <2>3. Active \ refresh'.left = (Active \ refresh.left) \cup {s} /\ s \in Active
    BY <2>1, <2>2
  <2> QED BY <2>1, <2>2, <2>3
<1>9. Follows'
  <2>1. refresh'.step = "read" =>
          UNION {Current(z)' : z \in Active' \ refresh'.left}
            = UNION {Current(z) : z \in Active \ refresh'.left}
    BY <1>2 DEF Active
  <2> QED BY <1>2, <1>5, <1>7, <1>8, <2>1 DEF Follows, ReadRevision
<1> QED BY <1>1, <1>4, <1>6, <1>9

\* What is installed is what was read, of the minutes that are still to come.
LEMMA InstallKeeps ==
  ASSUME IntradayInv, InstallTriggers
  PROVE  IntradayInv'
<1> USE DEF IntradayInv
<1>1. RunsTyped' /\ RunningIsHeld'
  BY RunsStay DEF InstallTriggers
<1>2. PICK grace \in BOOLEAN :
        triggers' = {t \in refresh.times :
                       t > refresh.since /\ (t > clock \/ (grace /\ t = clock))}
  BY DEF InstallTriggers
<1>3. SchedulesTyped'
  <2>1. listener' \in [state : {"down", "starting", "connecting", "waiting", "refreshing"},
                       linked : BOOLEAN, wake : BOOLEAN]
    BY DEF InstallTriggers, AfterRefresh, Connecting, SchedulesTyped
  <2>2. triggers' \subseteq Times
    BY <1>2 DEF SchedulesTyped
  <2>3. refresh' \in [step : {"idle", "list", "read"}, since : 0..clock,
                      left : SUBSET Schedule, times : SUBSET Times]
    BY DEF InstallTriggers, Idle, SchedulesTyped
  <2> QED BY <2>1, <2>2, <2>3 DEF InstallTriggers, SchedulesTyped
<1>4. refresh # Idle /\ refresh' = Idle /\ refresh'.step = "idle"
  BY DEF InstallTriggers, Idle
<1>5. Listens'
  BY <1>4 DEF InstallTriggers, AfterRefresh, Connecting, Listens, SchedulesTyped
<1>6. ASSUME ~listener'.wake, ~lost', NEW t \in Times, t > clock
      PROVE  t \in triggers' <=> t \in Configured
  <2>1. ~listener.wake /\ ~lost
    BY <1>4, <1>6 DEF InstallTriggers, AfterRefresh, Listens, SchedulesTyped
  <2>2. refresh.times = UNION {Current(s) : s \in Active \ refresh.left} /\ refresh.left = {}
    BY <2>1 DEF Follows, InstallTriggers
  <2>3. refresh.times = Configured
    BY <2>2 DEF Configured
  <2>4. t > refresh.since
    BY <1>6, IntradayAssumption DEF SchedulesTyped
  <2> QED BY <1>2, <1>6, <2>3, <2>4
<1>7. Configured' = Configured
  BY DEF InstallTriggers, Configured, Active, Current
<1>8. Follows'
  BY <1>4, <1>6, <1>7 DEF Follows, InstallTriggers
<1> QED BY <1>1, <1>3, <1>5, <1>8

\* A refresh that ends without its triggers counts as lost.
LEMMA RefreshEndsKeep ==
  ASSUME IntradayInv, RefreshPaused \/ RefreshFails
  PROVE  IntradayInv'
<1> USE DEF IntradayInv
<1>1. RunsTyped' /\ RunningIsHeld'
  BY RunsStay DEF RefreshPaused, RefreshFails
<1>2. refresh # Idle /\ refresh' = Idle /\ refresh'.step = "idle" /\ lost' = TRUE
  BY DEF RefreshPaused, RefreshFails, Idle
<1>3. SchedulesTyped'
  <2>1. listener' \in [state : {"down", "starting", "connecting", "waiting", "refreshing"},
                       linked : BOOLEAN, wake : BOOLEAN]
    <3>1. CASE RefreshPaused
      BY <3>1 DEF RefreshPaused, AfterRefresh, Connecting, SchedulesTyped
    <3>2. CASE RefreshFails
      BY <3>2 DEF RefreshFails, Connecting, SchedulesTyped
    <3> QED BY <3>1, <3>2
  <2>2. refresh' \in [step : {"idle", "list", "read"}, since : 0..clock,
                      left : SUBSET Schedule, times : SUBSET Times]
    BY <1>2 DEF Idle, SchedulesTyped
  <2> QED BY <1>2, <2>1, <2>2 DEF RefreshPaused, RefreshFails, SchedulesTyped
<1>4. Listens'
  BY <1>2 DEF RefreshPaused, RefreshFails, AfterRefresh, Connecting, Listens, SchedulesTyped
<1>5. Follows'
  BY <1>2 DEF Follows
<1> QED BY <1>1, <1>3, <1>4, <1>5

\* A connection comes and goes between refreshes.
LEMMA ConnectionKeeps ==
  ASSUME IntradayInv, Connect \/ LoseConnection
  PROVE  IntradayInv'
<1> USE DEF IntradayInv
<1>1. RunsTyped' /\ RunningIsHeld'
  BY RunsStay DEF Connect, LoseConnection
<1>2. SchedulesTyped'
  BY DEF Connect, LoseConnection, Connecting, SchedulesTyped
<1>3. Listens'
  <2>1. CASE Connect
    BY <2>1 DEF Connect, Connecting, Listens
  <2>2. CASE LoseConnection
    BY <2>2 DEF LoseConnection, Listens, SchedulesTyped
  <2> QED BY <2>1, <2>2
<1>4. Configured' = Configured /\ Active' = Active /\ \A s \in Schedule : Current(s)' = Current(s)
  BY DEF Connect, LoseConnection, Configured, Active, Current
<1>5. /\ listener'.wake = listener.wake /\ lost' = lost
      /\ listener'.state \in {"connecting", "waiting"} =>
           listener.state \in {"connecting", "waiting"}
      /\ UNCHANGED <<refresh, triggers, clock>>
  <2>1. CASE Connect
    BY <2>1 DEF Connect, Connecting
  <2>2. CASE LoseConnection
    BY <2>2 DEF LoseConnection, SchedulesTyped
  <2> QED BY <2>1, <2>2
<1>6. refresh.step = "read" /\ refresh.left \subseteq Active =>
        UNION {Current(s)' : s \in Active' \ refresh.left'}
          = UNION {Current(s) : s \in Active \ refresh.left}
  BY <1>4, <1>5 DEF Active
<1>7. Follows'
  BY <1>4, <1>5, <1>6 DEF Follows
<1> QED BY <1>1, <1>2, <1>3, <1>7

SnapshotStep(r) ==
  \/ CheckTime(r) \/ StartSnapshot(r) \/ StartFails(r) \/ Enter(r) \/ Collect(r)
  \/ Finish(r) \/ FinishFails(r)

\* Runs that hold their keys go on holding them, or their keys are orphaned.
LEMMA StillHeld ==
  ASSUME RunningIsHeld, orphaned \subseteq orphaned',
         \A k \in Key : occurrence'[k] = "RUNNING" => occurrence[k] = "RUNNING",
         \A k \in Key, r \in Run : occurrence'[k] = "RUNNING" /\ r \in Holding(k) =>
                                   k \in orphaned' \/ r \in Holding(k)'
  PROVE  RunningIsHeld'
BY DEF RunningIsHeld, Holding

\* A snapshot that starts or is under way: what is RUNNING stays held, by the run that
\* began it or another of its key, until one of them records its end or fails to.
LEMMA SnapshotKeeps ==
  ASSUME RunsTyped, RunningIsHeld,
         \/ /\ \/ \E t \in Times : Begins(t, "check")
               \/ \E m \in Manual : Begins(m, "start")
            /\ UNCHANGED <<occurrence, orphaned>>
         \/ \E r \in Run : SnapshotStep(r)
  PROVE  RunsTyped' /\ RunningIsHeld'
<1> DEFINE RunType == [step : {"none", "check", "start"} \cup HolderSteps,
                       key : Key \cup {0}, outcome : Outcome \cup {"none"}]
<1>0. /\ NoRun \in RunType /\ NoRun.step = "none" /\ DOMAIN runs = Run
      /\ \A k \in Key, r \in Run :
           r \in Holding(k) <=> runs[r].key = k /\ runs[r].step \in HolderSteps
  BY DEF NoRun, HolderSteps, Holding, RunsTyped
<1>1. ASSUME NEW k \in Key, NEW step \in {"check", "start"}, Begins(k, step),
             UNCHANGED <<occurrence, orphaned>>
      PROVE  RunsTyped' /\ RunningIsHeld'
  <2>1. PICK r \in Run : /\ runs[r] = NoRun
                         /\ runs' = [runs EXCEPT ![r] = [NoRun EXCEPT !.step = step, !.key = k]]
    BY <1>1 DEF Begins
  <2>2. /\ [NoRun EXCEPT !.step = step, !.key = k] \in RunType
        /\ [NoRun EXCEPT !.step = step, !.key = k].step # "finish"
    BY <1>0
  <2>3. RunsTyped'
    BY <1>1, <2>1, <2>2 DEF RunsTyped, HolderSteps
  <2>4. \A l \in Key, q \in Run : q \in Holding(l) => q \in Holding(l)'
    BY <1>0, <2>1 DEF Holding, HolderSteps
  <2>5. RunningIsHeld'
    BY <1>1, <2>4, StillHeld
  <2> QED BY <2>3, <2>5
<1>2. ASSUME NEW r \in Run, CheckTime(r) \/ StartFails(r)
      PROVE  RunsTyped' /\ RunningIsHeld'
  <2>1. runs' \in {[runs EXCEPT ![r].step = "start"], [runs EXCEPT ![r] = NoRun]}
        /\ runs[r].step \in {"check", "start"} /\ UNCHANGED <<occurrence, orphaned>>
    BY <1>2 DEF CheckTime, StartFails
  <2>2. RunsTyped'
    BY <1>0, <2>1 DEF RunsTyped, HolderSteps
  <2>3. \A l \in Key, q \in Run : q \in Holding(l) => q \in Holding(l)'
    BY <1>0, <2>1 DEF Holding, HolderSteps
  <2>4. RunningIsHeld'
    BY <2>1, <2>3, StillHeld
  <2> QED BY <2>2, <2>4
<1>3. ASSUME NEW r \in Run, StartSnapshot(r)
      PROVE  RunsTyped' /\ RunningIsHeld'
  <2> DEFINE k == runs[r].key
  <2>1. runs[r].step = "start"
    BY <1>3 DEF StartSnapshot
  <2>2. CASE occurrence[k] \in {"none", "RUNNING"}
    <3>1. /\ occurrence' = [occurrence EXCEPT ![k] = "RUNNING"]
          /\ runs' = [runs EXCEPT ![r].step = "enter"] /\ orphaned' = orphaned \ {k}
      BY <1>3, <2>2 DEF StartSnapshot
    <3>2. RunsTyped'
      BY <3>1 DEF RunsTyped, HolderSteps
    <3>3. runs'[r].step = "enter" /\ runs'[r].key = k
          /\ \A q \in Run : q # r => runs'[q] = runs[q]
      BY <1>0, <3>1
    <3>4. \A l \in Key : (l = k => r \in Holding(l)')
                       /\ \A q \in Run : q \in Holding(l) => q \in Holding(l)'
      BY <1>0, <2>1, <3>3 DEF Holding, HolderSteps
    <3>5. \A l \in Key : l # k => occurrence'[l] = occurrence[l] /\ (l \in orphaned => l \in orphaned')
      BY <3>1 DEF RunsTyped
    <3>6. ASSUME NEW l \in Key, occurrence'[l] = "RUNNING", l \notin orphaned'
          PROVE  Holding(l)' # {}
      <4>1. CASE l = k BY <3>4, <4>1
      <4>2. CASE l # k
        <5>1. Holding(l) # {} BY <3>5, <3>6, <4>2 DEF RunningIsHeld
        <5>2. Holding(l) \subseteq Run BY DEF Holding
        <5> QED BY <3>4, <5>1, <5>2
      <4> QED BY <4>1, <4>2
    <3>7. RunningIsHeld'
      BY <3>6 DEF RunningIsHeld
    <3> QED BY <3>2, <3>7
  <2>3. CASE occurrence[k] \notin {"none", "RUNNING"}
    <3>1. UNCHANGED <<occurrence, orphaned>> /\ runs' = [runs EXCEPT ![r] = NoRun]
      BY <1>3, <2>3 DEF StartSnapshot
    <3>2. RunsTyped'
      BY <1>0, <3>1 DEF RunsTyped
    <3>3. \A l \in Key, q \in Run : q \in Holding(l) => q \in Holding(l)'
      BY <1>0, <2>1, <3>1 DEF Holding, HolderSteps
    <3>4. RunningIsHeld'
      BY <3>1, <3>3, StillHeld
    <3> QED BY <3>2, <3>4
  <2> QED BY <2>2, <2>3
<1>4. ASSUME NEW r \in Run, Enter(r) \/ Collect(r)
      PROVE  RunsTyped' /\ RunningIsHeld'
  <2>1. PICK run : /\ runs' = [runs EXCEPT ![r] = run]
                   /\ \/ run = [runs[r] EXCEPT !.step = "collect"]
                      \/ \E outcome \in Outcome :
                           run = [runs[r] EXCEPT !.step = "finish", !.outcome = outcome]
    BY <1>4 DEF Enter, Collect, Ended, Outcome, RunsTyped
  <2>2. run \in RunType /\ run.key = runs[r].key /\ run.step \in HolderSteps
        /\ (run.step = "finish" => run.outcome \in Outcome)
    BY <2>1 DEF RunsTyped, HolderSteps
  <2>3. UNCHANGED <<occurrence, orphaned>>
    BY <1>4 DEF Enter, Collect
  <2>4. RunsTyped'
    BY <2>1, <2>2, <2>3 DEF RunsTyped
  <2>5. \A l \in Key, q \in Run : q \in Holding(l) => q \in Holding(l)'
    BY <1>0, <2>1, <2>2 DEF Holding, HolderSteps
  <2>6. RunningIsHeld'
    BY <2>3, <2>5, StillHeld
  <2> QED BY <2>4, <2>6
<1>5. ASSUME NEW r \in Run, Finish(r)
      PROVE  RunsTyped' /\ RunningIsHeld'
  <2>1. /\ occurrence' = [occurrence EXCEPT ![runs[r].key] = runs[r].outcome]
        /\ runs' = [runs EXCEPT ![r] = NoRun] /\ runs[r].outcome \in Outcome
        /\ UNCHANGED orphaned
    BY <1>5 DEF Finish, RunsTyped
  <2>2. RunsTyped'
    BY <1>0, <2>1 DEF RunsTyped
  <2>3. \A l \in Key, q \in Run : l # runs[r].key /\ q \in Holding(l) => q \in Holding(l)'
    BY <1>0, <2>1 DEF Holding, HolderSteps
  <2>4. \A l \in Key : occurrence'[l] = "RUNNING" => l # runs[r].key /\ occurrence[l] = "RUNNING"
    BY <2>1 DEF RunsTyped, Outcome
  <2>5. RunningIsHeld'
    BY <2>1, <2>3, <2>4, StillHeld
  <2> QED BY <2>2, <2>5
<1>6. ASSUME NEW r \in Run, FinishFails(r)
      PROVE  RunsTyped' /\ RunningIsHeld'
  <2>1. /\ runs' = [runs EXCEPT ![r] = NoRun] /\ UNCHANGED occurrence
        /\ orphaned' = orphaned \cup {runs[r].key} /\ runs[r].step = "finish"
    BY <1>6 DEF FinishFails
  <2>2. RunsTyped'
    BY <1>0, <2>1 DEF RunsTyped
  <2>3. \A l \in Key, q \in Run : q \in Holding(l) => l \in orphaned' \/ q \in Holding(l)'
    BY <1>0, <2>1 DEF Holding, HolderSteps
  <2>4. RunningIsHeld'
    BY <2>1, <2>3, StillHeld
  <2> QED BY <2>2, <2>4
<1> QED BY <1>1, <1>2, <1>3, <1>4, <1>5, <1>6 DEF Key, SnapshotStep

\* Snapshots do not touch the schedules, except that a trigger that fires is gone.
LEMMA SnapshotsKeep ==
  ASSUME IntradayInv,
         \/ \E t \in Times : Fire(t)
         \/ \E m \in Manual : Request(m)
         \/ \E r \in Run : SnapshotStep(r)
  PROVE  IntradayInv'
<1> USE DEF IntradayInv, SnapshotStep
<1>1. RunsTyped' /\ RunningIsHeld'
  BY SnapshotKeeps DEF Fire, Request
<1>2. ASSUME NEW t \in Times, Fire(t)
      PROVE  SchedulesTyped' /\ Listens' /\ Follows'
  <2>1. triggers' = triggers \ {clock} /\ UNCHANGED <<clock, schedules, refresh, listener, lost>>
    BY <1>2 DEF Fire
  <2>2. SchedulesTyped'
    BY <2>1 DEF SchedulesTyped
  <2>3. Listens'
    BY <2>1 DEF Listens, Idle
  <2>4. Configured' = Configured /\ Active' = Active /\ \A s \in Schedule : Current(s)' = Current(s)
    BY <2>1 DEF Configured, Active, Current
  <2>5. refresh.step = "read" /\ refresh.left \subseteq Active =>
          UNION {Current(s)' : s \in Active' \ refresh.left'}
            = UNION {Current(s) : s \in Active \ refresh.left}
    BY <2>1, <2>4 DEF Active
  <2>6. \A t1 \in Times : t1 > clock => (t1 \in triggers' <=> t1 \in triggers)
    BY <2>1, IntradayAssumption DEF SchedulesTyped
  <2>7. Follows'
    BY <2>1, <2>4, <2>5, <2>6 DEF Follows
  <2> QED BY <2>2, <2>3, <2>7
<1>3. ASSUME UNCHANGED <<clock, schedules, triggers, refresh, listener, lost>>
      PROVE  SchedulesTyped' /\ Listens' /\ Follows'
  BY <1>3, SchedulesStay DEF SchedulesTyped
<1> QED BY <1>1, <1>2, <1>3
        DEF Request, CheckTime, StartSnapshot, StartFails, Enter, Collect, Finish, FinishFails

\* A minute passes: what is still to come was to come before.
LEMMA TickKeeps ==
  ASSUME IntradayInv, Tick
  PROVE  IntradayInv'
<1> USE DEF IntradayInv
<1>1. RunsTyped' /\ RunningIsHeld'
  BY RunsStay DEF Tick
<1>2. clock' = clock + 1 /\ clock \in Nat /\ triggers' \in {triggers, triggers \ {clock}}
      /\ UNCHANGED <<schedules, refresh, listener, lost>>
  BY DEF Tick, SchedulesTyped
<1>3. SchedulesTyped'
  <2>1. 0..clock \subseteq 0..clock'
    BY <1>2
  <2>2. refresh \in [step : {"idle", "list", "read"}, since : 0..clock',
                     left : SUBSET Schedule, times : SUBSET Times]
    BY <2>1 DEF SchedulesTyped
  <2> QED BY <1>2, <2>2 DEF SchedulesTyped
<1>4. Listens'
  BY <1>2 DEF Listens, Idle
<1>5. Configured' = Configured /\ Active' = Active /\ \A s \in Schedule : Current(s)' = Current(s)
  BY <1>2 DEF Configured, Active, Current
<1>6. refresh.step = "read" /\ refresh.left \subseteq Active =>
        UNION {Current(s)' : s \in Active' \ refresh.left'}
          = UNION {Current(s) : s \in Active \ refresh.left}
  BY <1>2, <1>5 DEF Active
<1>7. \A t \in Times : t > clock' => t > clock /\ (t \in triggers' <=> t \in triggers)
  BY <1>2, IntradayAssumption
<1>8. Follows'
  BY <1>2, <1>5, <1>6, <1>7 DEF Follows
<1> QED BY <1>1, <1>3, <1>4, <1>8

\* A crash takes the triggers, the listener and the runs of its process with it.
LEMMA CrashKeeps ==
  ASSUME IntradayInv, NEW p \in Process, Crash(p)
  PROVE  IntradayInv'
<1> USE DEF IntradayInv
<1>1. RunsTyped'
  <2>1. \A r \in Run : runs'[r] \in {runs[r], NoRun}
    BY DEF Crash, Gone
  <2>2. runs' = [r \in Run |-> runs'[r]]
    BY DEF Crash, Gone
  <2>3. NoRun \in [step : {"none", "check", "start"} \cup HolderSteps,
                   key : Key \cup {0}, outcome : Outcome \cup {"none"}] /\ NoRun.step = "none"
    BY DEF NoRun, HolderSteps
  <2> QED BY <2>1, <2>2, <2>3 DEF RunsTyped, Crash
<1>2. RunningIsHeld'
  <2>1. /\ orphaned' = orphaned \cup {k \in Key : Home(k) = p /\ Holding(k) # {}}
        /\ UNCHANGED occurrence
    BY DEF Crash
  <2>2. ASSUME NEW k \in Key, NEW r \in Run, r \in Holding(k), k \notin orphaned'
        PROVE  r \in Holding(k)'
    <3>1. runs[r].key = k /\ Home(k) # p
      BY <2>1, <2>2 DEF Holding
    <3>2. runs'[r] = runs[r]
      BY <3>1 DEF Crash, Gone
    <3> QED BY <2>2, <3>2 DEF Holding
  <2> QED BY <2>1, <2>2, StillHeld
<1>3. CASE p = "scheduler"
  <2>1. /\ listener' = Down /\ triggers' = {} /\ refresh' = Idle /\ lost' = FALSE
        /\ UNCHANGED <<clock, schedules>>
    BY <1>3 DEF Crash
  <2>2. SchedulesTyped'
    <3>1. refresh' \in [step : {"idle", "list", "read"}, since : 0..clock,
                        left : SUBSET Schedule, times : SUBSET Times]
      BY <2>1 DEF Idle, SchedulesTyped
    <3> QED BY <1>2, <2>1, <3>1 DEF SchedulesTyped, Down
  <2>3. Listens' /\ Follows'
    BY <2>1 DEF Listens, Follows, Down, Idle
  <2> QED BY <1>1, <1>2, <2>2, <2>3
<1>4. CASE p # "scheduler"
  <2>1. UNCHANGED <<listener, triggers, refresh, lost, clock, schedules>>
    BY <1>4 DEF Crash
  <2> QED BY <1>1, <1>2, <2>1, SchedulesStay
<1> QED BY <1>3, <1>4

LEMMA IntradayStep ==
  ASSUME IntradayInv, [SchedulerNext]_schedulerVars
  PROVE  IntradayInv'
<1>1. ASSUME NEW s \in Schedule, NEW times \in SUBSET Times, Revised(s, times), Notified
      PROVE  IntradayInv'
  <2>1. schedules' = [schedules EXCEPT ![s].revisions = Append(@, times)]
    BY <1>1 DEF Revised
  <2>2. ASSUME NEW z \in Schedule
        PROVE  /\ schedules[z].revisions \in Seq(SUBSET Times) /\ schedules[z].revisions # <<>>
               /\ Append(schedules[z].revisions, times) \in Seq(SUBSET Times)
               /\ Append(schedules[z].revisions, times) # <<>>
    <3>1. schedules[z].revisions \in Seq(SUBSET Times) /\ schedules[z].revisions # <<>>
      BY DEF IntradayInv, SchedulesTyped
    <3>2. \A q \in Seq(SUBSET Times) :
            Append(q, times) \in Seq(SUBSET Times) /\ Append(q, times) # <<>>
      BY AppendProperties
    <3> QED BY <3>1, <3>2
  <2>3. /\ schedules' \in [Schedule -> [revisions : Seq(SUBSET Times), archived : BOOLEAN]]
        /\ \A z \in Schedule : schedules'[z].revisions # <<>>
    BY <2>1, <2>2 DEF IntradayInv, SchedulesTyped
  <2> QED BY <1>1, <2>3, EditKeeps
<1>2. ASSUME NEW s \in Schedule, NEW times \in SUBSET Times, Update(s, times)
      PROVE  IntradayInv'
  BY <1>1, <1>2 DEF Update
<1>3. ASSUME NEW s \in Schedule, NEW n \in 1..Len(schedules[s].revisions), Restore(s, n)
      PROVE  IntradayInv'
  <2>1. schedules[s].revisions[n] \in SUBSET Times
    BY DEF IntradayInv, SchedulesTyped
  <2> QED BY <1>1, <1>3, <2>1 DEF Restore
<1>4. ASSUME NEW s \in Schedule, Archive(s)
      PROVE  IntradayInv'
  <2>1. /\ schedules' \in [Schedule -> [revisions : Seq(SUBSET Times), archived : BOOLEAN]]
        /\ \A z \in Schedule : schedules'[z].revisions # <<>>
    BY <1>4 DEF Archive, IntradayInv, SchedulesTyped
  <2> QED BY <1>4, <2>1, EditKeeps DEF Archive
<1>5. ASSUME NEW s \in Schedule, ReadRevision(s) PROVE IntradayInv'
  BY <1>5, ReadKeeps
<1>6. CASE List            BY <1>6, ListKeeps
<1>7. CASE InstallTriggers BY <1>7, InstallKeeps
<1>8. CASE RefreshPaused \/ RefreshFails  BY <1>8, RefreshEndsKeep
<1>9. CASE StartScheduler \/ Hear         BY <1>9, BeginKeeps
<1>10. CASE Connect \/ LoseConnection     BY <1>10, ConnectionKeeps
<1>11. CASE \/ \E t \in Times : Fire(t)
            \/ \E m \in Manual : Request(m)
            \/ \E r \in Run : SnapshotStep(r)
  BY <1>11, SnapshotsKeep
<1>12. CASE Tick           BY <1>12, TickKeeps
<1>13. ASSUME NEW p \in Process, Crash(p) PROVE IntradayInv'
  BY <1>13, CrashKeeps
<1>14. CASE UNCHANGED schedulerVars
  <2>1. SchedulesTyped' /\ Listens' /\ Follows'
    BY <1>14, SchedulesStay DEF IntradayInv, SchedulesTyped, schedulerVars
  <2> QED BY <1>14, <2>1, RunsStay DEF IntradayInv, schedulerVars
<1> QED
  BY <1>2, <1>3, <1>4, <1>5, <1>6, <1>7, <1>8, <1>9, <1>10, <1>11, <1>12, <1>13, <1>14
  DEF SchedulerNext, SnapshotStep

(* No edit is forgotten, whenever it commits: what the listener has heard   *)
(* of, and no refresh has lost, is what the day's triggers follow.  And a   *)
(* snapshot that is RUNNING is being run, unless a run of it since its last *)
(* start was lost to a crash or could not record its end (finish_snapshot). *)
THEOREM Intraday == SchedulerSpec => []IntradaySound
<1>1. IntradayInv /\ [SchedulerNext]_schedulerVars => IntradayInv'
  BY IntradayStep
<1>2. IntradayInv => IntradaySound
  <2>1. ASSUME IntradayInv, listener.state = "waiting", ~listener.wake, ~lost
        PROVE  \A t \in Times : t > clock => (t \in triggers <=> t \in Configured)
    BY <2>1 DEF IntradayInv, Follows
  <2> QED BY <2>1 DEF IntradayInv, IntradaySound, TriggersFollow
<1> QED BY <1>1, <1>2, IntradayInit, PTL DEF SchedulerSpec

-----------------------------------------------------------------------------
(* The batches of quotes.  As long as a batch is open nobody has been told   *)
(* anything and its eligible items are its valid ones (CycleOpen); what     *)
(* closes it makes EndHolds true, and nothing writes it afterwards.         *)

\* Sets are counted in the instances as here.
LEMMA SameCounting ==
  \A S : /\ Cycles!Cardinality(S) = Cardinality(S)
         /\ Subscriptions!Cardinality(S) = Cardinality(S)
         /\ Persistent!Cardinality(S) = Cardinality(S)
BY DEF Cycles!Cardinality, Subscriptions!Cardinality, Persistent!Cardinality, Cardinality

ItemStatus == {"MISSING", "VALID", "CONFLICT", "PROVIDER_FAILED", "STALE", "INVALID", "TIMEOUT"}

Execution ==
  [step : {"waiting", "primary", "submit", "submitRest", "finalize", "cleanup", "done"},
   primary : [Symbol -> Cycles!Primary], fallback : [Symbol -> Cycles!Fallback],
   left : SUBSET Symbol, answer : {"none", "SUCCEEDED", "PARTIAL", "FAILED"}]

CycleTyped ==
  /\ cycle \in [status : {"none", "FETCHING"} \cup Cycles!TERMINAL_CYCLES,
                item : [Symbol -> ItemStatus], eligible : SUBSET Symbol,
                valid : Int, missing : Int, conflict : Int, failed : Int]
  /\ collector \in [Collector -> Execution]

CycleOpen ==
  cycle.status \in {"none", "FETCHING"} =>
    /\ announced = "none"
    /\ cycle.eligible = Cycles!Of(cycle.item, {"VALID"})
    /\ \A c \in Collector : collector[c].answer = "none"

CyclesInv == CycleTyped /\ CycleOpen /\ EndHolds

LEMMA AnswersTyped ==
  /\ \A status : Cycles!JobEnd(status) \in {"SUCCEEDED", "PARTIAL", "FAILED"}
  /\ Cycles!Waiting \in Execution /\ Cycles!Waiting.answer = "none"
<1>1. \A status : Cycles!JobEnd(status) \in {"SUCCEEDED", "PARTIAL", "FAILED"}
  BY DEF Cycles!JobEnd
<1>2. Cycles!Waiting \in Execution /\ Cycles!Waiting.answer = "none"
  BY DEF Cycles!Waiting, Execution, Cycles!Primary, Cycles!Fallback
<1> QED BY <1>1, <1>2

\* Who goes somewhere has no answer; who answers tells the end of the batch.
LEMMA GoesTyped ==
  ASSUME CycleTyped, NEW c \in Collector,
         NEW step \in {"primary", "submit", "finalize", "cleanup", "done"},
         Cycles!Goes(c, step)
  PROVE  /\ collector' \in [Collector -> Execution]
         /\ \A d \in Collector : collector'[d].answer \in {collector[d].answer, "none"}
<1>1. [Cycles!Waiting EXCEPT !.step = step] \in Execution
      /\ [Cycles!Waiting EXCEPT !.step = step].answer = "none"
  BY AnswersTyped DEF Execution
<1> QED BY <1>1 DEF CycleTyped, Execution, Cycles!Goes

LEMMA AnswersKnown ==
  ASSUME CycleTyped, NEW c \in Collector, NEW status, Cycles!Answers(c, status)
  PROVE  /\ collector' \in [Collector -> Execution]
         /\ \A d \in Collector :
              collector'[d].answer \in {collector[d].answer, Cycles!JobEnd(status)}
<1> DEFINE ended == [Cycles!Waiting EXCEPT !.step = "done", !.answer = Cycles!JobEnd(status)]
<1>1. ended \in Execution /\ ended.answer = Cycles!JobEnd(status)
  BY AnswersTyped DEF Execution
<1>2. collector' = [collector EXCEPT ![c] = ended]
  BY DEF Cycles!Answers
<1> QED BY <1>1, <1>2 DEF CycleTyped, Execution

\* Executions that only move, or report the end of a closed batch.
LEMMA CycleStays ==
  ASSUME CyclesInv, UNCHANGED <<cycle, announced>>,
         collector' \in [Collector -> Execution],
         \A d \in Collector :
           \/ collector'[d].answer \in {collector[d].answer, "none"}
           \/ Cycles!Closed /\ collector'[d].answer = Cycles!JobEnd(cycle.status)
  PROVE  CyclesInv'
<1> USE DEF CyclesInv
<1>1. CycleTyped'
  BY DEF CycleTyped, Execution
<1>2. CycleOpen'
  BY DEF CycleOpen, Cycles!Of, Cycles!Closed, Cycles!TERMINAL_CYCLES
<1>3. EndHolds'
  <2>1. \A d \in Collector : collector'[d].answer \in {"none", Cycles!JobEnd(cycle'.status)}
    BY DEF EndHolds, Cycles!EndHolds
  <2> QED BY <2>1 DEF EndHolds, Cycles!EndHolds, Cycles!Of
<1> QED BY <1>1, <1>2, <1>3

\* An open batch that stays open, whose eligible items stay its valid ones.
LEMMA StillOpen ==
  ASSUME CyclesInv, ~Cycles!Closed, UNCHANGED announced,
         cycle' \in [status : {"none", "FETCHING"}, item : [Symbol -> ItemStatus],
                     eligible : SUBSET Symbol, valid : Int, missing : Int,
                     conflict : Int, failed : Int],
         cycle'.eligible = Cycles!Of(cycle'.item, {"VALID"}),
         collector' \in [Collector -> Execution],
         \A d \in Collector : collector'[d].answer \in {collector[d].answer, "none"}
  PROVE  CyclesInv'
<1> USE DEF CyclesInv
<1>1. /\ announced = "none" /\ \A d \in Collector : collector'[d].answer = "none"
  BY DEF CycleTyped, CycleOpen, Cycles!Closed
<1>2. CycleTyped'
  BY DEF CycleTyped, Execution
<1>3. CycleOpen' /\ EndHolds'
  BY <1>1 DEF CycleOpen, EndHolds, Cycles!EndHolds, Cycles!Of, Cycles!TERMINAL_CYCLES
<1> QED BY <1>2, <1>3

LEMMA CyclesInit == Cycles!CyclesInit => CyclesInv
<1> SUFFICES ASSUME Cycles!CyclesInit PROVE CyclesInv
  OBVIOUS
<1>1. CycleTyped
  BY AnswersTyped DEF Cycles!CyclesInit, CycleTyped, Execution, ItemStatus
<1>2. CycleOpen /\ EndHolds
  BY AnswersTyped
  DEF Cycles!CyclesInit, CycleOpen, EndHolds, Cycles!EndHolds, Cycles!Of, Cycles!TERMINAL_CYCLES
<1> QED BY <1>1, <1>2 DEF CyclesInv

\* Starting leaves a batch that is there alone.
LEMMA CreateKeeps ==
  ASSUME CyclesInv, Cycles!CreateAndStart, UNCHANGED announced, ~Cycles!Closed,
         collector' \in [Collector -> Execution],
         \A d \in Collector : collector'[d].answer \in {collector[d].answer, "none"}
  PROVE  CyclesInv'
<1>1. cycle.eligible = Cycles!Of(cycle.item, {"VALID"}) /\ cycle.status \in {"none", "FETCHING"}
  BY DEF CyclesInv, CycleTyped, CycleOpen, Cycles!Closed
<1>2. cycle' \in [status : {"none", "FETCHING"}, item : [Symbol -> ItemStatus],
                  eligible : SUBSET Symbol, valid : Int, missing : Int,
                  conflict : Int, failed : Int]
  BY <1>1 DEF CyclesInv, CycleTyped, Cycles!CreateAndStart
<1>3. cycle'.item = cycle.item /\ cycle'.eligible = cycle.eligible
  BY DEF CyclesInv, CycleTyped, Cycles!CreateAndStart
<1> QED BY <1>1, <1>2, <1>3, StillOpen DEF Cycles!Of

\* A quote is recorded once, and makes its symbol eligible when it is valid.
LEMMA RecordedKeeps ==
  ASSUME CyclesInv, NEW s \in Symbol, NEW outcome \in ItemStatus \ {"MISSING"},
         cycle' = Cycles!Recorded(s, outcome), UNCHANGED announced,
         collector' \in [Collector -> Execution],
         \A d \in Collector : collector'[d].answer \in {collector[d].answer, "none"}
  PROVE  CyclesInv'
<1>1. CASE Cycles!Accepts /\ cycle.item[s] = "MISSING"
  <2>1. cycle' = [cycle EXCEPT !.item[s] = outcome,
                    !.eligible = IF outcome = "VALID" THEN @ \cup {s} ELSE @]
    BY <1>1 DEF Cycles!Recorded
  <2>2. ~Cycles!Closed /\ cycle.eligible = Cycles!Of(cycle.item, {"VALID"})
    BY <1>1 DEF CyclesInv, CycleOpen, Cycles!Accepts, Cycles!Closed, Cycles!TERMINAL_CYCLES
  <2>3. cycle'.item = [cycle.item EXCEPT ![s] = outcome]
        /\ cycle'.eligible = IF outcome = "VALID" THEN cycle.eligible \cup {s} ELSE cycle.eligible
    BY <2>1 DEF CyclesInv, CycleTyped
  <2>4. cycle' \in [status : {"none", "FETCHING"}, item : [Symbol -> ItemStatus],
                    eligible : SUBSET Symbol, valid : Int, missing : Int,
                    conflict : Int, failed : Int]
    <3>1. cycle'.item \in [Symbol -> ItemStatus] /\ cycle'.eligible \subseteq Symbol
      BY <2>3 DEF CyclesInv, CycleTyped
    <3>2. cycle' = [cycle EXCEPT !.item = cycle'.item, !.eligible = cycle'.eligible]
      BY <2>1, <2>3 DEF CyclesInv, CycleTyped
    <3> QED BY <1>1, <3>1, <3>2 DEF CyclesInv, CycleTyped, Cycles!Accepts
  <2>5. cycle'.eligible = Cycles!Of(cycle'.item, {"VALID"})
    BY <1>1, <2>2, <2>3 DEF CyclesInv, CycleTyped, Cycles!Of
  <2> QED BY <2>2, <2>4, <2>5, StillOpen
<1>2. CASE ~(Cycles!Accepts /\ cycle.item[s] = "MISSING")
  <2>1. UNCHANGED cycle
    BY <1>2 DEF Cycles!Recorded
  <2> QED BY <2>1, CycleStays
<1> QED BY <1>1, <1>2

\* Four sets that share nothing and are everything count everything once.
LEMMA CountedOnce ==
  ASSUME NEW S, IsFiniteSet(S), NEW A, NEW B, NEW C, NEW D, S = A \cup B \cup C \cup D,
         A \cap B = {}, (A \cup B) \cap C = {}, (A \cup B \cup C) \cap D = {}
  PROVE  /\ Cardinality(A) \in Nat /\ Cardinality(B) \in Nat
         /\ Cardinality(C) \in Nat /\ Cardinality(D) \in Nat
         /\ Cardinality(A) + Cardinality(B) + Cardinality(C) + Cardinality(D) = Cardinality(S)
<1>1. IsFiniteSet(A) /\ IsFiniteSet(B) /\ IsFiniteSet(C) /\ IsFiniteSet(D)
      /\ IsFiniteSet(A \cup B) /\ IsFiniteSet(A \cup B \cup C)
  BY FS_Subset
<1>2. /\ Cardinality(A) \in Nat /\ Cardinality(B) \in Nat
      /\ Cardinality(C) \in Nat /\ Cardinality(D) \in Nat
      /\ Cardinality(A \cup B) \in Nat /\ Cardinality(A \cup B \cup C) \in Nat
  BY <1>1, FS_CardinalityType
<1>3. ASSUME NEW E, NEW F, IsFiniteSet(E), IsFiniteSet(F), E \cap F = {}
      PROVE  Cardinality(E \cup F) = Cardinality(E) + Cardinality(F)
  <2>1. Cardinality(E \cup F) = Cardinality(E) + Cardinality(F) - Cardinality(E \cap F)
    BY <1>3, FS_Union
  <2>2. Cardinality(E \cap F) = 0 /\ Cardinality(E) \in Nat /\ Cardinality(F) \in Nat
    BY <1>3, FS_EmptySet, FS_CardinalityType
  <2> QED BY <2>1, <2>2
<1>4. Cardinality(A \cup B) = Cardinality(A) + Cardinality(B)
  BY <1>1, <1>3
<1>5. Cardinality(A \cup B \cup C) = Cardinality(A \cup B) + Cardinality(C)
  BY <1>1, <1>3
<1>6. Cardinality(A \cup B \cup C \cup D) = Cardinality(A \cup B \cup C) + Cardinality(D)
  BY <1>1, <1>3
<1> QED BY <1>2, <1>4, <1>5, <1>6

\* The end of a batch: what is announced, what may be judged and what is counted.
LEMMA FinalizeKeeps ==
  ASSUME CyclesInv, NEW c \in Collector, Cycles!Finalize(c)
  PROVE  CyclesInv'
<1> USE DEF CyclesInv
<1> DEFINE item == [s \in Symbol |->
                      IF cycle.item[s] = "MISSING" THEN "TIMEOUT" ELSE cycle.item[s]]
           valid == Cycles!Of(item, {"VALID"})
           timeout == Cycles!Of(item, {"TIMEOUT"})
           conflict == Cycles!Of(item, {"CONFLICT"})
           failed == Cycles!Of(item, {"PROVIDER_FAILED", "STALE", "INVALID"})
<1>1. CASE ~Cycles!Closed /\ Cycles!MayFinalize
  <2>1. /\ cycle' = Cycles!Finalized /\ announced' = Cycles!Of(cycle.item, {"VALID"})
        /\ Cycles!Answers(c, Cycles!Finalized.status)
    BY <1>1 DEF Cycles!Finalize
  <2>2. item \in [Symbol -> ItemStatus \ {"MISSING"}]
    BY DEF CycleTyped, ItemStatus
  <2>3. /\ Cardinality(valid) \in Nat /\ Cardinality(timeout) \in Nat
        /\ Cardinality(conflict) \in Nat /\ Cardinality(failed) \in Nat
        /\ Cardinality(valid) + Cardinality(timeout) + Cardinality(conflict)
             + Cardinality(failed) = Cardinality(Symbol)
    <3>1. /\ Symbol = valid \cup timeout \cup conflict \cup failed
          /\ valid \cap timeout = {} /\ (valid \cup timeout) \cap conflict = {}
          /\ (valid \cup timeout \cup conflict) \cap failed = {}
      BY <2>2 DEF Cycles!Of, ItemStatus
    <3>2. IsFiniteSet(Symbol)
      BY SchedulingAssumption
    <3> HIDE DEF valid, timeout, conflict, failed
    <3> QED BY <3>1, <3>2, CountedOnce
  <2>4. Cycles!Finalized =
          [cycle EXCEPT
             !.item = item,
             !.status = IF valid = Symbol THEN "READY"
                        ELSE IF valid # {} THEN "PARTIAL" ELSE "FAILED",
             !.valid = Cardinality(valid), !.missing = Cardinality(timeout),
             !.conflict = Cardinality(conflict), !.failed = Cardinality(failed)]
    BY SameCounting DEF Cycles!Finalized
  <2>5. /\ cycle'.item = item /\ cycle'.eligible = cycle.eligible
        /\ cycle'.status \in {"READY", "PARTIAL", "FAILED"}
        /\ cycle'.valid = Cardinality(valid) /\ cycle'.missing = Cardinality(timeout)
        /\ cycle'.conflict = Cardinality(conflict) /\ cycle'.failed = Cardinality(failed)
    BY <2>1, <2>4 DEF CycleTyped
  <2>6. CycleTyped'
    <3>1. collector' \in [Collector -> Execution]
      BY <2>1, AnswersKnown
    <3>2. cycle' \in [status : {"none", "FETCHING"} \cup Cycles!TERMINAL_CYCLES,
                      item : [Symbol -> ItemStatus], eligible : SUBSET Symbol,
                      valid : Int, missing : Int, conflict : Int, failed : Int]
      <4> HIDE DEF item, valid, timeout, conflict, failed
      <4>1. item \in [Symbol -> ItemStatus]
        BY <2>2
      <4>2. cycle' \in [status : {"READY", "PARTIAL", "FAILED"}, item : [Symbol -> ItemStatus],
                        eligible : SUBSET Symbol, valid : Int, missing : Int,
                        conflict : Int, failed : Int]
        <5> DEFINE status == IF valid = Symbol THEN "READY"
                             ELSE IF valid # {} THEN "PARTIAL" ELSE "FAILED"
        <5>1. /\ status \in {"READY", "PARTIAL", "FAILED"}
              /\ Cardinality(valid) \in Int /\ Cardinality(timeout) \in Int
              /\ Cardinality(conflict) \in Int /\ Cardinality(failed) \in Int
          BY <2>3
        <5>2. cycle' = [cycle EXCEPT !.item = item, !.status = status,
                          !.valid = Cardinality(valid), !.missing = Cardinality(timeout),
                          !.conflict = Cardinality(conflict), !.failed = Cardinality(failed)]
          BY <2>1, <2>4
        <5> HIDE DEF status
        <5> QED BY <4>1, <5>1, <5>2 DEF CycleTyped
      <4> QED BY <4>2 DEF Cycles!TERMINAL_CYCLES
    <3> QED BY <3>1, <3>2 DEF CycleTyped, Execution
  <2>7. CycleOpen'
    BY <2>5 DEF CycleOpen
  <2>8. announced' = valid /\ announced' = cycle.eligible
    <3>1. valid = Cycles!Of(cycle.item, {"VALID"})
      BY DEF Cycles!Of
    <3>2. cycle.eligible = Cycles!Of(cycle.item, {"VALID"})
      BY <1>1 DEF CycleOpen, Cycles!Closed, CycleTyped
    <3> QED BY <2>1, <3>1, <3>2
  <2>9. \A d \in Collector : collector'[d].answer \in {"none", Cycles!JobEnd(cycle'.status)}
    <3>1. \A d \in Collector : collector[d].answer = "none"
      BY <1>1 DEF CycleOpen, Cycles!Closed, CycleTyped
    <3> QED BY <2>1, <3>1, AnswersKnown
  <2>10. EndHolds'
    <3>1. Cycles!Of(cycle'.item, {"VALID"}) = valid
      BY <2>5
    <3> QED BY <2>3, <2>5, <2>8, <2>9, <3>1, SameCounting
        DEF EndHolds, Cycles!EndHolds, Cycles!Of
  <2> QED BY <2>6, <2>7, <2>10
<1>2. CASE ~(~Cycles!Closed /\ Cycles!MayFinalize)
  <2>1. CASE Cycles!Closed
    BY <1>2, <2>1, AnswersKnown, CycleStays DEF Cycles!Finalize
  <2>2. CASE ~Cycles!Closed
    BY <1>2, <2>2, GoesTyped, CycleStays DEF Cycles!Finalize
  <2> QED BY <2>1, <2>2
<1> QED BY <1>1, <1>2

LEMMA CyclesStep ==
  ASSUME CyclesInv, [Cycles!CyclesNext]_(Cycles!cycleVars)
  PROVE  CyclesInv'
<1>0. collector \in [Collector -> Execution]
  BY DEF CyclesInv, CycleTyped
<1>1. ASSUME NEW c \in Collector, Cycles!Start(c)
      PROVE  CyclesInv'
  <2>1. CASE Cycles!Closed
    <3>1. UNCHANGED <<cycle, announced>>
      BY <1>1, <2>1 DEF Cycles!Start, Cycles!CreateAndStart, Cycles!Closed, Cycles!TERMINAL_CYCLES
    <3> QED BY <1>1, <2>1, <3>1, AnswersKnown, CycleStays DEF Cycles!Start, CyclesInv
  <2>2. CASE ~Cycles!Closed
    <3>1. Cycles!Goes(c, "finalize") \/ Cycles!Goes(c, "primary")
      BY <1>1, <2>2 DEF Cycles!Start
    <3> QED BY <1>1, <2>2, <3>1, GoesTyped, CreateKeeps DEF Cycles!Start, CyclesInv
  <2> QED BY <2>1, <2>2
<1>2. ASSUME NEW c \in Collector, Cycles!FetchPrimary(c)
      PROVE  CyclesInv'
  <2>1. PICK primary \in [Symbol -> Cycles!Primary] :
          \/ Cycles!Goes(c, "finalize")
          \/ collector' = [collector EXCEPT ![c] =
               [@ EXCEPT !.step = "submit", !.primary = primary,
                         !.left = Symbol \ Cycles!FallbackScope(primary)]]
    BY <1>2 DEF Cycles!FetchPrimary
  <2>2. /\ collector' \in [Collector -> Execution]
        /\ \A d \in Collector : collector'[d].answer \in {collector[d].answer, "none"}
    <3>1. CASE Cycles!Goes(c, "finalize")
      BY <3>1, GoesTyped DEF CyclesInv
    <3>2. CASE collector' = [collector EXCEPT ![c] =
                 [@ EXCEPT !.step = "submit", !.primary = primary,
                           !.left = Symbol \ Cycles!FallbackScope(primary)]]
      <4> DEFINE x == [collector[c] EXCEPT !.step = "submit", !.primary = primary,
                                     !.left = Symbol \ Cycles!FallbackScope(primary)]
      <4>1. x \in Execution /\ x.answer = collector[c].answer
        BY <1>0 DEF Execution
      <4>2. collector' = [collector EXCEPT ![c] = x]
        BY <3>2
      <4> HIDE DEF x
      <4> QED BY <1>0, <4>1, <4>2
    <3> QED BY <2>1, <3>1, <3>2
  <2> QED BY <1>2, <2>2, CycleStays DEF Cycles!FetchPrimary
<1>3. ASSUME NEW c \in Collector, Cycles!FetchFallback(c)
      PROVE  CyclesInv'
  <2>1. PICK fallback \in [Symbol -> Cycles!Fallback] :
          \/ Cycles!Goes(c, "finalize")
          \/ collector' = [collector EXCEPT ![c] =
               [@ EXCEPT !.step = "submitRest", !.fallback = fallback,
                         !.left = Cycles!FallbackScope(collector[c].primary)]]
    BY <1>3 DEF Cycles!FetchFallback
  <2>2. Cycles!FallbackScope(collector[c].primary) \subseteq Symbol
    BY DEF Cycles!FallbackScope
  <2>3. /\ collector' \in [Collector -> Execution]
        /\ \A d \in Collector : collector'[d].answer \in {collector[d].answer, "none"}
    <3>1. CASE Cycles!Goes(c, "finalize")
      BY <3>1, GoesTyped DEF CyclesInv
    <3>2. CASE collector' = [collector EXCEPT ![c] =
                 [@ EXCEPT !.step = "submitRest", !.fallback = fallback,
                           !.left = Cycles!FallbackScope(collector[c].primary)]]
      <4> DEFINE x == [collector[c] EXCEPT !.step = "submitRest", !.fallback = fallback,
                         !.left = Cycles!FallbackScope(collector[c].primary)]
      <4>1. x \in Execution /\ x.answer = collector[c].answer
        BY <1>0, <2>2 DEF Execution
      <4>2. collector' = [collector EXCEPT ![c] = x]
        BY <3>2
      <4> HIDE DEF x
      <4> QED BY <1>0, <4>1, <4>2
    <3> QED BY <2>1, <3>1, <3>2
  <2> QED BY <1>3, <2>3, CycleStays DEF Cycles!FetchFallback
<1>4. ASSUME NEW c \in Collector, NEW s \in Symbol, Cycles!Submit(c, s)
      PROVE  CyclesInv'
  <2>1. UNCHANGED announced
    BY <1>4 DEF Cycles!Submit
  <2>2. \/ Cycles!Goes(c, "finalize") \/ Cycles!Goes(c, "done")
        \/ collector' = [collector EXCEPT ![c].left = @ \ {s}]
    BY <1>4 DEF Cycles!Submit
  <2>3. /\ collector' \in [Collector -> Execution]
        /\ \A d \in Collector : collector'[d].answer \in {collector[d].answer, "none"}
    <3>1. CASE Cycles!Goes(c, "finalize") \/ Cycles!Goes(c, "done")
      BY <3>1, GoesTyped DEF CyclesInv
    <3>2. CASE collector' = [collector EXCEPT ![c].left = @ \ {s}]
      BY <1>0, <3>2, ZenonT(30) DEF Execution
    <3> QED BY <2>2, <3>1, <3>2
  <2>4. CASE UNCHANGED cycle
    BY <2>1, <2>3, <2>4, CycleStays
  <2>5. CASE \E outcome \in Cycles!Outcome(collector[c].primary[s], collector[c].fallback[s]) :
               cycle' = Cycles!Recorded(s, outcome)
    <3>1. Cycles!Outcome(collector[c].primary[s], collector[c].fallback[s])
            \subseteq ItemStatus \ {"MISSING"}
      BY DEF Cycles!Outcome, ItemStatus
    <3> QED BY <2>1, <2>3, <2>5, <3>1, RecordedKeeps
  <2> QED BY <1>4, <2>4, <2>5 DEF Cycles!Submit
<1>5. ASSUME NEW c \in Collector, Cycles!Finalize(c)
      PROVE  CyclesInv'
  BY <1>5, FinalizeKeeps
<1>6. ASSUME NEW c \in Collector, Cycles!Interrupt(c)
      PROVE  CyclesInv'
  <2>1. /\ collector' \in [Collector -> Execution]
        /\ \A d \in Collector : collector'[d].answer \in {collector[d].answer, "none"}
    BY <1>6, GoesTyped DEF Cycles!Interrupt, CyclesInv
  <2>2. CASE UNCHANGED cycle
    BY <1>6, <2>1, <2>2, CycleStays DEF Cycles!Interrupt
  <2>3. CASE ~(UNCHANGED cycle)
    <3>1. Cycles!CreateAndStart /\ UNCHANGED announced
      BY <1>6, <2>3 DEF Cycles!Interrupt
    <3>2. ~Cycles!Closed
      BY <2>3, <3>1 DEF Cycles!CreateAndStart, Cycles!Closed, Cycles!TERMINAL_CYCLES
    <3> QED BY <2>1, <3>1, <3>2, CreateKeeps
  <2> QED BY <2>2, <2>3
<1>7. ASSUME NEW c \in Collector, Cycles!Cleanup(c)
      PROVE  CyclesInv'
  <2>1. /\ collector' \in [Collector -> Execution]
        /\ \A d \in Collector : collector'[d].answer \in {collector[d].answer, "none"}
    BY <1>7, GoesTyped DEF Cycles!Cleanup, CyclesInv
  <2>2. CASE UNCHANGED cycle
    BY <1>7, <2>1, <2>2, CycleStays DEF Cycles!Cleanup
  <2>3. CASE ~(UNCHANGED cycle)
    <3>1. /\ ~Cycles!Closed /\ UNCHANGED announced
          /\ cycle' = [cycle EXCEPT !.status = "CANCELED", !.eligible = {}]
      BY <1>7, <2>3 DEF Cycles!Cleanup
    <3>2. CycleTyped'
      BY <2>1, <3>1 DEF CyclesInv, CycleTyped, Cycles!TERMINAL_CYCLES
    <3>3. cycle'.status = "CANCELED" /\ cycle'.eligible = {}
      BY <3>1 DEF CyclesInv, CycleTyped
    <3>4. announced = "none" /\ \A d \in Collector : collector'[d].answer = "none"
      BY <2>1, <3>1 DEF CyclesInv, CycleTyped, CycleOpen, Cycles!Closed
    <3>5. CycleOpen' /\ EndHolds'
      BY <3>1, <3>3, <3>4 DEF CycleOpen, EndHolds, Cycles!EndHolds
    <3> QED BY <3>2, <3>5 DEF CyclesInv
  <2> QED BY <2>2, <2>3
<1>8. ASSUME NEW c \in Collector, Cycles!Crash(c)
      PROVE  CyclesInv'
  BY <1>8, GoesTyped, CycleStays DEF Cycles!Crash, CyclesInv
<1>9. CASE Cycles!Expire
  BY <1>0, <1>9, CycleStays DEF Cycles!Expire
<1>10. CASE UNCHANGED Cycles!cycleVars
  BY <1>0, <1>10, CycleStays DEF Cycles!cycleVars
<1> QED
  BY <1>1, <1>2, <1>3, <1>4, <1>5, <1>6, <1>7, <1>8, <1>9, <1>10 DEF Cycles!CyclesNext

(* What the end of a batch of quotes announced is what it holds, for ever,  *)
(* however many executions of its job still fetch and submit; its counts    *)
(* agree, and no execution ever reports another end.                        *)
THEOREM CycleEnd == Cycles!CyclesSpec => []EndHolds
<1>1. CyclesInv /\ [Cycles!CyclesNext]_(Cycles!cycleVars) => CyclesInv'
  BY CyclesStep
<1>2. CyclesInv => EndHolds
  BY DEF CyclesInv
<1> QED BY <1>1, <1>2, CyclesInit, PTL DEF Cycles!CyclesSpec

-----------------------------------------------------------------------------
(* The subscriptions.  A version is never given to two configurations: what *)
(* someone has seen of a row is not newer than the row, and is the row's    *)
(* revision if it has the row's version (SeenOf).                           *)

SeenOf(seen) ==
  /\ seen \in [row : DOMAIN rows, version : Nat, revision : Nat]
  /\ seen.version <= rows[seen.row].version
  /\ seen.version = rows[seen.row].version => seen.revision = rows[seen.row].revision

SubscriptionRow ==
  [security : Security, status : {"CONFIGURING", "ENABLED", "PAUSED", "ARCHIVED"},
   version : Nat, revision : Nat, content : Subscriptions!Content]

CreateRequest ==
  [op : {"create"}, security : Security, content : Subscriptions!Content]
ContentRequest ==
  [op : {"configure", "policy", "target"}, content : Subscriptions!Content,
   seen : [row : Nat, version : Nat, revision : Nat]]
TransitionRequest ==
  [op : {"enable", "pause", "archive", "restore"},
   seen : [row : Nat, version : Nat, revision : Nat]]

SubscriptionsTyped ==
  /\ rows \in Seq(SubscriptionRow)
  /\ sent \in Seq(CreateRequest \cup ContentRequest \cup TransitionRequest)
  /\ audit \in [Subscriptions!Number -> {0, 1}]

AllSeen ==
  /\ \A n \in DOMAIN sent : sent[n].op # "create" => SeenOf(sent[n].seen)
  /\ snapshot = Subscriptions!NoSnapshot \/ SeenOf(snapshot)

OpenAlone ==
  \A i, j \in DOMAIN rows :
    /\ rows[i].security = rows[j].security
    /\ Subscriptions!Open(rows[i]) /\ Subscriptions!Open(rows[j])
    => i = j

SubscriptionsInv ==
  SubscriptionsTyped /\ AllSeen /\ OpenAlone /\ Subscriptions!ActedAsFrozen

LEMMA SubscriptionsInit == Subscriptions!SubscriptionsInit => SubscriptionsInv
BY DEF Subscriptions!SubscriptionsInit, SubscriptionsInv, SubscriptionsTyped, AllSeen,
       OpenAlone, Subscriptions!ActedAsFrozen, Subscriptions!Nothing

\* A row that changes gets a new version, so that what was seen of it stays true.
LEMMA SeenStays ==
  ASSUME SubscriptionsTyped, AllSeen, rows' \in Seq(SubscriptionRow),
         DOMAIN rows \subseteq DOMAIN rows',
         \A i \in DOMAIN rows : rows'[i] = rows[i] \/ rows'[i].version > rows[i].version
  PROVE  \A seen : SeenOf(seen) => SeenOf(seen)'
<1> SUFFICES ASSUME NEW seen, SeenOf(seen) PROVE SeenOf(seen)'
  OBVIOUS
<1>1. seen.row \in DOMAIN rows /\ seen.row \in DOMAIN rows'
  BY DEF SeenOf
<1>2. rows[seen.row].version \in Nat /\ rows'[seen.row].version \in Nat /\ seen.version \in Nat
  <2>1. rows[seen.row] \in SubscriptionRow /\ rows'[seen.row] \in SubscriptionRow
    BY <1>1, ElementOfSeq DEF SubscriptionsTyped
  <2> QED BY <2>1 DEF SubscriptionRow, SeenOf
<1> QED BY <1>1, <1>2 DEF SeenOf

\* What is seen now is seen truly.
LEMMA SeenNow ==
  ASSUME SubscriptionsTyped, NEW i \in DOMAIN rows
  PROVE  SeenOf(Subscriptions!Seen(i))
<1>1. rows[i] \in SubscriptionRow
  BY ElementOfSeq DEF SubscriptionsTyped
<1> QED BY <1>1 DEF SeenOf, Subscriptions!Seen, SubscriptionRow

\* Whoever finds the version it has seen finds the revision it has seen.
LEMMA SameVersionSame ==
  ASSUME SubscriptionsTyped, NEW seen, SeenOf(seen), rows[seen.row].version = seen.version
  PROVE  seen = Subscriptions!Seen(seen.row)
BY DEF SeenOf, Subscriptions!Seen

\* A request that is sent.
LEMMA SendKeeps ==
  ASSUME SubscriptionsInv,
         NEW request \in CreateRequest \cup ContentRequest \cup TransitionRequest,
         request.op # "create" => SeenOf(request.seen),
         Subscriptions!Send(request)
  PROVE  SubscriptionsInv'
<1> USE DEF SubscriptionsInv
<1>1. sent' = Append(sent, request) /\ UNCHANGED <<rows, audit, snapshot, acted>>
  BY DEF Subscriptions!Send
<1>2. SubscriptionsTyped'
  BY <1>1 DEF SubscriptionsTyped
<1>3. AllSeen'
  <2>1. \A seen : SeenOf(seen)' <=> SeenOf(seen)
    BY <1>1 DEF SeenOf
  <2>2. \A n \in DOMAIN sent' : (n \in DOMAIN sent /\ sent'[n] = sent[n]) \/ sent'[n] = request
    BY <1>1 DEF SubscriptionsTyped
  <2>3. \A n \in DOMAIN sent' : sent'[n].op # "create" => SeenOf(sent'[n].seen)
    BY <2>2 DEF AllSeen
  <2> QED BY <1>1, <2>1, <2>3 DEF AllSeen
<1>4. OpenAlone' /\ Subscriptions!ActedAsFrozen'
  BY <1>1 DEF OpenAlone, Subscriptions!Open, Subscriptions!ActedAsFrozen
<1> QED BY <1>2, <1>3, <1>4

\* A change of one row, which gets its next version.
LEMMA ChangeKeeps ==
  ASSUME SubscriptionsInv, NEW n \in DOMAIN sent, NEW op, op # "create",
         Subscriptions!Current(n, op), Subscriptions!Done(n),
         NEW row \in SubscriptionRow,
         rows' = [rows EXCEPT ![sent[n].seen.row] = row],
         row.version = rows[sent[n].seen.row].version + 1,
         row.security = rows[sent[n].seen.row].security,
         Subscriptions!Open(row) =>
           \/ Subscriptions!Open(rows[sent[n].seen.row])
           \/ Subscriptions!OpenOf(row.security) = {}
  PROVE  SubscriptionsInv'
<1> USE DEF SubscriptionsInv
<1> DEFINE i == sent[n].seen.row
<1>1. SeenOf(sent[n].seen) /\ i \in DOMAIN rows
  BY DEF AllSeen, SeenOf, Subscriptions!Current
<1>2. audit' \in [Subscriptions!Number -> {0, 1}] /\ UNCHANGED <<sent, snapshot>>
  <2>1. ~(audit[n] > 0) /\ audit' = [audit EXCEPT ![n] = @ + 1]
    BY DEF Subscriptions!Done, Subscriptions!Current, Subscriptions!Replayed
  <2>2. n \in Subscriptions!Number => audit[n] + 1 = 1
    BY <2>1 DEF SubscriptionsTyped
  <2>3. audit' \in [Subscriptions!Number -> {0, 1}]
    BY <2>1, <2>2 DEF SubscriptionsTyped
  <2> QED BY <2>3 DEF Subscriptions!Done
<1>3. rows' \in Seq(SubscriptionRow) /\ DOMAIN rows' = DOMAIN rows
      /\ rows'[i] = row /\ \A j \in DOMAIN rows : j # i => rows'[j] = rows[j]
  <2>1. i \in 1..Len(rows) /\ rows \in Seq(SubscriptionRow)
    BY <1>1 DEF SubscriptionsTyped
  <2>2. rows' \in Seq(SubscriptionRow)
    BY <2>1, ExceptSeq
  <2> QED BY <2>1, <2>2
<1>4. SubscriptionsTyped'
  BY <1>2, <1>3 DEF SubscriptionsTyped
<1>5. rows[i].version \in Nat
  <2>1. rows[i] \in SubscriptionRow
    BY <1>1, ElementOfSeq DEF SubscriptionsTyped
  <2> QED BY <2>1 DEF SubscriptionRow
<1>6. AllSeen'
  <2>1. \A seen : SeenOf(seen) => SeenOf(seen)'
    BY <1>3, <1>5, SeenStays
  <2> QED BY <1>2, <2>1 DEF AllSeen
<1>7. OpenAlone'
  <2>1. \A j \in DOMAIN rows :
          j # i /\ Subscriptions!Open(row) /\ rows[j].security = row.security
            => ~Subscriptions!Open(rows[j])
    BY <1>1 DEF OpenAlone, Subscriptions!OpenOf
  <2> QED BY <1>3, <2>1 DEF OpenAlone, Subscriptions!Open
<1>8. Subscriptions!ActedAsFrozen'
  BY <1>1, SameVersionSame DEF Subscriptions!Current, Subscriptions!ActedAsFrozen
<1> QED BY <1>4, <1>6, <1>7, <1>8

LEMMA SwitchKeeps ==
  ASSUME SubscriptionsInv, NEW n \in DOMAIN sent,
         NEW op \in {"configure", "policy", "target"}, NEW content \in Subscriptions!Content,
         Subscriptions!Switch(n, op, content)
  PROVE  SubscriptionsInv'
<1> DEFINE i == sent[n].seen.row
           row == Subscriptions!Switched(rows[i], content)
<1>1. i \in DOMAIN rows /\ rows[i] \in SubscriptionRow
  <2>1. i \in DOMAIN rows
    BY DEF Subscriptions!Switch, Subscriptions!Current, SubscriptionsInv, AllSeen, SeenOf
  <2> QED BY <2>1, ElementOfSeq DEF SubscriptionsInv, SubscriptionsTyped
<1>2. /\ row \in SubscriptionRow /\ row.version = rows[i].version + 1
      /\ row.security = rows[i].security /\ row.status = rows[i].status
  <2>1. ASSUME NEW r \in SubscriptionRow
        PROVE  /\ Subscriptions!Switched(r, content) \in SubscriptionRow
               /\ Subscriptions!Switched(r, content).version = r.version + 1
               /\ Subscriptions!Switched(r, content).security = r.security
               /\ Subscriptions!Switched(r, content).status = r.status
    <3>1. r.version + 1 \in Nat /\ r.revision + 1 \in Nat
      BY DEF SubscriptionRow
    <3> QED BY <3>1 DEF Subscriptions!Switched, SubscriptionRow
  <2> QED BY <1>1, <2>1
<1>3. rows' = [rows EXCEPT ![i] = row] /\ Subscriptions!Current(n, op)
      /\ Subscriptions!Done(n) /\ Subscriptions!Open(rows[i])
  BY <1>1 DEF Subscriptions!Switch
<1> HIDE DEF row
<1> QED BY <1>2, <1>3, ChangeKeeps

LEMMA TransitionKeeps ==
  ASSUME SubscriptionsInv, NEW n \in DOMAIN sent, NEW op, op # "create", NEW from,
         NEW to \in {"CONFIGURING", "ENABLED", "PAUSED", "ARCHIVED"},
         Subscriptions!Transition(n, op, from, to),
         \/ "ARCHIVED" \notin from
         \/ Subscriptions!OpenOf(rows[sent[n].seen.row].security) = {}
  PROVE  SubscriptionsInv'
<1> DEFINE i == sent[n].seen.row
           row == [rows[i] EXCEPT !.status = to, !.version = @ + 1]
<1>1. i \in DOMAIN rows /\ rows[i] \in SubscriptionRow
  <2>1. i \in DOMAIN rows
    BY DEF Subscriptions!Transition, Subscriptions!Current, SubscriptionsInv, AllSeen, SeenOf
  <2> QED BY <2>1, ElementOfSeq DEF SubscriptionsInv, SubscriptionsTyped
<1>2. /\ row \in SubscriptionRow /\ row.version = rows[i].version + 1
      /\ row.security = rows[i].security
  <2>1. ASSUME NEW r \in SubscriptionRow
        PROVE  LET q == [r EXCEPT !.status = to, !.version = @ + 1] IN
               q \in SubscriptionRow /\ q.version = r.version + 1 /\ q.security = r.security
    <3>1. r.version + 1 \in Nat
      BY DEF SubscriptionRow
    <3> QED BY <3>1 DEF SubscriptionRow
  <2> QED BY <1>1, <2>1
<1>3. /\ rows' = [rows EXCEPT ![i] = row] /\ Subscriptions!Current(n, op)
      /\ Subscriptions!Done(n) /\ rows[i].status \in from
  <2>1. rows' = [rows EXCEPT ![i].status = to, ![i].version = @ + 1]
    BY DEF Subscriptions!Transition
  <2>2. rows' = [rows EXCEPT ![i] = row]
    BY <1>1, <2>1 DEF SubscriptionRow
  <2> QED BY <2>2 DEF Subscriptions!Transition
<1>4. \/ Subscriptions!Open(rows[i])
      \/ Subscriptions!OpenOf(row.security) = {}
  BY <1>2, <1>3 DEF Subscriptions!Open
<1> HIDE DEF row
<1> QED BY <1>2, <1>3, <1>4, ChangeKeeps

\* A create finds its security without an open subscription.
LEMMA CreateRowKeeps ==
  ASSUME SubscriptionsInv, NEW n \in DOMAIN sent, Subscriptions!Create(n)
  PROVE  SubscriptionsInv'
<1> USE DEF SubscriptionsInv
<1> DEFINE row == Subscriptions!Row(sent[n].security, sent[n].content)
<1>1. row \in SubscriptionRow /\ row.security = sent[n].security
  <2>1. sent[n] \in CreateRequest
    <3>1. sent[n] \in CreateRequest \cup ContentRequest \cup TransitionRequest
      BY ElementOfSeq DEF SubscriptionsTyped
    <3> QED BY <3>1 DEF Subscriptions!Create, CreateRequest, ContentRequest, TransitionRequest
  <2> QED BY <2>1 DEF CreateRequest, Subscriptions!Row, SubscriptionRow
<1>2. /\ rows' = Append(rows, row) /\ UNCHANGED <<sent, snapshot, acted>>
      /\ Subscriptions!OpenOf(row.security) = {}
  BY <1>1 DEF Subscriptions!Create, Subscriptions!Done
<1>3. audit' \in [Subscriptions!Number -> {0, 1}]
  <2>1. ~(audit[n] > 0) /\ audit' = [audit EXCEPT ![n] = @ + 1]
    BY DEF Subscriptions!Done, Subscriptions!Create, Subscriptions!Replayed
  <2>2. n \in Subscriptions!Number => audit[n] + 1 = 1
    BY <2>1 DEF SubscriptionsTyped
  <2> QED BY <2>1, <2>2 DEF SubscriptionsTyped
<1> HIDE DEF row
<1>4. /\ rows' \in Seq(SubscriptionRow) /\ DOMAIN rows \subseteq DOMAIN rows'
      /\ \A j \in DOMAIN rows : rows'[j] = rows[j]
      /\ \A j \in DOMAIN rows' : j \notin DOMAIN rows => rows'[j] = row /\ j = Len(rows) + 1
  <2>1. rows \in Seq(SubscriptionRow)
    BY DEF SubscriptionsTyped
  <2> QED BY <1>1, <1>2, <2>1
<1>5. SubscriptionsTyped'
  BY <1>2, <1>3, <1>4 DEF SubscriptionsTyped
<1>6. AllSeen'
  <2>1. \A seen : SeenOf(seen) => SeenOf(seen)'
    BY <1>4, SeenStays
  <2> QED BY <1>2, <2>1 DEF AllSeen
<1>7. OpenAlone'
  <2>1. \A j \in DOMAIN rows :
          rows[j].security = row.security => ~Subscriptions!Open(rows[j])
    BY <1>2 DEF Subscriptions!OpenOf
  <2> QED BY <1>4, <2>1 DEF OpenAlone, Subscriptions!Open
<1>8. Subscriptions!ActedAsFrozen'
  BY <1>2 DEF Subscriptions!ActedAsFrozen
<1> QED BY <1>5, <1>6, <1>7, <1>8

\* Readers change nothing but what they hold, and act on what they have frozen.
LEMMA ReaderKeeps ==
  ASSUME SubscriptionsInv,
         Subscriptions!Freeze \/ Subscriptions!Act \/ Subscriptions!Superseded
  PROVE  SubscriptionsInv'
<1> USE DEF SubscriptionsInv
<1>1. UNCHANGED <<rows, sent, audit>>
  BY DEF Subscriptions!Freeze, Subscriptions!Act, Subscriptions!Superseded
<1>2. SubscriptionsTyped' /\ OpenAlone'
  BY <1>1 DEF SubscriptionsTyped, OpenAlone, Subscriptions!Open
<1>3. snapshot' = Subscriptions!NoSnapshot \/ SeenOf(snapshot')
  BY SeenNow DEF Subscriptions!Freeze, Subscriptions!Act, Subscriptions!Superseded
<1>4. AllSeen'
  <2>1. \A seen : SeenOf(seen)' <=> SeenOf(seen)
    BY <1>1 DEF SeenOf
  <2> QED BY <1>1, <1>3, <2>1 DEF AllSeen
<1>5. Subscriptions!ActedAsFrozen'
  <2>1. CASE Subscriptions!Act
    BY <2>1, SameVersionSame DEF Subscriptions!Act, AllSeen, Subscriptions!ActedAsFrozen
  <2>2. CASE ~Subscriptions!Act
    BY <2>2 DEF Subscriptions!Freeze, Subscriptions!Superseded, Subscriptions!ActedAsFrozen
  <2> QED BY <2>1, <2>2
<1> QED BY <1>2, <1>4, <1>5

LEMMA SubscriptionsStep ==
  ASSUME SubscriptionsInv, [Subscriptions!SubscriptionsNext]_(Subscriptions!subscriptionVars)
  PROVE  SubscriptionsInv'
<1>0. ASSUME NEW i \in DOMAIN rows
      PROVE  /\ SeenOf(Subscriptions!Seen(i))
             /\ Subscriptions!Seen(i) \in [row : Nat, version : Nat, revision : Nat]
  <2>1. SeenOf(Subscriptions!Seen(i))
    BY SeenNow DEF SubscriptionsInv
  <2>2. DOMAIN rows \subseteq Nat
    BY DEF SubscriptionsInv, SubscriptionsTyped
  <2> QED BY <2>1, <2>2 DEF SeenOf
<1>1. CASE Subscriptions!SendCreate
  <2>1. PICK s \in Security, c \in Subscriptions!Content :
          Subscriptions!Send([op |-> "create", security |-> s, content |-> c])
    BY <1>1 DEF Subscriptions!SendCreate
  <2>2. [op |-> "create", security |-> s, content |-> c] \in CreateRequest
    BY DEF CreateRequest
  <2> QED BY <2>1, <2>2, SendKeeps
<1>2. CASE Subscriptions!SendContent
  <2>1. PICK i \in DOMAIN rows, c \in Subscriptions!Content,
             op \in {"configure", "policy", "target"} :
          Subscriptions!Send([op |-> op, content |-> c, seen |-> Subscriptions!Seen(i)])
    BY <1>2 DEF Subscriptions!SendContent
  <2>2. [op |-> op, content |-> c, seen |-> Subscriptions!Seen(i)] \in ContentRequest
    BY <1>0 DEF ContentRequest
  <2> QED BY <1>0, <2>1, <2>2, SendKeeps
<1>3. CASE Subscriptions!SendTransition
  <2>1. PICK i \in DOMAIN rows, op \in {"enable", "pause", "archive", "restore"} :
          Subscriptions!Send([op |-> op, seen |-> Subscriptions!Seen(i)])
    BY <1>3 DEF Subscriptions!SendTransition
  <2>2. [op |-> op, seen |-> Subscriptions!Seen(i)] \in TransitionRequest
    BY <1>0 DEF TransitionRequest
  <2> QED BY <1>0, <2>1, <2>2, SendKeeps
<1>4. ASSUME NEW n \in DOMAIN sent, Subscriptions!Create(n)
      PROVE  SubscriptionsInv'
  BY <1>4, CreateRowKeeps
<1>5. ASSUME NEW n \in DOMAIN sent, sent[n].op \in {"configure", "policy", "target"}
      PROVE  /\ sent[n].content \in Subscriptions!Content
             /\ Subscriptions!Now(n) \in Subscriptions!Content
  <2>1. sent[n] \in CreateRequest \cup ContentRequest \cup TransitionRequest
    BY ElementOfSeq DEF SubscriptionsInv, SubscriptionsTyped
  <2>2. sent[n] \in ContentRequest
    BY <1>5, <2>1 DEF CreateRequest, ContentRequest, TransitionRequest
  <2>3. rows[sent[n].seen.row] \in SubscriptionRow
    <3>1. sent[n].seen.row \in DOMAIN rows
      BY <1>5 DEF SubscriptionsInv, AllSeen, SeenOf
    <3> QED BY <3>1, ElementOfSeq DEF SubscriptionsInv, SubscriptionsTyped
  <2> QED BY <2>2, <2>3 DEF ContentRequest, SubscriptionRow, Subscriptions!Now
<1>6. ASSUME NEW n \in DOMAIN sent,
             Subscriptions!Configure(n) \/ Subscriptions!ConfigurePolicy(n)
               \/ Subscriptions!SwitchTarget(n)
      PROVE  SubscriptionsInv'
  <2>1. CASE Subscriptions!Configure(n)
    BY <1>5, <2>1, SwitchKeeps
    DEF Subscriptions!Configure, Subscriptions!Switch, Subscriptions!Current
  <2>2. CASE Subscriptions!ConfigurePolicy(n)
    <3>1. [Subscriptions!Now(n) EXCEPT !.policy = sent[n].content.policy] \in Subscriptions!Content
      BY <1>5, <2>2 DEF Subscriptions!ConfigurePolicy, Subscriptions!Content
    <3> QED BY <2>2, <3>1, SwitchKeeps DEF Subscriptions!ConfigurePolicy
  <2>3. CASE Subscriptions!SwitchTarget(n)
    <3>1. [Subscriptions!Now(n) EXCEPT !.target = sent[n].content.target] \in Subscriptions!Content
      BY <1>5, <2>3 DEF Subscriptions!SwitchTarget, Subscriptions!Content
    <3> QED BY <2>3, <3>1, SwitchKeeps DEF Subscriptions!SwitchTarget
  <2> QED BY <1>6, <2>1, <2>2, <2>3
<1>7. ASSUME NEW n \in DOMAIN sent,
             \/ Subscriptions!Enable(n) \/ Subscriptions!Pause(n)
             \/ Subscriptions!Archive(n) \/ Subscriptions!Restore(n)
      PROVE  SubscriptionsInv'
  <2>1. CASE Subscriptions!Enable(n) BY <2>1, TransitionKeeps DEF Subscriptions!Enable
  <2>2. CASE Subscriptions!Pause(n)  BY <2>2, TransitionKeeps DEF Subscriptions!Pause
  <2>3. CASE Subscriptions!Archive(n)
    BY <2>3, TransitionKeeps DEF Subscriptions!Archive
  <2>4. CASE Subscriptions!Restore(n)
    BY <2>4, TransitionKeeps DEF Subscriptions!Restore, Subscriptions!MayReopen
  <2> QED BY <1>7, <2>1, <2>2, <2>3, <2>4
<1>8. CASE Subscriptions!Freeze \/ Subscriptions!Act \/ Subscriptions!Superseded
  BY <1>8, ReaderKeeps
<1>9. CASE UNCHANGED Subscriptions!subscriptionVars
  <2>1. UNCHANGED <<rows, sent, audit, snapshot, acted>>
    BY <1>9 DEF Subscriptions!subscriptionVars
  <2>2. SubscriptionsTyped' /\ OpenAlone' /\ Subscriptions!ActedAsFrozen'
    BY <2>1 DEF SubscriptionsInv, SubscriptionsTyped, OpenAlone, Subscriptions!Open,
                Subscriptions!ActedAsFrozen
  <2>3. AllSeen'
    BY <2>1 DEF SubscriptionsInv, AllSeen, SeenOf
  <2> QED BY <2>2, <2>3 DEF SubscriptionsInv
<1> QED
  BY <1>1, <1>2, <1>3, <1>4, <1>6, <1>7, <1>8, <1>9 DEF Subscriptions!SubscriptionsNext

(* However late and often requests arrive, each takes effect once, no       *)
(* security has two open subscriptions, and whoever compares only versions  *)
(* acts on the configuration it has seen.                                   *)
THEOREM SubscriptionsKept == Subscriptions!SubscriptionsSpec => []SubscriptionsSound
<1>1. SubscriptionsInv /\ [Subscriptions!SubscriptionsNext]_(Subscriptions!subscriptionVars)
        => SubscriptionsInv'
  BY SubscriptionsStep
<1>2. SubscriptionsInv => SubscriptionsSound
  <2> SUFFICES ASSUME SubscriptionsInv PROVE SubscriptionsSound
    OBVIOUS
  <2>1. Subscriptions!AppliedOnce
    BY DEF SubscriptionsInv, SubscriptionsTyped, Subscriptions!AppliedOnce
  <2>2. ASSUME NEW s \in Security
        PROVE  Subscriptions!Cardinality(Subscriptions!OpenOf(s)) <= 1
    <3>1. Subscriptions!OpenOf(s) = {} \/ \E i : Subscriptions!OpenOf(s) = {i}
      BY DEF SubscriptionsInv, OpenAlone, Subscriptions!OpenOf
    <3> QED BY <3>1, SameCounting, FS_EmptySet, FS_Singleton
  <2> QED BY <2>1, <2>2
      DEF SubscriptionsSound, Subscriptions!SubscriptionsSound, Subscriptions!OneOpen,
          SubscriptionsInv
<1> QED BY <1>1, <1>2, SubscriptionsInit, PTL DEF Subscriptions!SubscriptionsSpec

-----------------------------------------------------------------------------
(* The persistent scheduler.  A batch that has ended keeps its status; the  *)
(* dates a recovery has passed have ended (DatesDone); and day 0 has its    *)
(* batch, so that a gap leaves out no day after it.                         *)

RecoveryJob ==
  [status : {"none", "PENDING", "PAUSED", "CANCELED"} \cup Persistent!Ended,
   next : Nat, from : Nat]

DailyTyped ==
  /\ day \in Nat /\ scanned \in Int
  /\ recovery \in [SUBSET TradingDay -> RecoveryJob]
  /\ batch \in [{"market", "recovery"} -> [Persistent!Days -> {"none"} \cup Persistent!Ended]]

DatesDone ==
  \A gap \in SUBSET TradingDay :
    /\ recovery[gap].from <= recovery[gap].next
    /\ recovery[gap].next <= Cardinality(gap)
    /\ \A d \in gap : Persistent!Rank(gap, d) < recovery[gap].next =>
                        batch["recovery"][d] \in Persistent!Ended

FirstCollected == batch["market"][0] = "SUCCEEDED"

DailyInv == DailyTyped /\ DatesDone /\ FirstCollected /\ DailySound

\* The dates of a gap have ranks of their own, from 0 to one less than their number.
LEMMA Ranks ==
  ASSUME NEW gap \in SUBSET TradingDay
  PROVE  /\ IsFiniteSet(gap) /\ Cardinality(gap) \in Nat
         /\ \A d \in gap : Persistent!Rank(gap, d) \in 0..(Cardinality(gap) - 1)
         /\ \A d, e \in gap : Persistent!Rank(gap, d) = Persistent!Rank(gap, e) => d = e
         /\ \A n \in 0..(Cardinality(gap) - 1) :
              /\ Persistent!DateAt(gap, n) \in gap
              /\ Persistent!Rank(gap, Persistent!DateAt(gap, n)) = n
<1> DEFINE Before(d) == {e \in gap : e < d}
           Top == Cardinality(gap) - 1
<1>1. IsFiniteSet(gap) /\ Cardinality(gap) \in Nat /\ gap \subseteq Int
  <2>1. IsFiniteSet(0..LastDay) /\ gap \subseteq 0..LastDay /\ LastDay \in Nat
    BY SchedulingAssumption, FS_Interval
  <2>2. gap \subseteq Int
    BY <2>1
  <2>3. IsFiniteSet(gap)
    BY <2>1, FS_Subset
  <2> QED BY <2>2, <2>3, FS_CardinalityType
<1>2. \A d \in gap : Persistent!Rank(gap, d) = Cardinality(Before(d))
  BY SameCounting DEF Persistent!Rank
<1>3. \A d \in gap : IsFiniteSet(Before(d)) /\ Cardinality(Before(d)) \in Nat
  BY <1>1, FS_Subset, FS_CardinalityType
<1>4. ASSUME NEW d \in gap PROVE Cardinality(Before(d)) < Cardinality(gap)
  <2>1. Before(d) \subseteq gap /\ d \in gap \ Before(d)
    BY <1>1
  <2>2. Cardinality(Before(d)) <= Cardinality(gap)
        /\ (Cardinality(gap) = Cardinality(Before(d)) => gap = Before(d))
    BY <1>1, <2>1, FS_Subset
  <2> QED BY <1>1, <1>3, <2>1, <2>2
<1>5. ASSUME NEW d \in gap, NEW e \in gap, d < e
      PROVE  Cardinality(Before(d)) < Cardinality(Before(e))
  <2>1. Before(d) \subseteq Before(e) /\ d \in Before(e) \ Before(d)
    <3>1. d \in Int /\ e \in Int /\ \A x \in gap : x \in Int
      BY <1>1
    <3>2. ~(d < d) /\ \A x \in gap : x < d => x < e
      BY <1>5, <3>1
    <3> QED BY <1>5, <3>2
  <2>2. Cardinality(Before(d)) <= Cardinality(Before(e))
        /\ (Cardinality(Before(e)) = Cardinality(Before(d)) => Before(e) = Before(d))
    BY <1>3, <2>1, FS_Subset
  <2> QED BY <1>3, <2>1, <2>2
<1>6. \A d \in gap : Cardinality(Before(d)) \in 0..Top
  BY <1>1, <1>3, <1>4
<1>7. \A d, e \in gap : Cardinality(Before(d)) = Cardinality(Before(e)) => d = e
  BY <1>1, <1>3, <1>5
<1>8. ASSUME NEW n \in 0..Top
      PROVE  \E d \in gap : Persistent!Rank(gap, d) = n
  <2> DEFINE f == [d \in gap |-> Cardinality(Before(d))]
  <2>1. f \in Injection(gap, 0..Top)
    BY <1>6, <1>7 DEF Injection, IsInjective
  <2>2. IsFiniteSet(0..Top) /\ Cardinality(0..Top) = Cardinality(gap)
    BY <1>1, FS_Interval
  <2>3. f \in Surjection(gap, 0..Top)
    BY <2>1, <2>2, FS_Injection
  <2>4. \E d \in gap : f[d] = n
    BY <2>3 DEF Surjection
  <2> QED BY <1>2, <2>4
<1>9. \A n \in 0..Top : /\ Persistent!DateAt(gap, n) \in gap
                        /\ Persistent!Rank(gap, Persistent!DateAt(gap, n)) = n
  BY <1>8 DEF Persistent!DateAt
<1> QED BY <1>1, <1>2, <1>6, <1>7, <1>9, ZenonT(30)

\* A day that is collected, or was: an end stays what it is.
LEMMA CollectKeeps ==
  ASSUME DailyTyped, NEW path \in {"market", "recovery"}, NEW d \in Persistent!Days,
         NEW status, Persistent!CollectDay(path, d, status)
  PROVE  /\ batch' \in [{"market", "recovery"} ->
                          [Persistent!Days -> {"none"} \cup Persistent!Ended]]
         /\ batch'[path][d] \in Persistent!Ended
         /\ \A p \in {"market", "recovery"}, e \in Persistent!Days :
              batch[p][e] \in Persistent!Ended => batch'[p][e] = batch[p][e]
<1>1. status \in Persistent!Ended
      /\ (batch[path][d] \in Persistent!Ended => status = batch[path][d])
  BY DEF Persistent!CollectDay
<1>2. batch' = [batch EXCEPT ![path][d] = status]
  BY DEF Persistent!CollectDay
<1> QED BY <1>1, <1>2 DEF DailyTyped

\* Whatever keeps the ends of batches, and lets no recovery end, keeps the truth.
LEMMA DailyStays ==
  ASSUME DailyInv, DailyTyped', DatesDone', scanned' = scanned,
         \A p \in {"market", "recovery"}, e \in Persistent!Days :
           batch[p][e] \in Persistent!Ended => batch'[p][e] = batch[p][e],
         \A gap \in SUBSET TradingDay :
           /\ recovery[gap].status # "none" => recovery'[gap].status # "none"
           /\ recovery'[gap].status \in {"SUCCEEDED", "PARTIAL"} =>
                recovery'[gap].status = recovery[gap].status
  PROVE  DailyInv'
<1> USE DEF DailyInv
<1>1. TradingDay \subseteq Persistent!Days /\ 0 \in Persistent!Days
  BY SchedulingAssumption DEF Persistent!Days
<1>2. FirstCollected'
  BY <1>1 DEF FirstCollected, Persistent!Ended
<1>3. Persistent!RecoveryTruth'
  <2> SUFFICES ASSUME NEW gap \in SUBSET TradingDay
               PROVE  /\ recovery'[gap].status = "SUCCEEDED" =>
                           \A d \in gap : batch'["recovery"][d] = "SUCCEEDED"
                      /\ recovery'[gap].status = "PARTIAL" =>
                           /\ \A d \in gap : batch'["recovery"][d] \in Persistent!Ended
                           /\ \E d \in gap : batch'["recovery"][d] # "SUCCEEDED"
    BY DEF Persistent!RecoveryTruth, DailyTyped
  <2>1. /\ recovery[gap].status = "SUCCEEDED" =>
             \A d \in gap : batch["recovery"][d] = "SUCCEEDED"
        /\ recovery[gap].status = "PARTIAL" =>
             /\ \A d \in gap : batch["recovery"][d] \in Persistent!Ended
             /\ \E d \in gap : batch["recovery"][d] # "SUCCEEDED"
    BY DEF DailySound, Persistent!DailySound, Persistent!RecoveryTruth, DailyTyped
  <2> QED BY <1>1, <2>1 DEF Persistent!Ended
<1>4. Persistent!GapsHeld'
  <2>1. Persistent!Collected \subseteq Persistent!Collected'
    BY DEF Persistent!Collected, Persistent!Good, Persistent!Ended, DailyTyped
  <2> QED BY <2>1 DEF DailySound, Persistent!DailySound, Persistent!GapsHeld, DailyTyped
<1> QED BY <1>2, <1>3, <1>4 DEF DailySound, Persistent!DailySound

LEMMA DailyInit == Persistent!DailyInit => DailyInv
<1> SUFFICES ASSUME Persistent!DailyInit PROVE DailyInv
  OBVIOUS
<1>1. TradingDay \subseteq Persistent!Days /\ 0 \in Persistent!Days
  BY SchedulingAssumption DEF Persistent!Days
<1>2. DailyTyped /\ FirstCollected
  BY <1>1 DEF Persistent!DailyInit, DailyTyped, FirstCollected, RecoveryJob, Persistent!NoJob,
              Persistent!Ended
<1>3. DatesDone
  <2> SUFFICES ASSUME NEW gap \in SUBSET TradingDay
               PROVE  /\ 0 <= Cardinality(gap)
                      /\ \A d \in gap : ~(Persistent!Rank(gap, d) < 0)
    BY DEF DatesDone, Persistent!DailyInit, Persistent!NoJob
  <2> QED BY Ranks
<1>4. DailySound
  <2>1. Persistent!RecoveryTruth
    BY DEF Persistent!RecoveryTruth, Persistent!DailyInit, Persistent!NoJob
  <2>2. 0 \in Persistent!Collected
    BY <1>1 DEF Persistent!Collected, Persistent!Good, Persistent!DailyInit
  <2>3. \A d \in TradingDay : d <= 0 => d = 0
    BY SchedulingAssumption
  <2>4. Persistent!GapsHeld
    BY <2>2, <2>3 DEF Persistent!GapsHeld, Persistent!DailyInit
  <2> QED BY <2>1, <2>4 DEF DailySound, Persistent!DailySound
<1> QED BY <1>2, <1>3, <1>4 DEF DailyInv

\* Nothing is written but the clock, the counts and the daily jobs.
LEMMA RecoveryUntouched ==
  ASSUME DailyInv, day' \in Nat, UNCHANGED <<recovery, batch, scanned>>
  PROVE  DailyInv'
<1>1. DailyTyped' /\ DatesDone'
  BY DEF DailyInv, DailyTyped, DatesDone
<1> QED BY <1>1, DailyStays

\* The scan sees every trading day without good data: whatever it passes is collected,
\* or in the gap it hands over.
LEMMA StartKeeps ==
  ASSUME DailyInv, Persistent!Start
  PROVE  DailyInv'
<1> USE DEF DailyInv
<1> DEFINE gap == Persistent!Gap(day - 1)
<1>1. UNCHANGED <<day, batch>>
  BY DEF Persistent!Start
<1>2. CASE UNCHANGED <<recovery, scanned>>
  BY <1>1, <1>2, RecoveryUntouched DEF DailyTyped
<1>3. CASE /\ Persistent!SubmitRecovery(gap)
           /\ scanned' = IF gap = {} \/ Persistent!NewGap(gap) THEN day - 1 ELSE scanned
  <2>1. gap \in SUBSET TradingDay
    BY DEF Persistent!Gap
  <2>2. recovery' \in {recovery, [recovery EXCEPT ![gap].status = "PENDING"]}
        /\ (recovery' # recovery => gap # {} /\ recovery[gap].status = "none")
    BY <1>3 DEF Persistent!SubmitRecovery, Persistent!NewGap
  <2>3. \A g \in SUBSET TradingDay :
          /\ recovery'[g].next = recovery[g].next /\ recovery'[g].from = recovery[g].from
          /\ recovery[g].status # "none" => recovery'[g].status = recovery[g].status
          /\ recovery'[g].status \in {recovery[g].status, "PENDING"}
    BY <2>1, <2>2 DEF DailyTyped, RecoveryJob
  <2>4. DailyTyped'
    <3>1. recovery' \in [SUBSET TradingDay -> RecoveryJob]
      BY <2>1, <2>2 DEF DailyTyped, RecoveryJob
    <3>2. scanned' \in Int
      BY <1>3 DEF DailyTyped
    <3> QED BY <1>1, <3>1, <3>2 DEF DailyTyped
  <2>5. DatesDone'
    BY <1>1, <2>3 DEF DatesDone
  <2>6. FirstCollected'
    BY <1>1 DEF FirstCollected
  <2>7. Persistent!RecoveryTruth'
    BY <1>1, <2>3, <2>4 DEF Persistent!RecoveryTruth, DailySound, Persistent!DailySound, DailyTyped
  <2>8. Persistent!GapsHeld'
    <3>1. Persistent!Collected' = Persistent!Collected
      BY <1>1 DEF Persistent!Collected
    <3>2. ASSUME NEW d \in TradingDay, d <= scanned'
          PROVE  \/ d \in Persistent!Collected
                 \/ \E g \in SUBSET TradingDay : d \in g /\ recovery'[g].status # "none"
      <4>1. CASE scanned' = scanned
        <5>1. \/ d \in Persistent!Collected
              \/ \E g \in SUBSET TradingDay : d \in g /\ recovery[g].status # "none"
          BY <3>2, <4>1 DEF DailySound, Persistent!DailySound, Persistent!GapsHeld, DailyTyped
        <5> QED BY <2>3, <5>1
      <4>2. CASE scanned' = day - 1 /\ (gap = {} \/ Persistent!NewGap(gap))
        <5>1. Persistent!Min(Persistent!Collected) = 0
          <6>1. 0 \in Persistent!Collected /\ Persistent!Collected \subseteq Nat
            BY SchedulingAssumption
            DEF FirstCollected, Persistent!Collected, Persistent!Good, DailyTyped, Persistent!Days
          <6>2. \A x \in Persistent!Collected :
                  (\A y \in Persistent!Collected : x <= y) <=> x = 0
            BY <6>1
          <6> QED BY <6>1, <6>2 DEF Persistent!Min
        <5>2. CASE d \in Persistent!Collected
          BY <5>2
        <5>3. CASE d \notin Persistent!Collected
          <6>1. 0 \in Persistent!Collected /\ d \in Nat
            BY SchedulingAssumption
            DEF FirstCollected, Persistent!Collected, Persistent!Good, DailyTyped, Persistent!Days
          <6>2. d > 0
            BY <5>3, <6>1
          <6>3. d \in gap
            BY <3>2, <4>2, <5>1, <5>3, <6>2 DEF Persistent!Gap
          <6>4. recovery' = [recovery EXCEPT ![gap].status = "PENDING"]
            BY <1>3, <4>2, <6>3 DEF Persistent!SubmitRecovery
          <6>5. recovery'[gap].status = "PENDING"
            BY <2>1, <6>4 DEF DailyTyped, RecoveryJob
          <6> QED BY <2>1, <6>3, <6>5
        <5> QED BY <5>2, <5>3
      <4> QED BY <1>3, <4>1, <4>2
    <3> QED BY <2>4, <3>1, <3>2 DEF Persistent!GapsHeld, DailyTyped
  <2> QED BY <2>4, <2>5, <2>6, <2>7, <2>8 DEF DailySound, Persistent!DailySound
<1> QED BY <1>2, <1>3 DEF Persistent!Start

\* A date of a recovery has ended when the recovery goes on to the next.
LEMMA RecoverKeeps ==
  ASSUME DailyInv, NEW gap \in SUBSET TradingDay, Persistent!RecoverDate(gap)
  PROVE  DailyInv'
<1> USE DEF DailyInv
<1>0. /\ recovery[gap].status = "PENDING" /\ recovery[gap].next < Cardinality(gap)
      /\ UNCHANGED <<day, scanned>>
  BY SameCounting DEF Persistent!RecoverDate
<1>1. TradingDay \subseteq Persistent!Days
  BY SchedulingAssumption DEF Persistent!Days
<1>2. CASE /\ \E status \in Persistent!Ended :
                Persistent!CollectDay("recovery",
                  Persistent!DateAt(gap, recovery[gap].next), status)
           /\ recovery' = [recovery EXCEPT ![gap].next = @ + 1]
  <2> DEFINE date == Persistent!DateAt(gap, recovery[gap].next)
  <2>1. recovery[gap].next \in Nat /\ recovery[gap].from \in Nat /\ Cardinality(gap) \in Nat
    BY Ranks DEF DailyTyped, RecoveryJob
  <2>2. /\ date \in gap /\ Persistent!Rank(gap, date) = recovery[gap].next
    BY <1>0, <2>1, Ranks
  <2>3. /\ batch' \in [{"market", "recovery"} ->
                         [Persistent!Days -> {"none"} \cup Persistent!Ended]]
        /\ batch'["recovery"][date] \in Persistent!Ended
        /\ \A p \in {"market", "recovery"}, e \in Persistent!Days :
             batch[p][e] \in Persistent!Ended => batch'[p][e] = batch[p][e]
    BY <1>1, <1>2, <2>2, CollectKeeps
  <2>4. /\ recovery' \in [SUBSET TradingDay -> RecoveryJob]
        /\ recovery'[gap].next = recovery[gap].next + 1
        /\ recovery'[gap].from = recovery[gap].from
        /\ \A g \in SUBSET TradingDay :
             /\ recovery'[g].status = recovery[g].status
             /\ g # gap => recovery'[g] = recovery[g]
    BY <1>2, <2>1 DEF DailyTyped, RecoveryJob
  <2>5. DailyTyped'
    BY <1>0, <2>3, <2>4 DEF DailyTyped
  <2>6. DatesDone'
    <3>1. ASSUME NEW g \in SUBSET TradingDay, g # gap
          PROVE  /\ recovery'[g].from <= recovery'[g].next
                 /\ recovery'[g].next <= Cardinality(g)
                 /\ \A d \in g : Persistent!Rank(g, d) < recovery'[g].next =>
                                   batch'["recovery"][d] \in Persistent!Ended
      BY <1>1, <2>3, <2>4, <3>1 DEF DatesDone
    <3>2. ASSUME NEW d \in gap, Persistent!Rank(gap, d) < recovery'[gap].next
          PROVE  batch'["recovery"][d] \in Persistent!Ended
      <4>1. Persistent!Rank(gap, d) \in Int
        BY Ranks, SMTT(30)
      <4>2. CASE Persistent!Rank(gap, d) < recovery[gap].next
        BY <1>1, <2>3, <4>2 DEF DatesDone
      <4>3. CASE Persistent!Rank(gap, d) = recovery[gap].next
        <5>1. d = date
          BY <2>2, <4>3, Ranks
        <5> QED BY <2>3, <5>1
      <4> QED BY <2>1, <2>4, <3>2, <4>1, <4>2, <4>3
    <3>3. /\ recovery'[gap].from <= recovery'[gap].next
          /\ recovery'[gap].next <= Cardinality(gap)
      BY <1>0, <2>1, <2>4 DEF DatesDone
    <3> QED BY <3>1, <3>2, <3>3 DEF DatesDone
  <2> QED BY <1>0, <2>3, <2>4, <2>5, <2>6, DailyStays
<1>3. CASE /\ recovery' = [recovery EXCEPT ![gap].status = "FAILED"]
           /\ UNCHANGED batch
  <2>1. \A g \in SUBSET TradingDay :
          /\ recovery'[g].next = recovery[g].next /\ recovery'[g].from = recovery[g].from
          /\ recovery'[g].status \in {recovery[g].status, "FAILED"}
    BY <1>3 DEF DailyTyped, RecoveryJob
  <2>2. DailyTyped'
    BY <1>0, <1>3 DEF DailyTyped, RecoveryJob, Persistent!Ended
  <2>3. DatesDone'
    BY <1>3, <2>1 DEF DatesDone
  <2> QED BY <1>0, <1>3, <2>1, <2>2, <2>3, DailyStays
<1> QED BY <1>2, <1>3 DEF Persistent!RecoverDate

\* A recovery ends after its last date, and sums up all of them.
LEMMA FinishKeeps ==
  ASSUME DailyInv, NEW gap \in SUBSET TradingDay, Persistent!FinishRecovery(gap)
  PROVE  DailyInv'
<1> USE DEF DailyInv
<1>1. /\ recovery[gap].next = Cardinality(gap) /\ UNCHANGED <<day, batch, scanned>>
      /\ recovery' = [recovery EXCEPT ![gap].status = Persistent!EndOf(gap)]
  BY SameCounting DEF Persistent!FinishRecovery
<1>2. Persistent!EndOf(gap) \in {"SUCCEEDED", "PARTIAL"}
  BY DEF Persistent!EndOf
<1>3. /\ recovery' \in [SUBSET TradingDay -> RecoveryJob]
      /\ recovery'[gap].status = Persistent!EndOf(gap)
      /\ \A g \in SUBSET TradingDay :
           /\ recovery'[g].next = recovery[g].next /\ recovery'[g].from = recovery[g].from
           /\ g # gap => recovery'[g] = recovery[g]
  BY <1>1, <1>2 DEF DailyTyped, RecoveryJob, Persistent!Ended
<1>4. DailyTyped' /\ DatesDone' /\ FirstCollected'
  BY <1>1, <1>3 DEF DailyTyped, DatesDone, FirstCollected
<1>5. /\ Persistent!Summaries(gap) = gap
      /\ \A d \in gap : batch["recovery"][d] \in Persistent!Ended
  <2>1. \A d \in gap : Persistent!Rank(gap, d) \in 0..(Cardinality(gap) - 1)
    BY Ranks
  <2>2. recovery[gap].from \in Nat /\ Cardinality(gap) \in Nat
    BY Ranks DEF DailyTyped, RecoveryJob
  <2> QED BY <1>1, <2>1, <2>2 DEF Persistent!Summaries, DatesDone
<1>6. Persistent!RecoveryTruth'
  <2>1. /\ recovery'[gap].status = "SUCCEEDED" =>
             \A d \in gap : batch["recovery"][d] = "SUCCEEDED"
        /\ recovery'[gap].status = "PARTIAL" =>
             \E d \in gap : batch["recovery"][d] # "SUCCEEDED"
    BY <1>3, <1>5 DEF Persistent!EndOf
  <2> QED BY <1>1, <1>3, <1>5, <2>1
      DEF Persistent!RecoveryTruth, DailySound, Persistent!DailySound, DailyTyped
<1>7. Persistent!GapsHeld'
  <2>1. Persistent!Collected' = Persistent!Collected
    BY <1>1 DEF Persistent!Collected
  <2>2. \A g \in SUBSET TradingDay : recovery[g].status # "none" => recovery'[g].status # "none"
    BY <1>2, <1>3
  <2> QED BY <1>1, <1>3, <2>1, <2>2
      DEF Persistent!GapsHeld, DailySound, Persistent!DailySound, DailyTyped
<1> QED BY <1>4, <1>6, <1>7 DEF DailySound, Persistent!DailySound

\* A command starts an attempt or ends one, and makes no recovery an end.
LEMMA OrderKeeps ==
  ASSUME DailyInv, NEW gap \in SUBSET TradingDay, NEW from,
         NEW to \in {"PENDING", "PAUSED", "CANCELED"}, Persistent!Order(gap, from, to)
  PROVE  DailyInv'
<1> USE DEF DailyInv
<1>1. /\ recovery' = [recovery EXCEPT ![gap].status = to, ![gap].from = recovery[gap].next]
      /\ UNCHANGED <<day, batch, scanned>>
  BY DEF Persistent!Order
<1>2. /\ recovery' \in [SUBSET TradingDay -> RecoveryJob]
      /\ recovery'[gap].status = to /\ recovery'[gap].from = recovery[gap].next
      /\ recovery'[gap].next = recovery[gap].next
      /\ \A g \in SUBSET TradingDay : g # gap => recovery'[g] = recovery[g]
  BY <1>1 DEF DailyTyped, RecoveryJob
<1>3. DailyTyped'
  BY <1>1, <1>2 DEF DailyTyped
<1>4. recovery[gap].next \in Nat
  BY DEF DailyTyped, RecoveryJob
<1>5. DatesDone'
  BY <1>1, <1>2, <1>4 DEF DatesDone
<1>6. \A g \in SUBSET TradingDay :
        /\ recovery[g].status # "none" => recovery'[g].status # "none"
        /\ recovery'[g].status \in {"SUCCEEDED", "PARTIAL"} =>
             recovery'[g].status = recovery[g].status
  BY <1>2
<1> QED BY <1>1, <1>3, <1>5, <1>6, DailyStays

LEMMA DailyStep ==
  ASSUME DailyInv, [Persistent!DailyNext]_(Persistent!dailyVars)
  PROVE  DailyInv'
<1>0. day \in Nat
  BY DEF DailyInv, DailyTyped
<1>1. CASE Persistent!Start
  BY <1>1, StartKeeps
<1>2. CASE Persistent!Stop \/ Persistent!Evening \/ Persistent!FirePersistent
  BY <1>0, <1>2, RecoveryUntouched
  DEF Persistent!Stop, Persistent!Evening, Persistent!FirePersistent
<1>3. CASE Persistent!NextDay
  <2>1. day' \in Nat
    BY <1>0, <1>3 DEF Persistent!NextDay
  <2> QED BY <1>3, <2>1, RecoveryUntouched DEF Persistent!NextDay
<1>4. ASSUME NEW d \in Persistent!Days, Persistent!RunDaily(d)
      PROVE  DailyInv'
  <2>1. UNCHANGED <<day, recovery, scanned>>
    BY <1>4 DEF Persistent!RunDaily
  <2>2. CASE UNCHANGED batch
    BY <1>0, <2>1, <2>2, RecoveryUntouched
  <2>3. ASSUME NEW status, Persistent!CollectDay("market", d, status)
        PROVE  DailyInv'
    <3>1. /\ batch' \in [{"market", "recovery"} ->
                           [Persistent!Days -> {"none"} \cup Persistent!Ended]]
          /\ \A p \in {"market", "recovery"}, e \in Persistent!Days :
               batch[p][e] \in Persistent!Ended => batch'[p][e] = batch[p][e]
      BY <2>3, CollectKeeps DEF DailyInv
    <3>2. TradingDay \subseteq Persistent!Days
      BY SchedulingAssumption DEF Persistent!Days
    <3>3. DailyTyped' /\ DatesDone'
      BY <2>1, <3>1, <3>2 DEF DailyInv, DailyTyped, DatesDone
    <3> QED BY <2>1, <3>1, <3>3, DailyStays
  <2> QED BY <1>4, <2>2, <2>3 DEF Persistent!RunDaily
<1>5. ASSUME NEW gap \in SUBSET TradingDay,
             \/ Persistent!RecoverDate(gap) \/ Persistent!FinishRecovery(gap)
             \/ Persistent!PauseRecovery(gap) \/ Persistent!ResumeRecovery(gap)
             \/ Persistent!CancelRecovery(gap) \/ Persistent!RetryRecovery(gap)
      PROVE  DailyInv'
  <2>1. CASE Persistent!RecoverDate(gap)    BY <2>1, RecoverKeeps
  <2>2. CASE Persistent!FinishRecovery(gap) BY <2>2, FinishKeeps
  <2>3. CASE Persistent!PauseRecovery(gap)
    BY <2>3, OrderKeeps DEF Persistent!PauseRecovery
  <2>4. CASE Persistent!ResumeRecovery(gap)
    BY <2>4, OrderKeeps DEF Persistent!ResumeRecovery
  <2>5. CASE Persistent!CancelRecovery(gap)
    BY <2>5, OrderKeeps DEF Persistent!CancelRecovery
  <2>6. CASE Persistent!RetryRecovery(gap)
    BY <2>6, OrderKeeps DEF Persistent!RetryRecovery
  <2> QED BY <1>5, <2>1, <2>2, <2>3, <2>4, <2>5, <2>6
<1>6. CASE UNCHANGED Persistent!dailyVars
  BY <1>0, <1>6, RecoveryUntouched DEF Persistent!dailyVars
<1> QED BY <1>1, <1>2, <1>3, <1>4, <1>5, <1>6 DEF Persistent!DailyNext

(* No missed day is overlooked once a scan has passed it, and the end of a  *)
(* recovery is the truth about all of its dates, those included that an     *)
(* attempt before a pause or a failure collected.                           *)
THEOREM Daily == Persistent!DailySpec => []DailySound
<1>1. DailyInv /\ [Persistent!DailyNext]_(Persistent!dailyVars) => DailyInv'
  BY DailyStep
<1>2. DailyInv => DailySound
  BY DEF DailyInv
<1> QED BY <1>1, <1>2, DailyInit, PTL DEF Persistent!DailySpec

=============================================================================
