---------------------------- MODULE JobLifecycle ----------------------------
(***************************************************************************)
(* What the job queue promises to the people who use it, with no lease,    *)
(* token, attempt or clock: the life of each job as a status and the       *)
(* control request that is waiting for the running attempt to stop.        *)
(*                                                                         *)
(* A request, once it is accepted, decides how the attempt ends: nothing   *)
(* but a cancelation follows a cancel, and nothing but a pause or a        *)
(* cancelation follows a pause.                                            *)
(***************************************************************************)
CONSTANT Job

VARIABLES
  phase,        \* phase[j]: the status of job j
  wanted        \* wanted[j]: what the running attempt has been asked for

lifecycle == <<phase, wanted>>

Ended == {"SUCCEEDED", "PARTIAL", "FAILED", "CANCELED"}
Phase == {"ABSENT", "PENDING", "RUNNING", "PAUSED"} \cup Ended
Want == {"nothing", "pause", "cancel"}

LifecycleInit ==
  /\ phase = [j \in Job |-> "ABSENT"]
  /\ wanted = [j \in Job |-> "nothing"]

Move(j, from, to) ==
  /\ phase[j] = from
  /\ phase'[j] = to
  /\ wanted'[j] = "nothing"

Stays(j) == phase'[j] = phase[j] /\ wanted'[j] = wanted[j]

Submit(j) == Move(j, "ABSENT", "PENDING")
Start(j) == Move(j, "PENDING", "RUNNING")

\* A request waits for the attempt; a pause does not replace a cancel.
Ask(j) ==
  /\ phase[j] = "RUNNING" /\ phase'[j] = "RUNNING"
  /\ \/ wanted'[j] = "cancel"
     \/ wanted'[j] = "pause" /\ wanted[j] # "cancel"

\* An attempt nobody has asked anything of ends as its result says, goes back
\* to the queue, or pauses itself.
End(j) ==
  /\ wanted[j] = "nothing"
  /\ \E to \in {"SUCCEEDED", "PARTIAL", "FAILED", "PENDING", "PAUSED"} :
       Move(j, "RUNNING", to)

Obey(j) ==
  \/ wanted[j] = "cancel" /\ Move(j, "RUNNING", "CANCELED")
  \/ wanted[j] = "pause" /\ Move(j, "RUNNING", "PAUSED")

\* Commands on a job that is not running take effect at once.
Decide(j) ==
  \/ Move(j, "PENDING", "PAUSED")
  \/ Move(j, "PENDING", "CANCELED")
  \/ Move(j, "PAUSED", "CANCELED")
  \/ Move(j, "PAUSED", "PENDING")
  \/ Move(j, "FAILED", "PENDING")
  \/ Move(j, "PARTIAL", "PENDING")

\* One transaction may move several jobs (the recovery of a batch).
LifecycleNext ==
  \A j \in Job : \/ Submit(j) \/ Start(j) \/ Ask(j) \/ End(j) \/ Obey(j)
                 \/ Decide(j) \/ Stays(j)

Lifecycle == LifecycleInit /\ [][LifecycleNext]_lifecycle
=============================================================================
