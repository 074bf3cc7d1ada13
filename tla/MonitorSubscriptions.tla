------------------------ MODULE MonitorSubscriptions ------------------------
(***************************************************************************)
(* The subscriptions of the monitoring centre: the requests that create,   *)
(* configure, enable, pause, archive and restore them, and the readers     *)
(* that freeze the enabled ones and act on them later.                     *)
(*                                                                         *)
(* Every write is one transaction under the lock of its row (or, for       *)
(* create, of its security).  Requests are where the trouble is: a client  *)
(* names the version it saw, and its request may arrive late and twice.    *)
(***************************************************************************)
EXTENDS Integers, Sequences, FiniteSets

CONSTANTS Security,     \* the securities that may be monitored
          Target,       \* what a revision says of its target: mode, strategy
          Policy,       \* what it says of notifications
          MaxRequests,  \* bound on the requests clients send
          MaxRows       \* bound on the subscriptions created

VARIABLES
  rows,     \* the monitor_subscription rows, in order of creation
  sent,     \* the requests sent so far; any of them may arrive at any time
  audit,    \* [request number -> how often it took effect]
  snapshot, \* a frozen subscription a reader holds, or NoSnapshot
  acted     \* what was acted on last, and what the actor had seen before

subscriptionVars == <<rows, sent, audit, snapshot, acted>>

Number  == 1..MaxRequests
NoSnapshot == [row |-> 0, version |-> 0, revision |-> 0]
Nothing    == [frozen |-> NoSnapshot, used |-> NoSnapshot]

Content == [target : Target, policy : Policy]

\* The current revision is the last one; `revision` counts them.
Row(security, content) ==
  [security |-> security, status |-> "CONFIGURING", version |-> 1,
   revision |-> 1, content |-> content]

Open(row) == row.status # "ARCHIVED"
OpenOf(security) == {i \in DOMAIN rows : rows[i].security = security /\ Open(rows[i])}

SubscriptionsInit ==
  /\ rows = <<>>
  /\ sent = <<>>
  /\ audit = [n \in Number |-> 0]
  /\ snapshot = NoSnapshot
  /\ acted = Nothing

-----------------------------------------------------------------------------
(* Requests.  The number of a request is its idempotency key.               *)

Seen(i) == [row |-> i, version |-> rows[i].version, revision |-> rows[i].revision]

Send(request) ==
  /\ Len(sent) < MaxRequests
  /\ sent' = Append(sent, request)
  /\ UNCHANGED <<rows, audit, snapshot, acted>>

SendCreate ==
  \E s \in Security, c \in Content :
    Send([op |-> "create", security |-> s, content |-> c])

\* A change names the version its client has seen.
SendContent ==
  \E i \in DOMAIN rows, c \in Content, op \in {"configure", "policy", "target"} :
    Send([op |-> op, content |-> c, seen |-> Seen(i)])

SendTransition ==
  \E i \in DOMAIN rows, op \in {"enable", "pause", "archive", "restore"} :
    Send([op |-> op, seen |-> Seen(i)])

\* A slip to catch: a request that arrives again is not recognised.
ReplayedNever(n) == FALSE

\* find_replay: the audit record of the key, written with the change.
Replayed(n) == audit[n] > 0

Done(n) == audit' = [audit EXCEPT ![n] = @ + 1] /\ UNCHANGED <<sent, snapshot>>

Create(n) ==
  /\ sent[n].op = "create" /\ ~Replayed(n)
  /\ OpenOf(sent[n].security) = {}       \* else the open one is the answer
  /\ Len(rows) < MaxRows
  /\ rows' = Append(rows, Row(sent[n].security, sent[n].content))
  /\ Done(n)
  /\ UNCHANGED acted

\* A slip to catch: a configuration is switched and the version stays.
SwitchedUnversioned(row, content) == [row EXCEPT !.content = content, !.revision = @ + 1]

Switched(row, content) ==
  [row EXCEPT !.content = content, !.revision = @ + 1, !.version = @ + 1]

\* The row is locked, and the version the client saw is compared.
Current(n, op) ==
  /\ sent[n].op = op /\ ~Replayed(n)
  /\ rows[sent[n].seen.row].version = sent[n].seen.version
  /\ acted' = [frozen |-> sent[n].seen, used |-> Seen(sent[n].seen.row)]

Switch(n, op, content) ==
  LET i == sent[n].seen.row IN
  /\ Current(n, op) /\ Open(rows[i])
  /\ rows' = [rows EXCEPT ![i] = Switched(@, content)]
  /\ Done(n)

Now(n) == rows[sent[n].seen.row].content

Configure(n) == Switch(n, "configure", sent[n].content)

\* The other half of the configuration is the current revision's.
ConfigurePolicy(n) ==
  /\ sent[n].op = "policy"
  /\ Switch(n, "policy", [Now(n) EXCEPT !.policy = sent[n].content.policy])

SwitchTarget(n) ==
  /\ sent[n].op = "target"
  /\ Switch(n, "target", [Now(n) EXCEPT !.target = sent[n].content.target])

Transition(n, op, from, to) ==
  LET i == sent[n].seen.row IN
  /\ Current(n, op) /\ rows[i].status \in from
  /\ rows' = [rows EXCEPT ![i].status = to, ![i].version = @ + 1]
  /\ Done(n)

\* Whether target and strategy are ready is their modules' answer.
Enable(n)  == Transition(n, "enable", {"CONFIGURING", "PAUSED"}, "ENABLED")
Pause(n)   == Transition(n, "pause", {"CONFIGURING", "ENABLED"}, "PAUSED")
Archive(n) == Transition(n, "archive", {"PAUSED"}, "ARCHIVED")

\* A slip to catch: nothing looks whether another one is open by now.
MayReopenAlways(security) == TRUE

\* The partial unique index refuses a second open row.
MayReopen(security) == OpenOf(security) = {}

Restore(n) ==
  /\ sent[n].op = "restore"
  /\ MayReopen(rows[sent[n].seen.row].security)
  /\ Transition(n, "restore", {"ARCHIVED"}, "PAUSED")

-----------------------------------------------------------------------------
(* Readers.                                                                 *)

\* enabled_schedule_snapshots
Freeze ==
  /\ \E i \in DOMAIN rows : rows[i].status = "ENABLED" /\ snapshot' = Seen(i)
  /\ UNCHANGED <<rows, sent, audit, acted>>

\* execute_if_eligible, under the lock of the row; it knows only the version.
Act ==
  /\ snapshot # NoSnapshot
  /\ rows[snapshot.row].status = "ENABLED"
  /\ rows[snapshot.row].version = snapshot.version
  /\ acted' = [frozen |-> snapshot, used |-> Seen(snapshot.row)]
  /\ snapshot' = NoSnapshot
  /\ UNCHANGED <<rows, sent, audit>>

Superseded ==
  /\ snapshot # NoSnapshot
  /\ \/ rows[snapshot.row].status # "ENABLED"
     \/ rows[snapshot.row].version # snapshot.version
  /\ snapshot' = NoSnapshot
  /\ UNCHANGED <<rows, sent, audit, acted>>

SubscriptionsNext ==
  \/ SendCreate \/ SendContent \/ SendTransition
  \/ \E n \in DOMAIN sent :
       \/ Create(n) \/ Configure(n) \/ ConfigurePolicy(n) \/ SwitchTarget(n)
       \/ Enable(n) \/ Pause(n) \/ Archive(n) \/ Restore(n)
  \/ Freeze \/ Act \/ Superseded

SubscriptionsSpec == SubscriptionsInit /\ [][SubscriptionsNext]_subscriptionVars

-----------------------------------------------------------------------------
(* However late and however often a request arrives, it takes effect at     *)
(* most once: a repeated create, after the subscription was archived, does  *)
(* not create a second one.                                                 *)
AppliedOnce == \A n \in Number : audit[n] <= 1

(* A security has one open subscription at most, although an archived one   *)
(* may be restored after another was created.                               *)
OneOpen == \A s \in Security : Cardinality(OpenOf(s)) <= 1

(* Whoever compares nothing but the version acts on the very configuration  *)
(* it has seen: a reader that froze the subscription, and a client that     *)
(* changes all of it or a half of it.                                       *)
ActedAsFrozen == acted.frozen = acted.used

\* Requests take effect once, a security has one open subscription, and whoever
\* compares only the version acts on the configuration it has seen.
SubscriptionsSound == AppliedOnce /\ OneOpen /\ ActedAsFrozen
=============================================================================
