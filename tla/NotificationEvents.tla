-------------------------- MODULE NotificationEvents --------------------------
(***************************************************************************)
(* One notification event of backend/src/long_invest/modules/notifications,*)
(* its deliveries by recipient and generation, and the transactions that   *)
(* change both: workers that record results (service.py), administrators   *)
(* who retry and cancel (admin.py).  Each locks a delivery, then the event,*)
(* and derives the status of the event from the deliveries it sees.        *)
(*                                                                         *)
(* Sending is modelled in NotificationDelivery.  Here a delivery is WAITING*)
(* when it is PENDING or RETRY_WAIT, COMPENSATING when it is SENDING after *)
(* an unknown outcome; an unknown outcome is UNKNOWN_DUE while a           *)
(* compensation is scheduled and UNKNOWN_KEPT afterwards.                  *)
(***************************************************************************)
EXTENDS Naturals, FiniteSets

CONSTANTS
  Recipient,          \* recipients of the event, or channels without recipient
  ChannelOf,          \* the channel of each recipient
  Session,            \* database sessions
  MaxGeneration       \* bound on the retries of a recipient

\* All recipients on one channel, as two mailboxes are.
SharedChannel == [r \in Recipient |-> "EMAIL"]

VARIABLES
  event,              \* status of the event, "ABSENT" before it is published
  rows,               \* status of each delivery, by recipient and generation
  session             \* open transactions

vars == <<event, rows, session>>

Generation == 1 .. MaxGeneration
Sending == {"SENDING", "COMPENSATING"}
Active == {"WAITING"} \cup Sending
Unknown == {"UNKNOWN_DUE", "UNKNOWN_KEPT"}
Final == {"SENT", "FAILED", "CANCELED", "SKIPPED", "UNKNOWN_KEPT"}
DeliveryStatus == {"ABSENT", "UNKNOWN_DUE"} \cup Active \cup Final
EventStatus == {"ABSENT", "SUPPRESSED", "DISPATCHED", "PARTIAL", "DELIVERED",
                "FAILED", "CANCELED"}

Id == Recipient \X Generation
Existing(state) == {d \in Id : state[d] # "ABSENT"}

(***************************************************************************)
(* aggregate_event_status and aggregate_current_event_status.              *)
(***************************************************************************)
\* The deliveries that may be taken for the newest of a channel: the list has
\* no order, and recipients are not told apart.
Newest(state, c) ==
  LET ofChannel == {d \in Existing(state) : ChannelOf[d[1]] = c}
  IN  {d \in ofChannel : \A e \in ofChannel : e[2] <= d[2]}

Aggregate(statuses) ==
  CASE statuses = {} -> "SUPPRESSED"
    [] statuses \cap Active # {} -> "DISPATCHED"
    [] statuses = {"SENT"} -> "DELIVERED"
    [] statuses \cap Active = {} /\ "SENT" \in statuses /\ statuses # {"SENT"} ->
         "PARTIAL"
    [] statuses = {"CANCELED"} -> "CANCELED"
    [] statuses = {"SKIPPED"} -> "SUPPRESSED"
    [] /\ statuses \subseteq {"FAILED", "SKIPPED", "CANCELED"}
       /\ statuses \notin {{}, {"CANCELED"}, {"SKIPPED"}} -> "FAILED"
    [] /\ statuses \cap (Active \cup {"SENT"}) = {}
       /\ statuses \cap Unknown # {} -> "DISPATCHED"

Channels(state) == {ChannelOf[d[1]] : d \in Existing(state)}

\* The statuses aggregate_current_event_status may return.
Aggregates(state) ==
  {Aggregate({state[pick[c]] : c \in Channels(state)}) :
     pick \in {f \in [Channels(state) -> Existing(state)] :
                 \A c \in Channels(state) : f[c] \in Newest(state, c)}}

(***************************************************************************)
(* Transactions.                                                           *)
(***************************************************************************)
Idle == [pc |-> "idle"]
Open(d, change) == [pc |-> "row", delivery |-> d, change |-> change]

RowLocked(d) == \E s \in Session : session[s].pc # "idle" /\ session[s].delivery = d

\* Faulty variant: the event is read without locking it.
EventFreeAlways == TRUE

EventFree == \A s \in Session : session[s].pc # "event"

Init ==
  /\ event = "ABSENT"
  /\ rows = [d \in Id |-> "ABSENT"]
  /\ session = [s \in Session |-> Idle]

\* publish, for the recipients that were selected.
Publish ==
  /\ event = "ABSENT"
  /\ \E targets \in SUBSET Recipient :
       /\ rows' = [d \in Id |-> IF d[1] \in targets /\ d[2] = 1 THEN "WAITING"
                                                               ELSE "ABSENT"]
       /\ event' = IF targets = {} THEN "SUPPRESSED" ELSE "DISPATCHED"
  /\ UNCHANGED session

\* claim_next skips rows that are locked and leaves the event alone.
Claim(d) ==
  /\ ~RowLocked(d)
  /\ \/ rows[d] = "WAITING" /\ rows' = [rows EXCEPT ![d] = "SENDING"]
     \/ rows[d] = "UNKNOWN_DUE" /\ rows' = [rows EXCEPT ![d] = "COMPENSATING"]
  /\ UNCHANGED <<event, session>>

\* What becomes of a delivery whose result, skip or expired lease is recorded.
Results(d) ==
  {"SENT", "FAILED", "SKIPPED", "UNKNOWN_KEPT"}
    \cup (IF rows[d] = "SENDING" THEN {"WAITING", "UNKNOWN_DUE"} ELSE {})
    \cup (IF event = "CANCELED" THEN {"CANCELED"} ELSE {})

\* record_result, skip_delivery and recover_expired_leases lock the delivery.
BeginResult(s, d) ==
  /\ session[s].pc = "idle" /\ ~RowLocked(d)
  /\ rows[d] \in Sending
  /\ \E result \in Results(d) :
       session' = [session EXCEPT ![s] = Open(d, result)]
  /\ UNCHANGED <<event, rows>>

\* retry_delivery and cancel_delivery lock the delivery whatever its status.
BeginAdmin(s, d) ==
  /\ session[s].pc = "idle" /\ ~RowLocked(d)
  /\ d \in Existing(rows)
  /\ \E change \in {"retry", "cancel"} :
       session' = [session EXCEPT ![s] = Open(d, change)]
  /\ UNCHANGED <<event, rows>>

\* _current_delivery: the first of the newest generation, in an order that says
\* nothing about recipients.
IsCurrent(d) == d \in Newest(rows, ChannelOf[d[1]])

\* Faulty variants: a delivery that is under way may be retried; a retry starts
\* the old delivery again.
MayRetryWaiting(d) ==
  /\ IsCurrent(d)
  /\ rows[d] \in {"WAITING", "FAILED", "SENT"} \cup Unknown
  /\ d[2] < MaxGeneration

\* SENT and unknown outcomes need a confirmation, which is given.
MayRetry(d) ==
  /\ IsCurrent(d)
  /\ rows[d] \in {"FAILED", "SENT"} \cup Unknown
  /\ d[2] < MaxGeneration

MayCancel(d) == IsCurrent(d) /\ rows[d] = "WAITING"

NextGeneration(r) == Cardinality({d \in Existing(rows) : d[1] = r}) + 1

\* The deliveries as the transaction will leave them.
AfterInPlace(d, change) ==
  CASE change = "retry" -> [rows EXCEPT ![d] = "WAITING"]
    [] change = "cancel" -> [rows EXCEPT ![d] = "CANCELED"]
    [] change \in DeliveryStatus -> [rows EXCEPT ![d] = change]

After(d, change) ==
  CASE change = "retry" -> [rows EXCEPT ![<<d[1], NextGeneration(d[1])>>] = "WAITING"]
    [] change = "cancel" -> [rows EXCEPT ![d] = "CANCELED"]
    [] change \in DeliveryStatus -> [rows EXCEPT ![d] = change]

\* The event is locked and its deliveries are read, changed and summed up.
LockEvent(s) ==
  LET d == session[s].delivery
      change == session[s].change
  IN
  /\ session[s].pc = "row" /\ EventFree
  /\ \/ /\ change = "retry" => MayRetry(d)
        /\ change = "cancel" => MayCancel(d)
        /\ \E status \in Aggregates(After(d, change)) :
             session' = [session EXCEPT ![s] =
               [pc |-> "event", delivery |-> d, change |-> change, event |-> status]]
     \/ \* The request is refused.
        /\ \/ change = "retry" /\ ~MayRetry(d)
           \/ change = "cancel" /\ ~MayCancel(d)
        /\ session' = [session EXCEPT ![s] = Idle]
  /\ UNCHANGED <<event, rows>>

Commit(s) ==
  /\ session[s].pc = "event"
  /\ rows' = After(session[s].delivery, session[s].change)
  /\ event' = session[s].event
  /\ session' = [session EXCEPT ![s] = Idle]

Rollback(s) ==
  /\ session[s].pc # "idle"
  /\ session' = [session EXCEPT ![s] = Idle]
  /\ UNCHANGED <<event, rows>>

Next ==
  \/ Publish
  \/ \E d \in Id : Claim(d)
  \/ \E s \in Session, d \in Id : BeginResult(s, d) \/ BeginAdmin(s, d)
  \/ \E s \in Session : LockEvent(s) \/ Commit(s) \/ Rollback(s)

Spec == Init /\ [][Next]_vars

-----------------------------------------------------------------------------
(* Properties. *)

\* Types; the generations of a recipient are numbered without a gap, and one
\* session at most has the event locked.
TypeOK ==
  /\ event \in EventStatus
  /\ rows \in [Id -> DeliveryStatus]
  /\ \A s \in Session :
       \/ session[s] = Idle
       \/ session[s].pc \in {"row", "event"} /\ session[s].delivery \in Existing(rows)
  /\ \A s, t \in Session :
       session[s].pc = "event" /\ session[t].pc = "event" => s = t
  /\ \A d \in Existing(rows) : \A g \in 1 .. d[2] : <<d[1], g>> \in Existing(rows)

NewestOf(r) ==
  LET own == {d \in Existing(rows) : d[1] = r}
  IN  {rows[d] : d \in {x \in own : \A y \in own : y[2] <= x[2]}}
Newests == UNION {NewestOf(r) : r \in Recipient}

(***************************************************************************)
(* The status of the event tells what became of each recipient, whenever   *)
(* no newest delivery is being sent: the transactions that end sends,      *)
(* retries and cancellations of different deliveries at the same time do   *)
(* not overwrite each other's sum with a stale one.                        *)
(***************************************************************************)
EventTellsTruth ==
  (event # "ABSENT" /\ Newests \cap Sending = {}) =>
    /\ event = "DELIVERED" <=> Newests = {"SENT"}
    /\ event = "PARTIAL" <=> /\ "SENT" \in Newests /\ Newests # {"SENT"}
                             /\ "WAITING" \notin Newests
    /\ event = "CANCELED" <=> Newests = {"CANCELED"}
    /\ event = "FAILED" => "SENT" \notin Newests /\ Newests \cap Unknown = {}
    /\ "WAITING" \in Newests => event = "DISPATCHED"
    /\ event = "SUPPRESSED" <=> Newests \subseteq {"SKIPPED"}

(***************************************************************************)
(* A message to a recipient is under way in one generation only, but for   *)
(* the compensation of an unknown outcome: retries that race each other or *)
(* a result do not queue it twice.                                         *)
(***************************************************************************)
OneUnderWay ==
  \A r \in Recipient :
    Cardinality({g \in Generation : rows[<<r, g>>] \in {"WAITING", "SENDING"}}) <= 1

(***************************************************************************)
(* A resend does not alter the facts of the deliveries before it.          *)
(***************************************************************************)
FactsKept == [][\A d \in Id : rows[d] \in Final => rows'[d] = rows[d]]_vars

(***************************************************************************)
(* The design document's rule: deliveries are recorded by recipient, a     *)
(* failure of one does not concern the others.  An event is not delivered  *)
(* while one of its recipients has not got it.                             *)
(***************************************************************************)
DeliveredToAll == event = "DELIVERED" => Newests \subseteq {"SENT"} \cup Sending

\* The status of an event tells where its deliveries are, and no recipient has
\* two of them under way.
EventsSound == EventTellsTruth /\ OneUnderWay
=============================================================================
