-------------------------- MODULE CorporateActions --------------------------
(***************************************************************************)
(* The corporate actions of a security                                     *)
(* (backend/src/long_invest/modules/market_data): whoever needs an         *)
(* adjustment timeline first collects what the source says of a range, in  *)
(* a transaction of his own, and then reads the timeline from all that is  *)
(* stored (bootstrap/stage4_runtime.py).  What is stored is never changed, *)
(* a correction is a further revision.                                     *)
(*                                                                         *)
(* Each statement of a transaction is an action.  The rows a statement     *)
(* locks or inserts are taken at once; where PostgreSQL takes them one by  *)
(* one, two may wait for each other, and one of them fails (Fail).         *)
(***************************************************************************)
EXTENDS Naturals

CONSTANTS
  Caller,
  Event,              \* source_event_id
  Content,            \* raw_content_hash, which all that is told of an event goes into
  Nothing,            \* the source does not tell of the event
  EffectiveOn,        \* effective_date of a content
  Range,              \* what callers ask for: sets of dates
  MaxFetches,
  MaxTime

VARIABLES
  now,
  issued,             \* the number of batch ids drawn
  batches,            \* corporate_action_fetch_batch
  facts,              \* corporate_action_fact: event, revision, content, and its batch
  caller              \* where each caller is; what he holds is with him

vars == <<now, issued, batches, facts, caller>>

Idle == [pc |-> "idle"]

Init ==
  /\ now = 0 /\ issued = 0 /\ batches = {} /\ facts = {}
  /\ caller = [p \in Caller |-> Idle]

At(p, pc) == caller[p].pc = pc
Go(p, step) == caller' = [caller EXCEPT ![p] = step]

Told(said) == {e \in Event : said[e] # Nothing}

-----------------------------------------------------------------------------
(***************************************************************************)
(* CorporateActionCollectionApplication.collect, the source's part.        *)
(***************************************************************************)
\* What may be told of a range: events of the range.
Answers(range) ==
  {said \in [Event -> Content \cup {Nothing}] :
     \A e \in Told(said) : EffectiveOn[said[e]] \in range}

\* The source is asked; what it tells is observed now.
Ask(p) ==
  /\ At(p, "idle") /\ issued < MaxFetches
  /\ \E range \in Range :
       Go(p, [pc |-> "asked", range |-> range, id |-> issued, observed |-> now])
  /\ issued' = issued + 1
  /\ UNCHANGED <<now, batches, facts>>

\* It answers or fails.  Who is told of nothing has observed that at the end.
Answer(p) ==
  LET Fetched(ok, said) ==
        [id |-> caller[p].id, range |-> caller[p].range, ok |-> ok, said |-> said,
         observed |-> IF Told(said) = {} THEN now ELSE caller[p].observed,
         fetched |-> now]
      Begin(fetch) == Go(p, [pc |-> "begun", fetch |-> fetch, locked |-> {}, attempt |-> 1])
  IN
  /\ At(p, "asked")
  /\ \/ \E said \in Answers(caller[p].range) : Begin(Fetched(TRUE, said))
     \/ Begin(Fetched(FALSE, [e \in Event |-> Nothing]))
  /\ UNCHANGED <<now, issued, batches, facts>>

-----------------------------------------------------------------------------
(***************************************************************************)
(* CorporateActionService.record_fetch, in the transaction of collect.     *)
(***************************************************************************)
\* list_event_facts_for_update: what its statement sees ...
Read(p) ==
  /\ At(p, "begun")
  /\ Go(p, [pc |-> "locking", fetch |-> caller[p].fetch, locked |-> caller[p].locked,
            attempt |-> caller[p].attempt,
            seen |-> {r \in facts : r.event \in Told(caller[p].fetch.said)}])
  /\ UNCHANGED <<now, issued, batches, facts>>

Locked(p) == IF "locked" \in DOMAIN caller[p] THEN caller[p].locked ELSE {}

\* ... and locks, when nobody else has locked any of it.  Whoever has seen a fact
\* has seen the first of its event: the locks are those of events.
Lock(p) ==
  LET events == {r.event : r \in caller[p].seen} IN
  /\ At(p, "locking")
  /\ \A q \in Caller \ {p} : Locked(q) \cap events = {}
  /\ Go(p, [pc |-> "read", fetch |-> caller[p].fetch, locked |-> caller[p].locked \cup events,
            attempt |-> caller[p].attempt, seen |-> caller[p].seen])
  /\ UNCHANGED <<now, issued, batches, facts>>

\* The number of the next revision of an event, after those seen.
NextRevision(seen, e) ==
  LET revisions == {r.revision : r \in {s \in seen : s.event = e}} IN
  IF revisions = {} THEN 1
  ELSE (CHOOSE n \in revisions : \A m \in revisions : m <= n) + 1

\* _new_fact_revisions: what is told and was not seen, in whatever revision.
\* The fields stored agree with those told, since they go into the hash.
Revisions(fetch, seen) ==
  {[event |-> e, revision |-> NextRevision(seen, e), content |-> fetch.said[e], by |-> fetch] :
     e \in {e \in Told(fetch.said) :
              \A r \in seen : r.event = e => r.content # fetch.said[e]}}

\* Faulty variant: only the contents of an event are unique.
ClashingContent(rows, others) ==
  \E r \in rows, s \in others : r.event = s.event /\ r.content = s.content

\* The unique constraints of the facts.
Clashing(rows, others) ==
  \E r \in rows, s \in others :
    r.event = s.event /\ (r.revision = s.revision \/ r.content = s.content)

Inserted(p) == IF At(p, "inserted") THEN caller[p].rows ELSE {}

\* claim_fetch: an insertion waits for the transactions it clashes with, and
\* is undone when they have committed; the locks stay.  Three attempts.
Insert(p) ==
  LET new == Revisions(caller[p].fetch, caller[p].seen) IN
  /\ At(p, "read")
  /\ \/ /\ Clashing(new, facts)
        /\ Go(p, IF caller[p].attempt < 3
                 THEN [pc |-> "begun", fetch |-> caller[p].fetch,
                       locked |-> caller[p].locked, attempt |-> caller[p].attempt + 1]
                 ELSE Idle)
     \/ /\ ~Clashing(new, facts)
        /\ \A q \in Caller \ {p} : ~Clashing(new, Inserted(q))
        /\ Go(p, [pc |-> "inserted", fetch |-> caller[p].fetch,
                  locked |-> caller[p].locked, rows |-> new])
  /\ UNCHANGED <<now, issued, batches, facts>>

\* The batch and its facts.  A fetch that failed is stored, and the caller told.
Commit(p) ==
  LET fetch == caller[p].fetch IN
  /\ At(p, "inserted")
  /\ batches' = batches \cup {fetch} /\ facts' = facts \cup caller[p].rows
  /\ Go(p, IF fetch.ok THEN [pc |-> "stored", fetch |-> fetch] ELSE Idle)
  /\ UNCHANGED <<now, issued>>

-----------------------------------------------------------------------------
(***************************************************************************)
(* CorporateActionService.get_adjustment_timeline, as of now.              *)
(***************************************************************************)
AsOf(p) ==
  /\ At(p, "stored")
  /\ Go(p, [pc |-> "dated", fetch |-> caller[p].fetch, asOf |-> now])
  /\ UNCHANGED <<now, issued, batches, facts>>

\* list_covering_batches
Covering(range, asOf) ==
  {b \in batches : b.ok /\ range \subseteq b.range /\ b.observed <= asOf /\ b.fetched <= asOf}

Later(b, c) == \/ b.observed > c.observed
               \/ b.observed = c.observed /\ b.fetched > c.fetched

\* _select_covering_batch: the latest; if others are as late, they say the same.
Cover(p) ==
  LET own == caller[p].fetch
      covering == Covering(own.range, caller[p].asOf)
      Latest == {b \in covering : \A c \in covering : ~Later(c, b)}
      Agree(b, c) == b.range = c.range /\ b.said = c.said
  IN
  /\ At(p, "dated")
  /\ \/ /\ \A b, c \in Latest : Agree(b, c)
        /\ \E b \in Latest :
             Go(p, [pc |-> "covered", fetch |-> own, asOf |-> caller[p].asOf, cover |-> b])
     \/ /\ \E b, c \in Latest : ~Agree(b, c)
        /\ Go(p, Idle)
  /\ UNCHANGED <<now, issued, batches, facts>>

\* list_facts: a fact published later than its effective date is not told.
Eligible(range, asOf, cover) ==
  {r \in facts : /\ EffectiveOn[r.content] \in range
                 /\ r.by.observed <= cover.observed /\ r.by.fetched <= asOf}

\* Faulty variant: the first revision is told.
FirstRevisions(rows) ==
  {r \in rows : \A s \in rows : s.event = r.event => s.revision >= r.revision}

\* _select_point_in_time_facts; _merge_effective_dates makes those of one day a single
\* entry, which is left out.
LastRevisions(rows) ==
  {r \in rows : \A s \in rows : s.event = r.event => s.revision <= r.revision}

Select(p) ==
  LET own == caller[p].fetch IN
  /\ At(p, "covered")
  /\ Go(p, [pc |-> "answered", fetch |-> own, asOf |-> caller[p].asOf,
            cover |-> caller[p].cover,
            timeline |-> LastRevisions(Eligible(own.range, caller[p].asOf, caller[p].cover))])
  /\ UNCHANGED <<now, issued, batches, facts>>

Use(p) == At(p, "answered") /\ Go(p, Idle) /\ UNCHANGED <<now, issued, batches, facts>>

\* The process dies, the connection is lost, or PostgreSQL breaks a deadlock.
Fail(p) == ~At(p, "idle") /\ Go(p, Idle) /\ UNCHANGED <<now, issued, batches, facts>>

Tick == now < MaxTime /\ now' = now + 1 /\ UNCHANGED <<issued, batches, facts, caller>>

Next ==
  \/ \E p \in Caller :
       \/ Ask(p) \/ Answer(p) \/ Read(p) \/ Lock(p) \/ Insert(p) \/ Commit(p)
       \/ AsOf(p) \/ Cover(p) \/ Select(p) \/ Use(p) \/ Fail(p)
  \/ Tick

Spec == Init /\ [][Next]_vars

-----------------------------------------------------------------------------
(* Properties. *)

(***************************************************************************)
(* However many collect at once, the revisions of an event are numbered    *)
(* without a gap, no two have the same number or the same content, each    *)
(* is what its batch was told, and all that a stored batch was told is     *)
(* kept: in a revision of its own or in one that says the same.            *)
(***************************************************************************)
FactsSound ==
  /\ \A r \in facts : r.by \in batches /\ r.by.ok /\ r.by.said[r.event] = r.content
  /\ \A r, s \in facts :
       r.event = s.event /\ (r.revision = s.revision \/ r.content = s.content) => r = s
  /\ \A r \in facts : r.revision = 1 \/
       \E s \in facts : s.event = r.event /\ s.revision + 1 = r.revision
  /\ \A b \in batches, e \in Event : b.said[e] # Nothing =>
       \E r \in facts : r.event = e /\ r.content = b.said[e]

(***************************************************************************)
(* The timeline a caller is answered: it stands on a batch of the whole    *)
(* range that is no older than his own fetch; it tells of each event once; *)
(* and of an event his own fetch was told of it tells that, or a later     *)
(* revision - unless what it was told had been stored by a fetch of less   *)
(* than the range, observed later than the batch the timeline stands on.   *)
(***************************************************************************)
TimelineSound(own, answer) ==
  /\ answer.cover \in batches /\ answer.cover.ok /\ own.range \subseteq answer.cover.range
  /\ own.observed <= answer.cover.observed
  /\ answer.timeline \subseteq facts
  /\ \A r, s \in answer.timeline : r.event = s.event => r = s
  /\ \A e \in Told(own.said) : \E r \in facts :
       /\ r.event = e /\ r.content = own.said[e]
       /\ \/ \E s \in answer.timeline : s.event = e /\ r.revision <= s.revision
          \/ /\ r.by.observed > answer.cover.observed
             /\ ~(own.range \subseteq r.by.range)

ActionsSound ==
  FactsSound /\ \A p \in Caller : At(p, "answered") => TimelineSound(caller[p].fetch, caller[p])
=============================================================================
