------------------------------ MODULE Watchlists ------------------------------
(***************************************************************************)
(* The lists of securities a user keeps (modules/watchlists).  A request   *)
(* is one transaction: it locks its idempotency key and looks for the      *)
(* audit of the first request with it, locks the security (advisory lock), *)
(* locks the list, checks, writes, and commits.  A batch is a sequence of  *)
(* such transactions, each with a key derived from the batch's and the     *)
(* version the one before has answered.                                    *)
(***************************************************************************)
EXTENDS Integers, Sequences, FiniteSets
CONSTANTS
  User,                \* requests under way at one time
  List, Security,
  Key,                 \* idempotency keys
  Batch,               \* the sequences of securities users add
  First,               \* a security in the lists that exist from the start
  MaxVersion, MaxSends \* bounds: versions of a list, requests
VARIABLES
  list,                \* table watchlist with watchlist_item
  audit,               \* answers kept in the audit log, by key
  eligible,            \* the securities that may be added to a list
  request,             \* the transaction of each user, or its next one
  sends                \* how many requests were sent

watchlistVars == <<list, audit, eligible, request, sends>>

Watchlist == [version : 0 .. MaxVersion, archived : BOOLEAN, items : SUBSET Security]
\* Version 0 is a list that is not there.
NoList == [version |-> 0, archived |-> FALSE, items |-> {}]
Ops == {"create", "update", "archive", "add_item", "remove_item"}
Idle == [at |-> "idle"]

\* A list somebody has created and put a security in, and the two answers.
Filled == [version |-> 2, archived |-> FALSE, items |-> {First}]
Answer(key, hash, op, l, version) ==
  [key |-> key, hash |-> hash, version |-> version, op |-> op, advice |-> FALSE,
   list |-> l, changed |-> TRUE]
Filling(l) == {Answer(<<l, "create", 0>>, <<l, FALSE, l, 0>>, "create", l, 1),
               Answer(<<l, "add_item", 0>>, <<l, TRUE, First, 1>>, "add_item", l, 2)}

WatchlistInit ==
  /\ list \in [List -> {NoList, Filled}]
  /\ audit = UNION {Filling(l) : l \in {m \in List : list[m] = Filled}}
  /\ sends = 0
  /\ eligible = Security
  /\ request = [u \in User |-> Idle]

At(u, places) == request[u].at \in places
\* The key of the audit: that of the request, the operation, the place in a batch.
AuditKey(q) == <<q.key, q.op, q.index>>
\* Locks are held to the end of the transaction.
HoldsKey(u, k) == At(u, {"keyed", "secured", "applied"}) /\ AuditKey(request[u]) = k
HoldsSecurity(u, s) == At(u, {"secured", "applied"}) /\ request[u].todo # <<>>
                       /\ Head(request[u].todo) = s
HoldsList(u, l) == At(u, {"applied"}) /\ request[u].list = l
Free(Holds(_, _), u, x) == \A v \in User \ {u} : ~Holds(v, x)

\* What is hashed of a request.
Hash(q) == <<q.list, q.todo # <<>>, IF q.todo # <<>> THEN Head(q.todo) ELSE q.list, q.expected>>
\* A slip to catch: the key of a repeated request is not found.
AuditedNever(q) == {}

Audited(q) == {a \in audit : a.key = AuditKey(q)}

(* A user sends a request, having seen some version of the list.  Whether a *)
(* security may be added is read in a transaction of its own.               *)
Send(u, op, l, k, todo, expected) ==
  /\ At(u, {"idle"}) /\ sends < MaxSends /\ sends' = sends + 1
  /\ request' = [request EXCEPT ![u] =
       [at |-> "sent", op |-> op, list |-> l, key |-> k, todo |-> todo, index |-> 0,
        expected |-> expected, allowed |-> FALSE, effect |-> NoList, advice |-> FALSE,
        answer |-> 0]]
  /\ UNCHANGED <<list, audit, eligible>>
Create(u, l, k) == list[l] = NoList /\ Send(u, "create", l, k, <<>>, 0)
Update(u, l, k, v) == Send(u, "update", l, k, <<>>, v)
Archive(u, l, k, v) == Send(u, "archive", l, k, <<>>, v)
AddBatch(u, l, k, batch, v) == Send(u, "add_item", l, k, batch, v)
RemoveItem(u, l, k, s, v) == Send(u, "remove_item", l, k, <<s>>, v)

(* The key is locked; who finds its audit with the same request answers as *)
(* then, who finds it with another one refuses.                            *)
Open(u) ==
  LET q == request[u] IN
  /\ At(u, {"sent"}) /\ Free(HoldsKey, u, AuditKey(q)) /\ Audited(q) = {}
  /\ request' = [request EXCEPT ![u].at = "keyed",
                   ![u].allowed = q.todo # <<>> /\ Head(q.todo) \in eligible]
  /\ UNCHANGED <<list, audit, eligible, sends>>

\* The rest of a batch goes on with the version answered, or with the old one.
Rest(q, version) ==
  IF q.op = "add_item" /\ Len(q.todo) > 1
  THEN [q EXCEPT !.at = "sent", !.todo = Tail(q.todo), !.index = q.index + 1,
                 !.expected = version, !.effect = NoList]
  ELSE Idle
Replay(u) ==
  LET q == request[u] IN
  /\ At(u, {"sent"}) /\ Free(HoldsKey, u, AuditKey(q))
  /\ \E a \in Audited(q) :
       request' = [request EXCEPT ![u] =
         Rest(q, IF a.hash = Hash(q) THEN a.version ELSE q.expected)]
  /\ UNCHANGED <<list, audit, eligible, sends>>

\* A slip to catch: only the rows of the lists are locked.
LockSecurityNot(u) ==
  /\ At(u, {"keyed"})
  /\ request' = [request EXCEPT ![u].at = "secured"]
  /\ UNCHANGED <<list, audit, eligible, sends>>

(* Adding and removing serialise by security, for the sake of the advice. *)
LockSecurity(u) ==
  LET q == request[u] IN
  /\ At(u, {"keyed"})
  /\ q.op \in {"add_item", "remove_item"} => Free(HoldsSecurity, u, Head(q.todo))
  /\ request' = [request EXCEPT ![u].at = "secured"]
  /\ UNCHANGED <<list, audit, eligible, sends>>

Active(l) == list[l].version > 0 /\ ~list[l].archived
\* In how many other lists a security still is.
Memberships(s, without) == {l \in List \ {without} : Active(l) /\ s \in list[l].items}
Bumped(row) == [row EXCEPT !.version = @ + 1]

(* Under the lock of the list: the checks and the writes, which others see *)
(* at the commit only.  A security already in the list is reused whatever  *)
(* the version, and the answer is the current version.                     *)
Applied(u, effect, advice) ==
  /\ request' = [request EXCEPT ![u].at = "applied", ![u].effect = effect,
                   ![u].advice = advice, ![u].answer = effect.version]
  /\ UNCHANGED <<list, audit, eligible, sends>>
ApplyCreate(u) == list[request[u].list] = NoList /\ Applied(u, Bumped(NoList), FALSE)
\* Everything else has to find the list in use, all but the reuse at its version.
ApplyUpdate(u, row) == row.version = request[u].expected /\ Applied(u, Bumped(row), FALSE)
ApplyArchive(u, row) ==
  row.version = request[u].expected /\ Applied(u, [Bumped(row) EXCEPT !.archived = TRUE], FALSE)
ApplyAdd(u, row) ==
  LET s == Head(request[u].todo) IN
  /\ request[u].allowed
  /\ \/ s \in row.items /\ Applied(u, row, FALSE)
     \/ /\ s \notin row.items /\ row.version = request[u].expected
        /\ Applied(u, [Bumped(row) EXCEPT !.items = @ \cup {s}], FALSE)
ApplyRemove(u, row) ==
  LET s == Head(request[u].todo) IN
  /\ row.version = request[u].expected
  /\ \/ s \notin row.items /\ Applied(u, row, FALSE)
     \/ /\ s \in row.items
        /\ Applied(u, [Bumped(row) EXCEPT !.items = @ \ {s}],
                   Memberships(s, request[u].list) = {})
Apply(u) ==
  LET q == request[u]  row == list[q.list] IN
  /\ At(u, {"secured"}) /\ Free(HoldsList, u, q.list)
  /\ row.version < MaxVersion
  /\ \/ q.op = "create" /\ ApplyCreate(u)
     \/ /\ Active(q.list)
        /\ \/ q.op = "update" /\ ApplyUpdate(u, row)
           \/ q.op = "archive" /\ ApplyArchive(u, row)
           \/ q.op = "add_item" /\ ApplyAdd(u, row)
           \/ q.op = "remove_item" /\ ApplyRemove(u, row)

(* The list and the audit with the answer are committed together. *)
Commit(u) ==
  LET q == request[u] IN
  /\ At(u, {"applied"})
  /\ list' = [list EXCEPT ![q.list] = q.effect]
  /\ audit' = audit \cup {[Answer(AuditKey(q), Hash(q), q.op, q.list, q.answer) EXCEPT
                             !.advice = q.advice, !.changed = q.effect # list[q.list]]}
  /\ request' = [request EXCEPT ![u] = Rest(q, q.answer)]
  /\ UNCHANGED <<eligible, sends>>

(* A refusal, a lost connection or the end of the process; a batch goes on *)
(* with its next security unless the process has ended.                    *)
Fail(u) ==
  /\ At(u, {"sent", "keyed", "secured", "applied"})
  /\ \/ request' = [request EXCEPT ![u] = Rest(request[u], request[u].expected)]
     \/ request' = [request EXCEPT ![u] = Idle]
  /\ UNCHANGED <<list, audit, eligible, sends>>
(* A security is delisted. *)
Delist(s) ==
  /\ eligible' = eligible \ {s}
  /\ UNCHANGED <<list, audit, request, sends>>

\* What a user has seen: the list as it is or as it was before the last change.
Seen(l) == {list[l].version - 1, list[l].version} \ {-1, 0}
WatchlistNext ==
  \/ \E u \in User :
       \/ \E l \in List, k \in Key :
            \/ Create(u, l, k)
            \/ \E v \in Seen(l) :
                 \/ Update(u, l, k, v) \/ Archive(u, l, k, v)
                 \/ \E batch \in Batch : AddBatch(u, l, k, batch, v)
                 \/ \E s \in Security : RemoveItem(u, l, k, s, v)
       \/ Open(u) \/ Replay(u) \/ LockSecurity(u) \/ Apply(u) \/ Commit(u) \/ Fail(u)
  \/ \E s \in Security : Delist(s)
WatchlistSpec == WatchlistInit /\ [][WatchlistNext]_watchlistVars

WatchlistTypeOK ==
  /\ list \in [List -> Watchlist]
  /\ eligible \subseteq Security
  /\ \A u \in User : At(u, {"idle", "sent", "keyed", "secured", "applied"})

(* The answers in the audit explain the lists: every change has one audit,  *)
(* the one its key stands for, and raised the version by one.               *)
ChangesAudited ==
  \A l \in List :
    list[l].version = Cardinality({a \in audit : a.list = l /\ a.changed})
KeysOnce == \A a, b \in audit : a.key = b.key => a = b
ListsExplained == ChangesAudited /\ KeysOnce

(* The advice to pause the monitoring of a security is given by whoever    *)
(* takes it out of the last list: who is advised leaves it in no list, and *)
(* who is not leaves it in one, even one archived in the meantime.         *)
AdviceTrue ==
  [][\A a \in audit' \ audit :
       LET s == a.hash[3]
           holders == {l \in List : s \in list'[l].items} IN
       a.op = "remove_item" /\ a.changed =>
         /\ a.advice => \A l \in holders : list'[l].archived
         /\ ~a.advice => holders # {}]_watchlistVars
=============================================================================
