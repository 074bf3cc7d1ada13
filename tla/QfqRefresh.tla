----------------------------- MODULE QfqRefresh -----------------------------
(***************************************************************************)
(* The adjusted prices (qfq) of one security: the refreshes users ask for  *)
(* (modules/qfq and the handler qfq_refresh of bootstrap/jobs.py), the     *)
(* imports of history backfills, and the revisions of the daily bars the   *)
(* refreshes are anchored on.                                              *)
(*                                                                         *)
(* A transaction holds the security's advisory lock, so it is one step; a  *)
(* handler is several, and nothing but its run tells it that it has lost   *)
(* its lease: handlers of one run may overlap.                             *)
(***************************************************************************)
EXTENDS Naturals, Sequences, FiniteSets

CONSTANTS
  Date,            \* the days a window may end on
  Content,         \* checksums, each with its provider and contract version
  Bad,             \* bars that validate_qfq_window refuses
  Key,             \* idempotency keys; a run has one
  Handler,         \* executions of the job's handler that may overlap
  MaxRevision,     \* bound on the versions of a daily bar
  MaxStarts,       \* bound on the starts of handlers
  MaxImports       \* bound on the imports

VARIABLES
  revision,        \* the data version of each day's bar, 0 without one
  dataset,         \* the versions of the adjusted prices
  run,             \* the refresh runs
  handler,         \* the executions
  gated,           \* windows that passed validation, and the bar they then met
  ends,            \* imports, and runs that stored prices or failed, in order
  told,            \* what handlers have answered
  starts

qfqVars == <<revision, dataset, run, handler, gated, ends, told, starts>>

Active == {"PENDING", "FETCHING", "VALIDATING"}
Failed == {"FAILED", "TIMED_OUT", "SUPERSEDED"}
Terminal == Failed \cup {"SUCCEEDED"}

NoRun == [status |-> "none", asOf |-> 0, input |-> 0, activated |-> 0]
Idle == [pc |-> "idle", run |-> "none", window |-> Bad, seen |-> 0, code |-> "none"]

QfqInit ==
  /\ revision = [d \in Date |-> 0] /\ dataset = <<>>
  /\ run = [k \in Key |-> NoRun] /\ handler = [h \in Handler |-> Idle]
  /\ gated = {} /\ ends = <<>> /\ told = {} /\ starts = 0

-----------------------------------------------------------------------------
\* What the daily data stores in the meantime.
Revise(d) ==
  /\ revision[d] < MaxRevision
  /\ revision' = [revision EXCEPT ![d] = @ + 1]
  /\ UNCHANGED <<dataset, run, handler, gated, ends, told, starts>>

\* The bar is read before the transaction that compares the version the user
\* has seen with the current one.
Submit(k, d, input) ==
  /\ run[k] = NoRun
  /\ run' = [run EXCEPT ![k] = [NoRun EXCEPT !.status = "PENDING", !.asOf = d, !.input = input]]
  /\ UNCHANGED <<revision, dataset, handler, gated, ends, told, starts>>

\* The versions readers find: get_data, get_window, current_dataset_snapshots.
Current == {v \in DOMAIN dataset : dataset[v].lifecycle = "CURRENT"}

\* Faulty variant: prices that are brought again stay stale.
StoredStale(asOf, content) ==
  IF dataset # <<>> /\ dataset[Len(dataset)].asOf = asOf /\ dataset[Len(dataset)].content = content
  THEN dataset
  ELSE Append([v \in DOMAIN dataset |-> [dataset[v] EXCEPT !.lifecycle = "SUPERSEDED"]],
              [asOf |-> asOf, content |-> content, lifecycle |-> "CURRENT", fresh |-> TRUE])

\* The same content, days included, only freshens what is current; other
\* content becomes the next version, current in place of the one before.
Stored(asOf, content) ==
  IF dataset # <<>> /\ dataset[Len(dataset)].asOf = asOf /\ dataset[Len(dataset)].content = content
  THEN [dataset EXCEPT ![Len(dataset)].fresh = TRUE]
  ELSE Append([v \in DOMAIN dataset |-> [dataset[v] EXCEPT !.lifecycle = "SUPERSEDED"]],
              [asOf |-> asOf, content |-> content, lifecycle |-> "CURRENT", fresh |-> TRUE])

Ends(by, version) == ends' = Append(ends, [by |-> by, version |-> version])

\* import_history: the backfill has stored the bars it anchors on.
Import(d, x) ==
  /\ revision[d] > 0
  /\ Cardinality({n \in DOMAIN ends : ends[n].by = "import"}) < MaxImports
  /\ dataset' = Stored(d, x)
  /\ Ends("import", Len(dataset'))
  /\ UNCHANGED <<revision, run, handler, gated, told, starts>>

-----------------------------------------------------------------------------
(* The handler.                                                             *)

\* _advance_run: a run that is at the target, beyond it or at its end stays.
Advanced(k, expected, target) ==
  IF run[k].status = expected THEN [run EXCEPT ![k].status = target] ELSE run

Answer(k, good) == told' = told \cup {[run |-> k, good |-> good]}
Stop(h) == handler' = [handler EXCEPT ![h] = Idle]

Begin(h, k) ==
  /\ handler[h].pc = "idle" /\ starts < MaxStarts /\ run[k].status \in Active
  /\ run' = Advanced(k, "PENDING", "FETCHING")
  /\ handler' = [handler EXCEPT ![h] = [Idle EXCEPT !.pc = "fetch", !.run = k]]
  /\ starts' = starts + 1
  /\ UNCHANGED <<revision, dataset, gated, ends, told>>

\* The run has ended: the handler answers what the run tells.
Replay(h, k) ==
  /\ handler[h].pc = "idle" /\ run[k].status \in Terminal
  /\ Answer(k, run[k].status = "SUCCEEDED")
  /\ UNCHANGED <<revision, dataset, run, handler, gated, ends, starts>>

Fetch(h, x) ==
  /\ handler[h].pc = "fetch"
  /\ handler' = [handler EXCEPT ![h].pc = "validate", ![h].window = x]
  /\ UNCHANGED <<revision, dataset, run, gated, ends, told, starts>>

FetchFails(h, code) ==
  /\ handler[h].pc = "fetch"
  /\ handler' = [handler EXCEPT ![h].pc = "fail", ![h].code = code]
  /\ UNCHANGED <<revision, dataset, run, gated, ends, told, starts>>

Validate(h) ==
  /\ handler[h].pc = "validate"
  /\ run' = Advanced(handler[h].run, "FETCHING", "VALIDATING")
  /\ handler' = IF handler[h].window = Bad
                THEN [handler EXCEPT ![h].pc = "fail", ![h].code = "FAILED"]
                ELSE [handler EXCEPT ![h].pc = "gate"]
  /\ UNCHANGED <<revision, dataset, gated, ends, told, starts>>

\* snapshot: the bar is read in a transaction of its own.  A bar of the frozen
\* version has the frozen close, and a stored bar stays.
Gate(h) ==
  LET k == handler[h].run IN
  /\ handler[h].pc = "gate"
  /\ handler' = [handler EXCEPT ![h].pc = "activate", ![h].seen = revision[run[k].asOf]]
  /\ gated' = gated \cup {[run |-> k, window |-> handler[h].window, seen |-> revision[run[k].asOf]]}
  /\ UNCHANGED <<revision, dataset, run, ends, told, starts>>

\* activate, on a run that still waits for it.
Activate(h) ==
  LET k == handler[h].run IN
  /\ handler[h].pc = "activate" /\ run[k].status = "VALIDATING"
  /\ handler[h].seen = run[k].input
  /\ dataset' = Stored(run[k].asOf, handler[h].window)
  /\ run' = [run EXCEPT ![k].status = "SUCCEEDED", ![k].activated = Len(dataset')]
  /\ Ends(k, Len(dataset')) /\ Answer(k, TRUE) /\ Stop(h)
  /\ UNCHANGED <<revision, gated, starts>>

\* activate, after the bar was revised.
Supersede(h) ==
  LET k == handler[h].run IN
  /\ handler[h].pc = "activate" /\ run[k].status = "VALIDATING"
  /\ handler[h].seen # run[k].input
  /\ run' = [run EXCEPT ![k].status = "SUPERSEDED"]
  /\ Answer(k, FALSE) /\ Stop(h)
  /\ UNCHANGED <<revision, dataset, gated, ends, starts>>

\* activate, or fail, when another handler has ended the run: each answers only
\* if the run ended its way, and raises a conflict otherwise.
Late(h) ==
  LET k == handler[h].run IN
  /\ \/ handler[h].pc = "activate" /\ run[k].status # "VALIDATING"
     \/ handler[h].pc = "fail" /\ run[k].status \in Terminal
  /\ \/ /\ handler[h].pc = "activate" /\ run[k].status = "SUCCEEDED"
        /\ Answer(k, TRUE)
     \/ /\ handler[h].pc = "fail" /\ run[k].status \in Failed
        /\ Answer(k, FALSE)
     \/ /\ (handler[h].pc = "activate") # (run[k].status = "SUCCEEDED")
        /\ UNCHANGED told
  /\ Stop(h)
  /\ UNCHANGED <<revision, dataset, run, gated, ends, starts>>

\* fail: what is current stays, and is stale.
Fail(h) ==
  LET k == handler[h].run IN
  /\ handler[h].pc = "fail" /\ run[k].status \in Active
  /\ run' = [run EXCEPT ![k].status = handler[h].code]
  /\ dataset' = [v \in DOMAIN dataset |->
                   IF v \in Current THEN [dataset[v] EXCEPT !.fresh = FALSE] ELSE dataset[v]]
  /\ Ends(k, 0) /\ Answer(k, FALSE) /\ Stop(h)
  /\ UNCHANGED <<revision, gated, starts>>

\* The process dies, or a transaction fails.
Crash(h) ==
  /\ handler[h].pc # "idle"
  /\ Stop(h)
  /\ UNCHANGED <<revision, dataset, run, gated, ends, told, starts>>

QfqNext ==
  \/ \E d \in Date : Revise(d)
  \/ \E k \in Key, d \in Date : \E input \in 1 .. revision[d] : Submit(k, d, input)
  \/ \E d \in Date, x \in Content : Import(d, x)
  \/ \E h \in Handler, k \in Key : Begin(h, k) \/ Replay(h, k)
  \/ \E h \in Handler, x \in Content \cup {Bad} : Fetch(h, x)
  \/ \E h \in Handler, code \in {"FAILED", "TIMED_OUT"} : FetchFails(h, code)
  \/ \E h \in Handler : \/ Validate(h) \/ Gate(h) \/ Activate(h) \/ Supersede(h)
                        \/ Late(h) \/ Fail(h) \/ Crash(h)

QfqSpec == QfqInit /\ [][QfqNext]_qfqVars

-----------------------------------------------------------------------------
\* Readers find the last prices stored, and their freshness tells whether an
\* attempt has failed since.
CurrentTrue ==
  /\ \A v \in DOMAIN dataset : v \in Current <=> v = Len(dataset)
  /\ dataset # <<>> => (dataset[Len(dataset)].fresh <=> ends[Len(ends)].version > 0)
  /\ \A v \in DOMAIN dataset : \E n \in DOMAIN ends : ends[n].version = v

\* A run ends once, and one that succeeded names prices that passed its
\* validation before the bar it was made for was seen again.
RunsTrue ==
  \A k \in Key :
    /\ \A m, n \in DOMAIN ends : ends[m].by = k /\ ends[n].by = k => m = n
    /\ \A n \in DOMAIN ends : ends[n].by = k =>
         /\ run[k].status \in {"SUCCEEDED", "FAILED", "TIMED_OUT"}
         /\ ends[n].version = run[k].activated
    /\ run[k].status = "SUCCEEDED" =>
         /\ run[k].activated \in DOMAIN dataset
         /\ dataset[run[k].activated].asOf = run[k].asOf
         /\ [run |-> k, window |-> dataset[run[k].activated].content, seen |-> run[k].input] \in gated
    /\ run[k].status # "SUCCEEDED" => run[k].activated = 0

\* Whatever handlers of a run overlap, their answers are how the run ended.
AnswersTrue ==
  \A a \in told : run[a.run].status \in IF a.good THEN {"SUCCEEDED"} ELSE Failed

\* What is read as adjusted prices, what a run tells and what its job answers
\* agree (QfqRefreshService, and the handler qfq_refresh).
PricesSound == CurrentTrue /\ RunsTrue /\ AnswersTrue
=============================================================================
