---------------------------- MODULE QualityIssues ---------------------------
(***************************************************************************)
(* A data quality issue (backend/src/long_invest/modules/market_data):     *)
(* whoever stores prices reports it, under one dedupe key, as a step of a  *)
(* transaction of his own (QualityIssueService.open), and administrators   *)
(* decide it (QualityIssueApplication), each under an idempotency key      *)
(* which the audit log remembers.                                          *)
(*                                                                         *)
(* Each statement is an action.  The row is locked, or its insertion waited*)
(* for, until the transaction of its holder ends.                          *)
(***************************************************************************)
EXTENDS Naturals

CONSTANTS
  Caller,
  Actor,              \* administrators
  Reason,             \* what they give as reason
  Source,             \* whose data may be selected
  Nobody,             \* no actor, no reason, no source
  Key,                \* idempotency keys
  MaxReports

VARIABLES
  issue,              \* the row of data_quality_issue
  resolved,           \* the events data_quality_issue.resolved
  audit,              \* the audit log
  reported,           \* history: the reports committed before the issue was decided
  caller              \* where each caller is, and what he is about to commit

vars == <<issue, resolved, audit, reported, caller>>

Severity == 0 .. 3    \* SEVERITY_RANK

Absent == [status |-> "NONE", severity |-> 0, count |-> 0, sources |-> {},
           actor |-> Nobody, reason |-> Nobody, selected |-> Nobody]

Idle == [pc |-> "idle"]

Init ==
  /\ issue = Absent /\ resolved = {} /\ audit = {} /\ reported = [count |-> 0, worst |-> 0]
  /\ caller = [p \in Caller |-> Idle]

At(p, pc) == caller[p].pc = pc
Go(p, step) == caller' = [caller EXCEPT ![p] = step]

Terminal(row) == row.status \in {"RESOLVED", "INVALIDATED"}

\* Nobody else holds the row, or is about to insert it.
Free(p) == \A q \in Caller \ {p} : caller[q].pc \notin {"reporting", "deciding"}

Worse(a, b) == IF a > b THEN a ELSE b

-----------------------------------------------------------------------------
(***************************************************************************)
(* QualityIssueService.open                                                *)
(***************************************************************************)
\* find_by_dedupe_key
Report(p) ==
  /\ At(p, "idle") /\ reported.count < MaxReports
  /\ Go(p, [pc |-> IF issue = Absent THEN "missing" ELSE "found"])
  /\ UNCHANGED <<issue, resolved, audit, reported>>

\* What is about to be stored of a report, whose severity and evidence may be any.
Reporting(p, row, status) ==
  \E severity \in Severity, sources \in SUBSET Source :
    Go(p, [pc |-> "reporting", severity |-> severity,
           row |-> [row EXCEPT !.status = status, !.severity = Worse(@, severity),
                               !.count = @ + 1, !.sources = sources]])

\* claim_issue: an insertion that another has preceded becomes an update.
Claim(p) ==
  /\ At(p, "missing")
  /\ \/ issue # Absent /\ Go(p, [pc |-> "found"])
     \/ /\ issue = Absent /\ Free(p)
        /\ \E status \in {"OPEN", "REVIEW_REQUIRED"} : Reporting(p, Absent, status)
  /\ UNCHANGED <<issue, resolved, audit, reported>>

\* get_for_update, and what was found is read again; a decided issue stays.
Amend(p) ==
  /\ At(p, "found") /\ Free(p)
  /\ IF Terminal(issue) THEN Go(p, Idle) ELSE Reporting(p, issue, issue.status)
  /\ UNCHANGED <<issue, resolved, audit, reported>>

\* The transaction the report is a step of commits.
Commit(p) ==
  /\ At(p, "reporting")
  /\ issue' = caller[p].row
  /\ reported' = [count |-> reported.count + 1,
                  worst |-> Worse(reported.worst, caller[p].severity)]
  /\ Go(p, Idle)
  /\ UNCHANGED <<resolved, audit>>

-----------------------------------------------------------------------------
(***************************************************************************)
(* QualityIssueApplication: select_source, invalidate, request_refetch.    *)
(***************************************************************************)
\* What may be asked.  Only who selects a source names one.
Command ==
  [key: Key, actor: Actor, reason: Reason, action: {"SELECT_SOURCE"}, selected: Source]
    \cup [key: Key, actor: Actor, reason: Reason, action: {"INVALIDATE", "REFETCH"},
          selected: {Nobody}]

Used(key) == \E a \in audit : a.key = key

\* _validate_replay: whoever asks, it is the same request.
Replays(a, c) == a.key = c.key /\ a.action = c.action /\ a.reason = c.reason
                   /\ a.selected = c.selected

\* find_by_idempotency: a command that was carried out is answered again, if it
\* is the same; a new one goes on.
Ask(p) ==
  /\ At(p, "idle") /\ issue # Absent
  /\ \E c \in Command :
       \/ ~Used(c.key) /\ Go(p, [pc |-> "asking", command |-> c])
       \/ (\E a \in audit : Replays(a, c)) /\ Go(p, [pc |-> "answered", command |-> c])
  /\ UNCHANGED <<issue, resolved, audit, reported>>

ActionOf(row) == IF row.status = "RESOLVED" THEN "SELECT_SOURCE" ELSE "INVALIDATE"

\* Faulty variant: the source selected is not compared.
SameDecision(row, c) ==
  ActionOf(row) = c.action /\ row.actor = c.actor /\ row.reason = c.reason

\* _same_resolution
SameResolution(row, c) ==
  /\ ActionOf(row) = c.action /\ row.actor = c.actor /\ row.reason = c.reason
  /\ row.selected = c.selected

\* The row is locked, and the command refused, repeated or carried out (resolve,
\* request_refetch).
Decide(p) ==
  LET c == caller[p].command
      Deciding(row, first) ==
        Go(p, [pc |-> "deciding", command |-> c, row |-> row, first |-> first])
  IN
  /\ At(p, "asking") /\ Free(p)
  /\ \/ Terminal(issue) /\ SameResolution(issue, c) /\ Deciding(issue, FALSE)
     \/ Terminal(issue) /\ ~SameResolution(issue, c) /\ Go(p, Idle)
     \/ ~Terminal(issue) /\ c.action = "REFETCH" /\ Deciding(issue, FALSE)
     \/ /\ ~Terminal(issue) /\ c.action = "SELECT_SOURCE" /\ c.selected \notin issue.sources
        /\ Go(p, Idle)
     \/ /\ ~Terminal(issue)
        /\ \/ c.action = "INVALIDATE"
           \/ c.action = "SELECT_SOURCE" /\ c.selected \in issue.sources
        /\ Deciding([issue EXCEPT
             !.status = IF c.action = "INVALIDATE" THEN "INVALIDATED" ELSE "RESOLVED",
             !.actor = c.actor, !.reason = c.reason, !.selected = c.selected], TRUE)
  /\ UNCHANGED <<issue, resolved, audit, reported>>

\* The audit log takes a key once; if it does, row, event and log are committed.
Confirm(p) ==
  LET c == caller[p].command
      row == caller[p].row
  IN
  /\ At(p, "deciding")
  /\ \/ Used(c.key) /\ Go(p, Idle) /\ UNCHANGED <<issue, resolved, audit>>
     \/ /\ ~Used(c.key)
        /\ issue' = row /\ audit' = audit \cup {c}
        /\ resolved' = IF caller[p].first THEN resolved \cup {row} ELSE resolved
        /\ Go(p, [pc |-> "answered", command |-> c])
  /\ UNCHANGED reported

Leave(p) == At(p, "answered") /\ Go(p, Idle) /\ UNCHANGED <<issue, resolved, audit, reported>>

\* The process dies, or the rest of the transaction fails.
Fail(p) == ~At(p, "idle") /\ Go(p, Idle) /\ UNCHANGED <<issue, resolved, audit, reported>>

Next == \E p \in Caller :
  \/ Report(p) \/ Claim(p) \/ Amend(p) \/ Commit(p)
  \/ Ask(p) \/ Decide(p) \/ Confirm(p) \/ Leave(p) \/ Fail(p)

Spec == Init /\ [][Next]_vars

-----------------------------------------------------------------------------
(* Properties. *)

\* The issue is decided as the command asks.
Settled(c) ==
  /\ issue.status = (IF c.action = "INVALIDATE" THEN "INVALIDATED" ELSE "RESOLVED")
  /\ issue.actor = c.actor /\ issue.reason = c.reason /\ issue.selected = c.selected

(***************************************************************************)
(* Reports that come at once are all counted, and the severity is that of  *)
(* the worst; an issue is decided once, what was decided is told once and  *)
(* stays, whatever is reported and asked later; the source selected is one *)
(* the evidence still has; and an administrator who is told that it was    *)
(* done as he asked, now or when a request is repeated, is told the truth. *)
(***************************************************************************)
IssueSound ==
  /\ issue.count = reported.count /\ issue.severity = reported.worst
  /\ resolved = IF Terminal(issue) THEN {issue} ELSE {}
  /\ issue.status = "RESOLVED" => issue.selected \in issue.sources
  /\ \A c \in audit : c.action # "REFETCH" => Settled(c)
  /\ \A c, d \in audit : c.key = d.key => c = d
  /\ \A p \in Caller : At(p, "answered") => \E a \in audit : Replays(a, caller[p].command)
=============================================================================
