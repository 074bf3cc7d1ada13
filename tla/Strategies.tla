----------------------------- MODULE Strategies -----------------------------
(***************************************************************************)
(* The life of one user strategy, from draft to published version:         *)
(* backend/src/long_invest/modules/strategies/ (service.py, repository.py, *)
(* application.py, jobs.py, git_store.py), the executor and the verifier   *)
(* of its validation (bootstrap/strategy_validation.py).                   *)
(*                                                                         *)
(* A transaction locks the strategy's row and is one action.  The job of a *)
(* validation reads the draft, runs, and records later.  The job that      *)
(* publishes takes three transactions with the Git repository between      *)
(* them; executions of it overlap when a lease was lost, and it is handed  *)
(* out again after a crash or on an operator's request.                    *)
(***************************************************************************)
EXTENDS Naturals, Sequences, FiniteSets

CONSTANTS
  Content,            \* what a draft can hold: source, metadata, schema
  Publisher,          \* the workers that may run a job that publishes
  MaxSaves,           \* bounds on changes of the draft, validations,
  MaxValidations,     \*   requests to publish, and faults: a crash, a job
  MaxRequests,        \*   handed out again, a database that does not answer
  MaxFaults

VARIABLES
  strategy,           \* status of the strategy
  draft,              \* [version, content]
  tested,             \* the drafts whose single-stock backtest succeeded
  validation,         \* validation runs: [draft, backtest, status, bound]
  passed,             \* validations whose execution found no fault so far
  version,            \* versions: [content, validation, status, run]; run is
                      \*   the status of the version's one publish run
  failedBefore,       \* versions whose run has recorded a failure
  publisher,          \* [pc, version] of each worker
  due,                \* executions of each version's job still to start
  git,                \* per version: commits made, files written
  requests, faults

rows == <<strategy, draft, tested, validation, passed>>
jobs == <<publisher, due, git, requests, faults>>
strategyVars == <<rows, version, failedBefore, jobs>>

\* A version takes the next number, and each binds a validation of its own.
Version == 1 .. MaxValidations
Public == {"PUBLISHED", "ARCHIVED"}
IdlePublisher == [pc |-> "idle", version |-> 0]

StrategyInit ==
  /\ strategy = "DRAFT"
  /\ \E c \in Content : draft = [version |-> 1, content |-> c]
  /\ tested = {} /\ passed = {} /\ failedBefore = {}
  /\ validation = <<>> /\ version = <<>>
  /\ publisher = [w \in Publisher |-> IdlePublisher]
  /\ due = [n \in Version |-> 0]
  /\ git = [n \in Version |-> [commits |-> 0, files |-> FALSE]]
  /\ requests = 0 /\ faults = 0

(***************************************************************************)
(* The draft.                                                              *)
(***************************************************************************)
Editable == strategy # "ARCHIVED"

\* Evidence of the old draft no longer counts; a release under way goes on.
AfterEdit ==
  IF strategy \in {"VALIDATING", "VALIDATED", "PUBLISH_FAILED"}
  THEN "DRAFT" ELSE strategy

SaveDraft(content) ==
  /\ Editable
  /\ draft.version <= MaxSaves
  /\ draft' = [version |-> draft.version + 1, content |-> content]
  /\ strategy' = AfterEdit
  /\ UNCHANGED <<tested, validation, passed, version, failedBefore, jobs>>

\* A name belongs to the draft's version, not to its content.
Rename == SaveDraft(draft.content)

\* The backtest of the draft as it is now succeeds.
TestStock ==
  /\ tested' = tested \cup {draft}
  /\ UNCHANGED <<strategy, draft, validation, passed, version, failedBefore, jobs>>

(***************************************************************************)
(* Validation.                                                             *)
(***************************************************************************)
RequestValidation(backtest) ==
  /\ Editable
  /\ strategy # "PUBLISHING"
  /\ Len(validation) < MaxValidations
  /\ validation' = Append(validation,
       [draft |-> draft, backtest |-> backtest, status |-> "PENDING", bound |-> 0])
  /\ strategy' = "VALIDATING"
  /\ UNCHANGED <<draft, tested, passed, version, failedBefore, jobs>>

\* Faulty variant: the draft is compared with the run, not with the backtest.
FactsOfDraft(run) == run.draft = draft

\* What the backtest ran on is what is being validated, and still the draft.
Facts(run) == run.draft = draft /\ run.backtest = run.draft

Execute(k) ==
  /\ validation[k].status = "PENDING"
  /\ Facts(validation[k])
  /\ passed' = passed \cup {k}
  /\ UNCHANGED <<strategy, draft, tested, validation, version, failedBefore, jobs>>

\* Only an execution that found no fault records a success; any may fail.
RecordValidation(k, succeeded) ==
  /\ validation[k].status = "PENDING"
  /\ succeeded => k \in passed
  /\ validation' = [validation EXCEPT ![k].status =
       IF succeeded THEN "SUCCEEDED" ELSE "FAILED"]
  /\ strategy' = IF validation[k].draft # draft THEN strategy
                 ELSE IF succeeded THEN "VALIDATED" ELSE "DRAFT"
  /\ UNCHANGED <<draft, tested, passed, version, failedBefore, jobs>>

(***************************************************************************)
(* The request to publish.                                                 *)
(***************************************************************************)
MayPublish(k) ==
  /\ requests < MaxRequests
  /\ strategy \in {"VALIDATED", "PUBLISH_FAILED", "PUBLISHING"}
  /\ validation[k].status = "SUCCEEDED"
  /\ validation[k].draft = draft

Submit(n) ==
  /\ strategy' = "PUBLISHING"
  /\ due' = [due EXCEPT ![n] = @ + 1]
  /\ requests' = requests + 1
  /\ UNCHANGED <<draft, tested, passed, failedBefore, publisher, git, faults>>

NewVersion(k) ==
  /\ MayPublish(k)
  /\ validation[k].bound = 0
  /\ strategy # "PUBLISHING"
  /\ version' = Append(version, [content |-> draft.content, validation |-> k,
                                 status |-> "PUBLISHING", run |-> "PENDING"])
  /\ validation' = [validation EXCEPT ![k].bound = Len(version')]
  /\ Submit(Len(version'))

\* The version that failed is published again under a new request.
RetryVersion(k) ==
  LET n == validation[k].bound IN
  /\ MayPublish(k)
  /\ n # 0
  /\ version[n].status = "PUBLISH_FAILED"
  /\ version' = [version EXCEPT ![n].status = "PUBLISHING", ![n].run = "PENDING"]
  /\ Submit(n)
  /\ UNCHANGED validation

(***************************************************************************)
(* The job that publishes.                                                 *)
(***************************************************************************)
Go(w, pc) == publisher' = [publisher EXCEPT ![w].pc = pc]
Quit(w) == publisher' = [publisher EXCEPT ![w] = IdlePublisher]

\* Neither the run's nor the strategy's own state says that it is another
\* version's turn.
Claim(w, n) ==
  /\ publisher[w].pc = "idle"
  /\ due[n] > 0
  /\ due' = [due EXCEPT ![n] = @ - 1]
  /\ IF /\ version[n].status \in {"PUBLISHING", "PUBLISH_FAILED"}
        /\ version[n].run \in {"PENDING", "RUNNING", "FAILED"}
     THEN /\ publisher' = [publisher EXCEPT ![w] = [pc |-> "git", version |-> n]]
          /\ strategy' = IF version[n].status = "PUBLISH_FAILED"
                         THEN "PUBLISHING" ELSE strategy
          /\ version' = [version EXCEPT ![n].status = "PUBLISHING", ![n].run = "RUNNING"]
     ELSE UNCHANGED <<publisher, strategy, version>>
  /\ UNCHANGED <<draft, tested, validation, passed, failedBefore, git, requests, faults>>

\* Faulty variant: the commit of an earlier execution is not looked for.
MatchingCommitNever(n) == FALSE

\* The latest commit of the version's files already holds this content.
MatchingCommit(n) == git[n].commits > 0

\* Under the repository's lock; it may fail before or after writing files.
GitPublish(w) ==
  LET n == publisher[w].version IN
  /\ publisher[w].pc = "git"
  /\ \/ /\ git' = [git EXCEPT ![n] = [files |-> TRUE,
                     commits |-> IF MatchingCommit(n) THEN @.commits ELSE @.commits + 1]]
        /\ \E pc \in {"complete", "GIT_FAILED"} : Go(w, pc)
     \/ /\ \E written \in BOOLEAN : git' = [git EXCEPT ![n].files = @ \/ written]
        /\ Go(w, "GIT_FAILED")
  /\ UNCHANGED <<rows, version, failedBefore, due, requests, faults>>

\* What the transaction that completes asks of the rows.
MayComplete(n) ==
  /\ version[n].run = "RUNNING"
  /\ version[n].status = "PUBLISHING"
  /\ strategy = "PUBLISHING"

Complete(w) ==
  LET n == publisher[w].version IN
  /\ publisher[w].pc = "complete"
  /\ \/ /\ MayComplete(n)
        /\ version' = [version EXCEPT ![n].status = "PUBLISHED", ![n].run = "SUCCEEDED"]
        /\ strategy' = "PUBLISHED"
        /\ Quit(w)
     \/ /\ version[n].run = "SUCCEEDED"
        /\ IF version[n].status = "PUBLISHED" THEN Quit(w) ELSE Go(w, "DATABASE_FAILED")
        /\ UNCHANGED <<version, strategy>>
     \/ /\ Go(w, "DATABASE_FAILED")         \* refused, or the database failed
        /\ UNCHANGED <<version, strategy>>
  /\ UNCHANGED <<draft, tested, validation, passed, failedBefore, due, git, requests, faults>>

\* Faulty variant: a published version is failed like any other.
MayFailAlways(n) == n \notin failedBefore

\* A failure is recorded once per run: the audit key of a second one is taken.
MayFail(n) ==
  /\ version[n].status \in {"PUBLISHING", "PUBLISH_FAILED"}
  /\ version[n].run # "FAILED"
  /\ n \notin failedBefore

Fail(w) ==
  LET n == publisher[w].version IN
  /\ publisher[w].pc \in {"GIT_FAILED", "DATABASE_FAILED"}
  /\ IF MayFail(n)
     THEN /\ version' = [version EXCEPT ![n].status = "PUBLISH_FAILED", ![n].run = "FAILED"]
          /\ strategy' = "PUBLISH_FAILED"
          /\ failedBefore' = failedBefore \cup {n}
     ELSE UNCHANGED <<version, strategy, failedBefore>>
  /\ Quit(w)
  /\ UNCHANGED <<draft, tested, validation, passed, due, git, requests, faults>>

\* The lease ran out, or an operator retries the job that failed.
Redeliver(n) ==
  /\ faults < MaxFaults
  /\ faults' = faults + 1
  /\ due' = [due EXCEPT ![n] = @ + 1]
  /\ UNCHANGED <<rows, version, failedBefore, publisher, git, requests>>

\* The failure itself could not be recorded: the job ends, uncertain.
Outage(w) ==
  /\ publisher[w].pc \in {"GIT_FAILED", "DATABASE_FAILED"}
  /\ faults < MaxFaults
  /\ faults' = faults + 1
  /\ Quit(w)
  /\ UNCHANGED <<rows, version, failedBefore, due, git, requests>>

Crash(w) ==
  /\ publisher[w].pc # "idle"
  /\ faults < MaxFaults
  /\ faults' = faults + 1
  /\ due' = [due EXCEPT ![publisher[w].version] = @ + 1]
  /\ Quit(w)
  /\ UNCHANGED <<rows, version, failedBefore, git, requests>>

(***************************************************************************)
(* Archiving, which acts on the latest version that was published.         *)
(***************************************************************************)
Latest(n) ==
  /\ version[n].status \in Public
  /\ \A later \in n + 1 .. Len(version) : version[later].status \notin Public

Move(from, to) ==
  /\ strategy = from
  /\ \E n \in DOMAIN version :
       /\ Latest(n)
       /\ version[n].status = from
       /\ version' = [version EXCEPT ![n].status = to]
  /\ strategy' = to
  /\ UNCHANGED <<draft, tested, validation, passed, failedBefore, jobs>>

Archive == Move("PUBLISHED", "ARCHIVED")
Restore == Move("ARCHIVED", "PUBLISHED")

StrategyNext ==
  \/ \E content \in Content : SaveDraft(content)
  \/ Rename
  \/ TestStock
  \/ \E backtest \in tested : RequestValidation(backtest)
  \/ \E k \in DOMAIN validation :
       \/ Execute(k)
       \/ \E succeeded \in BOOLEAN : RecordValidation(k, succeeded)
       \/ NewVersion(k)
       \/ RetryVersion(k)
  \/ \E w \in Publisher :
       \/ \E n \in DOMAIN version : Claim(w, n)
       \/ GitPublish(w)
       \/ Complete(w)
       \/ Fail(w)
       \/ Outage(w)
       \/ Crash(w)
  \/ \E n \in DOMAIN version : Redeliver(n)
  \/ Archive
  \/ Restore

StrategySpec == StrategyInit /\ [][StrategyNext]_strategyVars

(***************************************************************************)
(* Properties.                                                             *)
(***************************************************************************)

\* A version that users can bind holds exactly what a successful validation
\* and a single-stock backtest ran on, however the draft was edited between
\* the request, the execution and the publication.
PublishedIsTested ==
  \A n \in DOMAIN version : version[n].status \in Public =>
    LET run == validation[version[n].validation] IN
    /\ run.status = "SUCCEEDED" /\ run.bound = n
    /\ run.draft.content = version[n].content
    /\ \E b \in tested : b = run.backtest /\ b.content = version[n].content
    /\ git[n].commits > 0

\* No late execution of the job, failing or succeeding, takes back what was
\* published, and the run tells the same story as its version.
PublishedForGood ==
  [][\A n \in DOMAIN version : version[n].status \in Public =>
       /\ version'[n].status \in Public
       /\ version'[n].run = "SUCCEEDED"]_strategyVars

\* However often the job is handed out, the repository holds one commit of a
\* version, and a failed run has a failed version to publish again.
CommittedOnce ==
  \A n \in DOMAIN version :
    /\ git[n].commits <= 1
    /\ version[n].run = "FAILED" <=> version[n].status = "PUBLISH_FAILED"

\* "The publication failed, ... it can safely be retried": when no job is
\* left to end a publication, the strategy is not left publishing.
PublishSettles ==
  strategy = "PUBLISHING" =>
    \/ \E w \in Publisher : publisher[w].pc # "idle"
    \/ \E n \in Version : due[n] > 0

\* An archived strategy only leaves the archive by being restored.
ArchivedStays ==
  [][strategy = "ARCHIVED" /\ strategy' # "ARCHIVED" => Restore]_strategyVars

\* A version users can bind is the one that was tested, committed once, and its
\* run tells the same story.
PublicationSound == PublishedIsTested /\ CommittedOnce
=============================================================================
