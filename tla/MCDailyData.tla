----------------------------- MODULE MCDailyData -----------------------------
(***************************************************************************)
(* Small instances of what is stored of prices: the daily bars of a        *)
(* backfill of a frozen universe and of the batches of a day, the adjusted *)
(* prices that are refreshed on them, and an issue raised about their      *)
(* quality.  The model of each has what the others store in the meantime   *)
(* as steps of its own, so a behaviour is one of theirs.                   *)
(***************************************************************************)
EXTENDS HistoryBackfill, TLC

CONSTANTS s1, s2, s3, N, Suspended, Good, Collector, None, MaxRetries, MaxClaims, MaxHistory,
          Date, Bad, Key, MaxRevision, MaxStarts, MaxImports,
          Actor, Reason, Source, MaxReports

VARIABLES
  kind,                \* which of them moves
  batch, stage, bar, job, collector, history, claims,
  revision, dataset, run, handler, gated, ends, told, starts,
  issue, resolved, audit, reported, caller

\* Validation tells bars apart; an import is no refresh run.
ASSUME DailyDataAssumption == Bad \notin Good /\ "import" \notin Key

Daily    == INSTANCE DailyBatch WITH Worker <- Collector, worker <- collector
Adjusted == INSTANCE QfqRefresh WITH Content <- Good, Handler <- Collector
Issues   == INSTANCE QualityIssues WITH Caller <- Collector, Nobody <- None
daily    == <<batch, stage, bar, job, collector, history, claims>>
adjusted == <<revision, dataset, run, handler, gated, ends, told, starts>>
issues   == <<issue, resolved, audit, reported, caller>>

ThreeSymbols == <<s1, s2, s3>>
Symmetry == Permutations(Worker) \cup Permutations(Good)

DailyDataInit ==
  /\ kind \in {"backfill", "batches", "adjusted", "quality"}
  /\ Init /\ Daily!Init /\ Adjusted!QfqInit /\ Issues!Init

DailyDataNext ==
  /\ UNCHANGED kind
  /\ \/ kind = "backfill" /\ Next /\ UNCHANGED <<daily, adjusted, issues>>
     \/ kind = "batches" /\ Daily!Next /\ UNCHANGED <<vars, adjusted, issues>>
     \/ kind = "adjusted" /\ Adjusted!QfqNext /\ UNCHANGED <<vars, daily, issues>>
     \/ kind = "quality" /\ Issues!Next /\ UNCHANGED <<vars, daily, adjusted>>

DailyDataSpec == DailyDataInit /\ [][DailyDataNext]_<<vars, daily, adjusted, issues, kind>>

\* What the end of a batch tells agrees with the bars it has stored, and only
\* bars that passed the validation are stored; what is read as adjusted prices,
\* what the runs tell and what their jobs answer agree; and of a quality issue no
\* report is lost, and it is decided once, as whoever decided it was told
\* (DailyDataService, QfqRefreshService and the handler qfq_refresh,
\* QualityIssueService and QualityIssueApplication).
StoredSound ==
  Daily!BatchTruth /\ Daily!OnlyValidated /\ Adjusted!PricesSound /\ Issues!IssueSound
=============================================================================
