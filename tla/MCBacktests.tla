---------------------------- MODULE MCBacktests ----------------------------
(***************************************************************************)
(* The instance TLC explores: the two kinds of backtest tasks, a task of   *)
(* its own and the backtest of a batch of candidates, share no row but the *)
(* queue, and the corporate actions a task needs are collected in          *)
(* transactions of their own, so a behaviour is one of the three.          *)
(***************************************************************************)
EXTENDS Backtests, TLC

CONSTANTS Items, Limit, Runs, MaxChanges, MaxControls, MaxLosses,
          Caller, Event, Content, Nothing, EffectiveOn, Ranges, MaxFetches, MaxTime

VARIABLES
  kind,               \* which of them moves
  plan, entry, queued, run, sim, changes, controls, losses,
  now, fetches, fetched, facts, caller

Candidates == INSTANCE CandidateBacktests
Actions == INSTANCE CorporateActions WITH
             Range <- Ranges, issued <- fetches, batches <- fetched

\* Versions of the data are only compared.
VersionSymmetry == Permutations(Versions)

\* A content is effective on the day of its number.
DayOfContent == [c \in Content |-> c]

cvars == <<plan, entry, queued, run, sim, changes, controls, losses>>
avars == <<now, fetches, fetched, facts, caller>>

AllInit ==
  /\ Init /\ Candidates!CInit /\ Actions!Init
  /\ kind \in {"task", "candidates", "actions"} /\ (kind # "task" => mode = "SINGLE")

AllNext ==
  \/ kind = "task" /\ Next /\ UNCHANGED <<cvars, avars, kind>>
  \/ kind = "candidates" /\ Candidates!CNext /\ UNCHANGED <<vars, avars, kind>>
  \/ kind = "actions" /\ Actions!Next /\ UNCHANGED <<vars, cvars, kind>>

AllSpec == AllInit /\ [][AllNext]_<<vars, cvars, avars, kind>>

\* Items end once and with what their task froze; no corporate action that was
\* told is lost or stored twice, and a timeline tells what was fetched for it
\* (BacktestService, CorporateActionService).
BacktestsSound == ItemsSound /\ Actions!ActionsSound

\* What is shown of a candidate never falls back to the result of older prices.
PricesNeverGoBack == Candidates!PricesNeverGoBack
=============================================================================
