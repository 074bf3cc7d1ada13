-------------------------- MODULE MCAdministration --------------------------
(***************************************************************************)
(* Small instances of what users administer: their strategies, the         *)
(* screenings with a published version of one, their own accounts, the     *)
(* trading calendar, their watchlists, and the master data of the          *)
(* securities.  What one of them sees of another is a fact another         *)
(* transaction has committed (a published version, an eligible security),  *)
(* never a row both write, so a behaviour is one of theirs.                *)
(***************************************************************************)
EXTENDS Accounts, TLC

CONSTANTS Content, Publisher, MaxSaves, MaxValidations, MaxRequests, MaxFaults,
          Result, Concurrency, Runs, MaxCommands, MaxLeaseLosses,
          CalendarKey, LastDate, Needed, MaxVersions,
          First, Second, MaxVersion, MaxSends,
          Holder, MaxObserved, MaxLosses

VARIABLES
  kind,                \* which of the six moves
  strategy, draft, tested, validation, passed, version, failedBefore, publisher,
  due, git, requests, faults,
  batch, result, job, run, work, published, retries, commands, leaseLosses,
  calendar, pointer, today, request,
  list, audit, eligible, change, sends,
  security, master, revisions, refresh, reader, universes, observed, losses

\* The calendar has at least one date; what bounds the model is a number.
ASSUME AdministrationAssumption == LastDate \in Nat /\ MaxValidations \in Nat

Day(open, status) ==
  [open |-> open, status |-> status, sessions |-> IF open THEN "proper" ELSE "none"]
MCImported ==
  {[d \in 0 .. LastDate |-> Day(TRUE, IF d = LastDate THEN last ELSE "CONFIRMED")]
     : last \in {"PROVISIONAL", "CONFIRMED"}}
MCBatch == {<<First, Second>>}
Listings(first, second) == [s \in {First, Second} |-> IF s = First THEN first ELSE second]
MCContents == {Listings("LISTED", "LISTED"), Listings("absent", "LISTED"),
               Listings("DELISTED", "LISTED"), Listings("LISTED", "SUSPENDED")}

Strategies  == INSTANCE Strategies
Screenings  == INSTANCE Screening
Calendars   == INSTANCE CalendarVersions
                 WITH Request <- Worker, Key <- CalendarKey, Imported <- MCImported, versions <- calendar
Lists       == INSTANCE Watchlists
                 WITH User <- Worker, List <- Session, Key <- Attempt, Security <- {First, Second},
                      Batch <- MCBatch, request <- change
Masters     == INSTANCE Securities
                 WITH Symbol <- {First, Second}, Contents <- MCContents, Job <- Session, Reader <- Holder,
                      versions <- master, job <- refresh

strategies == <<strategy, draft, tested, validation, passed, version, failedBefore,
                publisher, due, git, requests, faults>>
screenings == <<batch, result, job, run, work, published, retries, commands, leaseLosses>>
calendars  == <<calendar, pointer, today, request>>
lists      == <<list, audit, eligible, change, sends>>
masters    == <<security, master, revisions, refresh, reader, universes, observed, losses>>

\* The same model values stand for the interchangeable things of every side.
Symmetry == Permutations(Worker) \cup Permutations(Session) \cup Permutations(Attempt)

\* A side that does not move has one initial state.
AdministrationInit ==
  /\ kind \in {"accounts", "strategies", "screenings", "calendar", "lists", "securities"}
  /\ AccountsInit /\ Strategies!StrategyInit /\ Screenings!ScreeningInit
  /\ Calendars!CalendarInit /\ Lists!WatchlistInit /\ Masters!SecuritiesInit
  /\ kind # "strategies" => draft.content = CHOOSE c \in Content : TRUE
  /\ kind # "lists" => audit = {}

AdministrationNext ==
  /\ UNCHANGED kind
  /\ \/ /\ kind = "accounts" /\ AccountsNext
        /\ UNCHANGED <<strategies, screenings, calendars, lists, masters>>
     \/ /\ kind = "strategies" /\ Strategies!StrategyNext
        /\ UNCHANGED <<accountVars, screenings, calendars, lists, masters>>
     \/ /\ kind = "screenings" /\ Screenings!ScreeningNext
        /\ UNCHANGED <<accountVars, strategies, calendars, lists, masters>>
     \/ /\ kind = "calendar" /\ Calendars!CalendarNext
        /\ UNCHANGED <<accountVars, strategies, screenings, lists, masters>>
     \/ /\ kind = "lists" /\ Lists!WatchlistNext
        /\ UNCHANGED <<accountVars, strategies, screenings, calendars, masters>>
     \/ /\ kind = "securities" /\ Masters!SecuritiesNext
        /\ UNCHANGED <<accountVars, strategies, screenings, calendars, lists>>

AdministrationSpec ==
  AdministrationInit
    /\ [][AdministrationNext]_<<accountVars, strategies, screenings, calendars, lists,
                                masters, kind>>

\* A version users can bind is the one that was tested, committed once, and its
\* run tells the same story.
PublicationSound == Strategies!PublicationSound

\* What a screening found is never written again.
ResultsKept == Screenings!ResultsKept

\* No change of the calendar is lost, and none takes back what had to be confirmed.
CalendarSound == Calendars!CalendarSound

\* The answers kept explain the lists.
ListsExplained == Lists!ListsExplained

\* Whoever takes a security out of its last list is told so.
AdviceTrue == Lists!AdviceTrue

\* A frozen universe is what the securities were at the version it names.
SecuritiesSound == Masters!SecuritiesSound
=============================================================================
