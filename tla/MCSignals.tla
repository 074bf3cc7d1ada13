------------------------------ MODULE MCSignals -----------------------------
(***************************************************************************)
(* Small instances for TLC of the two users of the zone rule, the signals  *)
(* and the engine of the backtests, and of the notification event that a   *)
(* signal becomes.  They share no row, so a behaviour is one of theirs.    *)
(***************************************************************************)
EXTENDS Signals, TLC

CONSTANTS r1, r2, s1, s2, Session

\* 102 is NORMAL against the first target, but within the buffer of 3 percent
\* for those who come from LOW; against the second it is HIGH
\* and 125 STRONG_HIGH.
MCPrice == {99, 102, 125}
First == [low_strong |-> 80, low_watch |-> 100, high_watch |-> 120, high_strong |-> 140]
Second == [low_strong |-> 60, low_watch |-> 70, high_watch |-> 100, high_strong |-> 124]
MCValues == [revision \in 1 .. MaxTarget |-> IF revision = 1 THEN First ELSE Second]

Symmetry == Permutations(Round) \cup Permutations(Session)

CONSTANTS Unit, Capitals, OpenPrice, ClosePrice, TargetValues, Factor, MaxBars,
          MaxAdjustments, m1, m2, Recipient, ChannelOf, MaxGeneration

VARIABLES
  kind,               \* which of the three moves
  capital, bars, account, pending, targets, zone, books, ended,
  notice, rows, session

\* Prices, capitals and factors are positive, as the code validates.
ASSUME EngineAssumption ==
  /\ Unit \in Nat \ {0} /\ Capitals \subseteq Nat
  /\ OpenPrice \subseteq Nat \ {0}
  /\ Factor \subseteq [num : Nat \ {0}, den : Nat \ {0}]

ASSUME EventsAssumption == MaxGeneration \in Nat \ {0}

Engine == INSTANCE BacktestEngine
Events == INSTANCE NotificationEvents WITH event <- notice
engineVars == <<capital, bars, account, pending, targets, zone, books, ended>>
noticeVars == <<notice, rows, session>>

\* Each recipient has a channel of its own, as in events without recipients.
OwnChannels == [r \in Recipient |-> IF r = m1 THEN "WECOM" ELSE "EMAIL"]

MCTargetValues == {First, Second}
MCFactor == {[num |-> 1, den |-> 2], [num |-> 3, den |-> 2]}

AllInit ==
  /\ Init /\ kind \in {"signals", "engine", "notice"}
  /\ Engine!EInit /\ Events!Init
  /\ kind # "engine" => targets = First /\ \A c \in Capitals : capital <= c

AllNext ==
  \/ kind = "signals" /\ Next /\ UNCHANGED <<engineVars, noticeVars, kind>>
  \/ kind = "engine" /\ Engine!ENext /\ UNCHANGED <<vars, noticeVars, kind>>
  \/ kind = "notice" /\ Events!Next /\ UNCHANGED <<vars, engineVars, kind>>

AllSpec == AllInit /\ [][AllNext]_<<vars, engineVars, noticeVars, kind>>

\* The orders of a backtest fill against what they were placed with, and its trades
\* explain its cash.
EngineSound == Engine!EngineSound

\* The status of an event tells where its deliveries are, and no recipient has
\* two of them under way.
EventsSound == Events!EventsSound
=============================================================================
