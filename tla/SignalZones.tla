----------------------------- MODULE SignalZones ----------------------------
(***************************************************************************)
(* The zones of backend/src/long_invest/modules/signals/state_machine.py.  *)
(* Prices are integers; the hysteresis ratio is in hundredths, and prices  *)
(* are compared a hundredfold where it takes part.                         *)
(***************************************************************************)
EXTENDS Integers

CONSTANTS
  Ratio,              \* hysteresis_ratio in hundredths
  Minimum             \* hysteresis_min

ASSUME SignalZonesAssumption == Ratio \in Nat /\ Minimum \in Nat

LowZones == {"LOW", "STRONG_LOW"}
HighZones == {"HIGH", "STRONG_HIGH"}
Zone == {"UNKNOWN", "NORMAL"} \cup LowZones \cup HighZones

\* base_zone
Base(price, targets) ==
  CASE price <= targets.low_strong -> "STRONG_LOW"
    [] targets.low_strong < price /\ price <= targets.low_watch -> "LOW"
    [] targets.low_watch < price /\ price < targets.high_watch -> "NORMAL"
    [] targets.high_watch <= price /\ price < targets.high_strong -> "HIGH"
    [] price >= targets.high_strong -> "STRONG_HIGH"

\* hysteresis_buffer, a hundredfold
Buffer(bound) ==
  IF bound * Ratio > 100 * Minimum THEN bound * Ratio ELSE 100 * Minimum

\* The zone next to `zone` towards NORMAL, and whether the price has come far
\* enough to leave for it.
Inward(zone) ==
  CASE zone \in {"LOW", "HIGH"} -> "NORMAL"
    [] zone = "STRONG_LOW" -> "LOW"
    [] zone = "STRONG_HIGH" -> "HIGH"

Left(zone, price, targets) ==
  CASE zone = "LOW" -> 100 * (price - targets.low_watch) > Buffer(targets.low_watch)
    [] zone = "STRONG_LOW" ->
         100 * (price - targets.low_strong) > Buffer(targets.low_strong)
    [] zone = "HIGH" -> 100 * (targets.high_watch - price) > Buffer(targets.high_watch)
    [] zone = "STRONG_HIGH" ->
         100 * (targets.high_strong - price) > Buffer(targets.high_strong)

Reclassifying == {"TARGET_ACTIVATED", "STATE_RESET"}

\* Faulty variant: a zone is held whatever the price leaves it for.
NextZoneHeld(current, price, targets, reason) ==
  IF /\ current \in LowZones \cup HighZones
     /\ reason \notin Reclassifying
     /\ ~Left(current, price, targets)
  THEN current
  ELSE Base(price, targets)

\* next_zone_for_values
NextZone(current, price, targets, reason) ==
  LET desired == Base(price, targets) IN
  IF /\ current \in LowZones \cup HighZones
     /\ reason \notin Reclassifying
     /\ desired = Inward(current)
     /\ ~Left(current, price, targets)
  THEN current
  ELSE desired

\* should_create_event
IsEvent(before, after) ==
  before # after /\ ~(before = "UNKNOWN" /\ after = "NORMAL")
\* The notification_class is HIGH or HIGH_CLEARED.
ConcernsHigh(before, after) ==
  after \in HighZones \/ (after = "NORMAL" /\ before \in HighZones)
=============================================================================
