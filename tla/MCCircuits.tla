------------------------------ MODULE MCCircuits -----------------------------
(***************************************************************************)
(* Small instances of the two circuit breakers and of those who call       *)
(* through them: the deliveries of a notification channel, and the callers *)
(* of a data source.  They share nothing, so a behaviour is one of either. *)
(***************************************************************************)
EXTENDS NotificationDelivery, TLC

CONSTANTS Caller, Cooldowns, ProbeTimeout

VARIABLES
  kind,                \* which of the two moves
  breaker, caller      \* the circuit of the data source, and its callers

ASSUME CircuitsAssumption ==
  /\ ProbeTimeout \in Nat
  /\ \A n \in 1 .. 3 : Cooldowns[n] \in Nat

Provider == INSTANCE ProviderCircuit WITH circuit <- breaker
provider == <<breaker, caller>>

MCCooldowns == <<1, 2, 3>>

CircuitsInit == kind \in {"channel", "provider"} /\ Init /\ Provider!Init

CircuitsNext ==
  \/ kind = "channel" /\ Next /\ UNCHANGED <<provider, kind>>
  \/ kind = "provider" /\ Provider!Next /\ UNCHANGED <<vars, kind>>

\* The fairness is that of the side that moves.
CircuitsSpec ==
  /\ CircuitsInit /\ [][CircuitsNext]_<<vars, provider, kind>>
  /\ \/ kind = "channel" /\ Fairness
     \/ kind = "provider" /\ Provider!Fairness

\* A delivery keeps its budget and is seen at most twice (DeliverySound); grants,
\* outcomes and stale snapshots, written to the circuit of a data source in any
\* order, never mix into a row no single update would leave (CircuitSound).
CircuitsSound == DeliverySound /\ Provider!CircuitSound

\* Unless it is reset again and again, the circuit of a data source grants
\* calls again and again.
GrantsAgain == Provider!GrantsAgain
=============================================================================
