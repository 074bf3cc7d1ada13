---------------------------- MODULE TargetInForce ---------------------------
(***************************************************************************)
(* What the targets of a subscription promise to those who evaluate        *)
(* against them without locking them: there is a target in force or there  *)
(* is not, and a version tells one target from another.  Targets           *)
(* implements this; Signals is built on it.                                *)
(***************************************************************************)
EXTENDS Naturals

CONSTANT MaxTarget        \* bound on versions

ASSUME TargetInForceAssumption == MaxTarget \in Nat

VARIABLE
  target                  \* [usable, version, revision]; revision 0: none yet

NoTarget == [usable |-> FALSE, version |-> 0, revision |-> 0]

TargetInit == target = NoTarget

\* Another revision comes into force, under a version of its own.
Activate(revision) ==
  /\ target.version < MaxTarget
  /\ \E version \in target.version + 1 .. MaxTarget :
       target' = [usable |-> TRUE, version |-> version, revision |-> revision]

\* A calculation is reserved or waits for review: nothing is in force, under a
\* later version or the same.
Withhold ==
  \E version \in target.version .. MaxTarget :
    target' = [target EXCEPT !.usable = FALSE, !.version = version]

\* The calculation ends without a new target: the revision before it is used.
Resume ==
  /\ target.revision # 0 /\ ~target.usable
  /\ target' = [target EXCEPT !.usable = TRUE]

TargetNext == Withhold \/ Resume \/ \E revision \in 1 .. MaxTarget : Activate(revision)

TargetSpec == TargetInit /\ [][TargetNext]_target
=============================================================================
