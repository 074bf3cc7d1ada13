---------------------------- MODULE MCJobRunner -----------------------------
(* Small instances of JobRunner for TLC. *)
EXTENDS JobRunner, TLC

CONSTANTS Attempts, j1, w1, w2, a1

OneJob == {j1}
OneRunner == {w1}
TwoRunners == {w1, w2}
RunnerSymmetry == Permutations(Runner)
MCHandles == [w \in Runner |-> Job]

MCCheckpoint == 0 .. Steps
MCData == {"none"}
MCRetryCheckpoint == [d \in MCData |-> 0]
MCPriority == [j \in Job |-> 0]
MCMaxAttempts == [j \in Job |-> Attempts]
MCMaxRecoveries == [j \in Job |-> 1]
=============================================================================
