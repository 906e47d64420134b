------------------------------ MODULE MCStepClaim ------------------------------
(* Small instances of StepClaim for TLC. *)
EXTENDS StepClaim, TLC

\* Every step may be retried once; or none may.
OneRetry == [s \in Steps |-> 1]
NoRetry == [s \in Steps |-> 0]

Symmetry == Permutations(Workers) \cup Permutations(Jobs)
================================================================================
