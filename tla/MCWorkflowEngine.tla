--------------------------- MODULE MCWorkflowEngine ---------------------------
(* Small instances of WorkflowEngine for TLC: the programs, the kinds of      *)
(* their steps and compensations, and where the passes run.                   *)
EXTENDS WorkflowEngine, TLC

TwoCalls == <<"a", "b">>
LocalFirst == <<"near", "a">>
HoldFirst == <<"hold", "a">>

QueuedAB == [n \in {"a", "b"} |-> "queued"]
LocalThenQueued == [n \in {"near", "a"} |-> IF n = "near" THEN "local" ELSE "queued"]
HoldThenQueued == [n \in {"hold", "a"} |-> IF n = "hold" THEN "suspend" ELSE "queued"]

NoHandler == [n \in Names |-> None]

\* The keys of undisturbed replays, and those two further ordinals could reach.
FirstKeys == {StepKey(n, 0) : n \in Names}
AllKeys == {StepKey(n, o) : n \in Names, o \in 0..2}

NoRetry == [s \in Steps |-> 0]
OneRetry == [s \in Steps |-> 1]
OwnProcess == [p \in Passes |-> p]
OneProcess == [p \in Passes |-> CHOOSE c \in Processes : TRUE]

\* Passes are interchangeable when each has its own process.
Symmetry == Permutations(Workers) \cup Permutations(Jobs) \cup Permutations(Passes)
================================================================================
