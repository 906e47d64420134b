----------------------------- MODULE MCChildRuns -----------------------------
(* Small instances of ChildRuns for TLC: one body that makes a call of every  *)
(* kind, a sub-workflow among them; the bodies of MCWorkflowEngine start none.*)
EXTENDS ChildRuns, MCWorkflowEngine

EveryKind == <<"b", "in", "hold", "sub", "nap", "near", "nap">>
KindByName == [n \in {"nap", "in", "near", "hold", "sub", "b", "refund"} |->
  CASE n = "nap" -> "sleep" [] n = "in" -> "inline" [] n = "near" -> "local"
    [] n = "hold" -> "suspend" [] OTHER -> "queued"]
RefundB == [n \in Names |-> IF n = "b" THEN "refund" ELSE None]

\* Two attempts for every step: retries bounds the attempts of a step the pass
\* runs itself, the further attempts of a queued one. A compensation has one,
\* and the failure of a child is not tried again.
TwoAttempts == [s \in Steps |->
  CASE s[1] \in {"in", "near"} -> 2 [] s[1] \in {"refund", "sub"} -> 0 [] OTHER -> 1]
================================================================================
