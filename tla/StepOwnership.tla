----------------------------- MODULE StepOwnership -----------------------------
(***************************************************************************)
(* What claimStepForExecution promises about a step that is dispatched any *)
(* number of times.  An open step is taken by one dispatch, which closes   *)
(* it; its holder leaves it closed when it succeeds or vanishes in the     *)
(* middle, and open when it fails.  Nothing else opens a step but a row    *)
(* marked scheduled after its time, and each such mark lets in one holder  *)
(* more.                                                                   *)
(***************************************************************************)
EXTENDS Naturals

CONSTANTS Steps, Workers

VARIABLES holders,  \* the workers that hold each step
          open,     \* may a dispatch take it?
          late      \* how often it was opened out of turn

vars == <<holders, open, late>>

Init == /\ holders = [s \in Steps |-> {}]
        /\ open = [s \in Steps |-> TRUE]
        /\ late = [s \in Steps |-> 0]

\* A dispatch takes an open step.
Acquire(w, s) == /\ open[s] /\ w \notin holders[s]
                 /\ holders' = [holders EXCEPT ![s] = @ \cup {w}]
                 /\ open' = [open EXCEPT ![s] = FALSE]
                 /\ UNCHANGED late

\* A holder is done with it, and leaves it open or closed.
Release(w, s) == /\ w \in holders[s]
                 /\ holders' = [holders EXCEPT ![s] = @ \ {w}]
                 /\ \E o \in BOOLEAN : open' = [open EXCEPT ![s] = o]
                 /\ UNCHANGED late

\* A holder writes the row, and closes what was opened behind its back.
Close(s) == /\ holders[s] # {}
            /\ open' = [open EXCEPT ![s] = FALSE]
            /\ UNCHANGED <<holders, late>>

\* A late mark.
Reopen(s) == /\ late' = [late EXCEPT ![s] = @ + 1]
             /\ \E o \in {open[s], TRUE} : open' = [open EXCEPT ![s] = o]
             /\ UNCHANGED holders

Next == \E s \in Steps : \/ Close(s) \/ Reopen(s)
                         \/ \E w \in Workers : Acquire(w, s) \/ Release(w, s)

Spec == Init /\ [][Next]_vars
================================================================================
