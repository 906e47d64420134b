------------------------------- MODULE StepClaim -------------------------------
(***************************************************************************)
(* The claim on its own: step workers over inserted step rows, with an     *)
(* environment that dispatches any step at any time, as replays of the run *)
(* do on whatever they have read of it.  "Dispatch is at-least-once by     *)
(* design ... This is the one place that keeps a duplicate dispatch from   *)
(* becoming a second execution of a side-effecting step"                   *)
(* (claimStepForExecution).                                                *)
(***************************************************************************)
EXTENDS StepWorkers

VARIABLE unmarked  \* dispatchers that have queued a job of each step, their
                   \* setStepScheduled still to come

claimVars == <<workerVars, unmarked>>

\* rpcStep: the job is queued first ...
Redispatch(s) ==
  /\ EnqueueStep(s)
  /\ unmarked' = [unmarked EXCEPT ![s] = @ + 1]
  /\ UNCHANGED <<rows, wakes, workerState, history, faults>>

\* ... and the row marked afterwards, whatever it says by then.
Mark(s) ==
  /\ unmarked[s] > 0
  /\ unmarked' = [unmarked EXCEPT ![s] = @ - 1]
  /\ setStepScheduled(s)
  /\ UNCHANGED <<runStatus, attempt, queues, workerState, history, guarded, crashes,
                 redelivered, refused, unheard, missing>>

\* Every step was inserted, its first attempt still to come.
Init ==
  /\ runStatus = "running"
  /\ status = [s \in Steps |-> "pending"]
  /\ attempt = [s \in Steps |-> 1]
  /\ wakes = [k \in 1..OrchAttempts |-> 0]
  /\ unmarked = [s \in Steps |-> 0]
  /\ WorkersInit

Next == \/ WorkerNext /\ UNCHANGED unmarked
        \/ \E s \in Steps : Redispatch(s) \/ Mark(s)

Spec == Init /\ [][Next]_claimVars

--------------------------------------------------------------------------------
\* Type invariant of the step rows, the step queue and the workers.
TypeOK == WorkerTypeOK /\ unmarked \in [Steps -> Nat]

Holders(s) == {w \in Workers : Owner(w) /\ at[w] = s}

\* A claim by read and write holds the step lock between the two.
Locks(w, s) == ~guarded /\ at[w] = s /\ pc[w] \in {"markRunning", "newAttempt"}

\* A dispatch of the step would be let in now.
Open(s) == /\ status[s] \in {"pending", "scheduled", "failed"}
           /\ \A w \in Workers : ~Locks(w, s)

\* However many dispatches of a step there are, one executes it: the claim has
\* one winner until the outcome is recorded - and one more for every time the
\* row was marked scheduled behind a claim, which opens it again.
ClaimExcludes == \A s \in Steps : Cardinality(Holders(s)) <= 1 + late[s]

\* Every entry into a step's function has an attempt number of its own, so
\* attemptCount never understates how often the function has run - but for the
\* entries that late marks let in.
AttemptsCoverStarts == \A s \in Steps : started[s] <= attempt[s] + late[s]

\* However often a step is dispatched, redelivered or retried, its function
\* completes its side effects at most once - and once more for every time the
\* queue refused the wake of the finished step, which is then written failed,
\* and for every late mark.
EffectsAtMostOnce == \A s \in Steps : effects[s] <= 1 + refused[s] + late[s]

\* The workers implement the ownership of a step that claimStepForExecution
\* promises, its holders and its openness being functions of rows and workers.
Ownership == INSTANCE StepOwnership WITH
               holders <- [s \in Steps |-> Holders(s)],
               open <- [s \in Steps |-> Open(s)]
OwnershipSpec == Ownership!Spec
================================================================================
