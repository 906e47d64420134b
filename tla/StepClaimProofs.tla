---------------------------- MODULE StepClaimProofs ----------------------------
(***************************************************************************)
(* Proofs about the claim of a step, for any number of steps, workers and  *)
(* jobs, any retry policy, both ways of claiming and every fault budget.   *)
(*                                                                         *)
(* The arguments count permits.  A step that is open to a claim is worth   *)
(* one; the claim that takes it closes it and hands the permit to a        *)
(* worker, which uses it up on an entry into the function, or on its       *)
(* effects, or gives it back with the failed row.  Only a late mark and a  *)
(* refused wake bring new permits, and both are counted.                   *)
(***************************************************************************)
EXTENDS StepClaim, StepWorkersProofs, FiniteSetTheorems

\* Only a store that claims by conditional UPDATE has workers about to try it.
ClaimsGuarded == \A w \in Workers : pc[w] \in {"claimFresh", "claimFailed"} => guarded

Base == TypeOK /\ Placed /\ JobsNameSteps
IInv == Base /\ ClaimsGuarded

\* The workers that stand at one of the places L with step s.
Standing(L, s) == {w \in Workers : at[w] = s /\ pc[w] \in L}
Bit(b) == IF b THEN 1 ELSE 0

\* Only worker w has moved.
Moved(w) == \A v \in Workers \ {w} : pc'[v] = pc[v] /\ at'[v] = at[v]

\* What the rows and the counters of the steps in S say stays.
SameRows(S) == \A t \in S : /\ status'[t] = status[t] /\ attempt'[t] = attempt[t]
                            /\ started'[t] = started[t] /\ effects'[t] = effects[t]
                            /\ refused'[t] = refused[t]

\* What a worker does to the step it holds, or comes to hold.
OwnerPC == {"markRunning", "newAttempt", "exec", "result", "resume", "error", "missing"}
Holding(w, s) == s \in Steps /\ at[w] = s /\ at'[w] = s
Claims(w, s) ==
  /\ Holding(w, s) /\ pc[w] \notin OwnerPC /\ \A v \in Workers : ~Locks(v, s)
  /\ \/ pc'[w] = "markRunning" /\ status[s] \in {"pending", "scheduled"}
     \/ pc'[w] = "newAttempt" /\ status[s] = "failed"
  /\ IF guarded THEN status'[s] = "running" ELSE status'[s] = status[s]
  /\ attempt'[s] = attempt[s] /\ started'[s] = started[s]
  /\ effects'[s] = effects[s] /\ refused'[s] = refused[s]
Enters(w, s) ==
  /\ Holding(w, s) /\ pc'[w] = "exec" /\ status'[s] = "running"
  /\ \/ pc[w] = "markRunning" /\ attempt'[s] = attempt[s]
     \/ pc[w] = "newAttempt" /\ attempt'[s] = attempt[s] + 1
  /\ started'[s] = started[s] + 1 /\ effects'[s] = effects[s] /\ refused'[s] = refused[s]
Ends(w, s) ==
  /\ Holding(w, s) /\ pc[w] = "exec"
  /\ \/ pc'[w] = "result" /\ effects'[s] = effects[s] + 1
     \/ pc'[w] \in {"error", "missing"} /\ effects'[s] = effects[s]
  /\ status'[s] = status[s] /\ attempt'[s] = attempt[s]
  /\ started'[s] = started[s] /\ refused'[s] = refused[s]
Records(w, s) ==
  /\ Holding(w, s)
  /\ \/ pc[w] = "result" /\ pc'[w] = "resume" /\ status'[s] = "succeeded"
     \/ /\ pc[w] \in {"error", "missing"} /\ pc'[w] \notin OwnerPC
        /\ status'[s] = "failed"
  /\ attempt'[s] = attempt[s] /\ started'[s] = started[s]
  /\ effects'[s] = effects[s] /\ refused'[s] = refused[s]
Wakes(w, s) ==
  /\ Holding(w, s) /\ pc[w] = "resume" /\ status'[s] = status[s]
  /\ \/ pc'[w] = "ack" /\ refused'[s] = refused[s]
     \/ pc'[w] = "error" /\ refused'[s] = refused[s] + 1
  /\ attempt'[s] = attempt[s] /\ started'[s] = started[s] /\ effects'[s] = effects[s]
Vanishes(w, s) ==
  /\ s \in Steps /\ at[w] = s /\ pc[w] \in OwnerPC /\ pc'[w] = "idle" /\ SameRows({s})
HoldersMove(w, s) == Claims(w, s) \/ Enters(w, s) \/ Ends(w, s) \/ Records(w, s)
                     \/ Wakes(w, s) \/ Vanishes(w, s)

\* Where a worker's permit is for the effects of its step.
ToDo == {"markRunning", "newAttempt", "exec", "error", "missing"}
EffectPermits(s) ==
  /\ IsFiniteSet(Standing(ToDo, s))
  /\ effects[s] + Cardinality(Standing(ToDo, s)) + Bit(Open(s)) <= 1 + refused[s] + late[s]
EffectInv == IInv /\ \A s \in Steps : EffectPermits(s)

\* And where it is for an entry under the number of the attempt that has one.
Entering == {"markRunning"}
Unentered(s) == /\ status[s] \in {"pending", "scheduled"}
                /\ guarded \/ Standing(Entering, s) = {}
StartPermits(s) ==
  /\ IsFiniteSet(Standing(Entering, s))
  /\ started[s] + Cardinality(Standing(Entering, s)) + Bit(Unentered(s)) <= attempt[s] + late[s]
StartInv == IInv /\ \A s \in Steps : StartPermits(s)
--------------------------------------------------------------------------------
\* Every step keeps the types, and workers with a job know it.
LEMMA BaseStep ==
  ASSUME Base, [Next]_claimVars
  PROVE  Base'
<1> USE DEF Base, TypeOK
<1>1. CASE UNCHANGED claimVars
  BY <1>1 DEF claimVars, workerVars, rows, queues, workerState, history, faults, WorkerTypeOK,
     Placed, JobsNameSteps
<1>2. CASE WorkerNext /\ UNCHANGED unmarked
  BY <1>2, WorkersStep DEF WorkerBase
<1>3. ASSUME NEW s \in Steps, Redispatch(s)
      PROVE  Base'
  <2>1. PICK j \in Jobs : job' = [job EXCEPT ![j] = StepJob(s)]
    BY <1>3, Enqueued DEF Redispatch
  <2>2. job' \in [Jobs -> Job] /\ JobsNameSteps'
    BY <2>1, JobUpdate, JobTypes DEF NamesStep, WorkerTypeOK
  <2>3. unmarked' \in [Steps -> Nat]
    BY <1>3 DEF Redispatch
  <2> QED BY <1>3, <2>2, <2>3
          DEF Redispatch, rows, workerState, history, faults, WorkerTypeOK, Placed
<1>4. ASSUME NEW s \in Steps, Mark(s)
      PROVE  Base'
  <2>1. status' \in [Steps -> StepStatus] /\ late' \in [Steps -> Nat]
    BY <1>4 DEF Mark, setStepScheduled, SetStatus, WorkerTypeOK, StepStatus
  <2>2. unmarked' \in [Steps -> Nat]
    BY <1>4 DEF Mark
  <2> QED BY <1>4, <2>1, <2>2
          DEF Mark, queues, workerState, history, WorkerTypeOK, Placed, JobsNameSteps
<1> QED BY <1>1, <1>2, <1>3, <1>4 DEF Next

\* Two sets that differ at most in w differ at most by one.
LEMMA OneApart ==
  ASSUME NEW A, NEW B, NEW w, IsFiniteSet(A), B \ {w} = A \ {w}
  PROVE  /\ IsFiniteSet(B) /\ Cardinality(A) \in Nat
         /\ Cardinality(B) = Cardinality(A) + Bit(w \in B) - Bit(w \in A)
<1>1. /\ IsFiniteSet(A \ {w}) /\ Cardinality(A) \in Nat /\ Cardinality(A \ {w}) \in Nat
      /\ Cardinality(A \ {w}) = Cardinality(A) - Bit(w \in A)
  BY FS_RemoveElement, FS_CardinalityType DEF Bit
<1>2. CASE w \in B
  <2>1. B = (A \ {w}) \cup {w} /\ w \notin A \ {w}
    BY <1>2
  <2>2. IsFiniteSet(B) /\ Cardinality(B) = Cardinality(A \ {w}) + 1
    BY <1>1, <2>1, FS_AddElement
  <2> QED BY <1>1, <1>2, <2>2 DEF Bit
<1>3. CASE w \notin B
  <2>1. B = A \ {w}
    BY <1>3
  <2>2. IsFiniteSet(B) /\ Cardinality(B) = Cardinality(A \ {w})
    BY <1>1, <2>1
  <2> QED BY <1>1, <1>3, <2>2 DEF Bit
<1> QED BY <1>2, <1>3

\* One worker moves, and the number of those that stand where it stood or comes
\* to stand changes by it alone.
LEMMA OneMoves ==
  ASSUME NEW L, NEW s, NEW w \in Workers, Moved(w), IsFiniteSet(Standing(L, s))
  PROVE  /\ IsFiniteSet(Standing(L, s)') /\ Cardinality(Standing(L, s)) \in Nat
         /\ Cardinality(Standing(L, s)') = Cardinality(Standing(L, s))
              + Bit(at'[w] = s /\ pc'[w] \in L) - Bit(at[w] = s /\ pc[w] \in L)
<1>1. Standing(L, s)' \ {w} = Standing(L, s) \ {w}
  BY DEF Standing, Moved
<1>2. /\ w \in Standing(L, s) <=> at[w] = s /\ pc[w] \in L
      /\ w \in Standing(L, s)' <=> at'[w] = s /\ pc'[w] \in L
  BY DEF Standing
<1>3. /\ IsFiniteSet(Standing(L, s)') /\ Cardinality(Standing(L, s)) \in Nat
      /\ Cardinality(Standing(L, s)') = Cardinality(Standing(L, s))
           + Bit(w \in Standing(L, s)') - Bit(w \in Standing(L, s))
  BY <1>1, OneApart
<1> QED BY <1>2, <1>3 DEF Bit

\* A step whose row and whose lock are as they were is as open as it was; one
\* whose row says that it runs or is done is not open.
LEMMA OpenStays ==
  ASSUME NEW s \in Steps, NEW w \in Workers, Moved(w), guarded' = guarded, status'[s] = status[s],
         Locks(w, s)' <=> Locks(w, s)
  PROVE  Open(s)' <=> Open(s)
BY DEF Open, Locks, Moved
LEMMA Shuts ==
  ASSUME NEW s \in Steps, status'[s] \in {"running", "succeeded"}
  PROVE  ~Open(s)'
BY DEF Open

--------------------------------------------------------------------------------

\* A step of the workers or the queue is one worker's with the step it holds,
\* or nobody's who holds any.
LEMMA WorkerTable ==
  ASSUME IInv, WorkerNext
  PROVE  /\ guarded' = guarded /\ late' = late
         /\ \/ \E w \in Workers, s \in Steps : Moved(w) /\ HoldersMove(w, s) /\ SameRows(Steps \ {s})
            \/ UNCHANGED <<pc, at>> /\ SameRows(Steps)
            \/ \E w \in Workers : /\ Moved(w) /\ SameRows(Steps)
                                  /\ pc[w] \notin OwnerPC /\ pc'[w] \notin OwnerPC
<1> DEFINE Aside(w) == /\ Moved(w) /\ SameRows(Steps)
                       /\ pc[w] \notin OwnerPC /\ pc'[w] \notin OwnerPC
           Holds(w) == \E s \in Steps : Moved(w) /\ HoldersMove(w, s) /\ SameRows(Steps \ {s})
<1> USE DEF IInv, Base, TypeOK, WorkerTypeOK, Placed, Goto, Moved, SameRows, OwnerPC
<1>1. ASSUME NEW w \in Workers, NEW j \in Jobs, Deliver(w, j)
      PROVE  guarded' = guarded /\ late' = late /\ Aside(w)
  BY <1>1 DEF Deliver, rows, history, faults
<1>2. ASSUME NEW w \in Workers, LoadOwned(w) \/ ClaimLost(w)
      PROVE  guarded' = guarded /\ late' = late /\ Aside(w)
  BY <1>2 DEF LoadOwned, ClaimLost, Leave, rows, history, faults
<1>3. ASSUME NEW w \in Workers, LoadClaimable(w)
      PROVE  guarded' = guarded /\ late' = late /\ (Aside(w) \/ Holds(w))
  <2>1. PICK s \in Steps : s = at[w]
    BY <1>3 DEF LoadClaimable
  <2>2. CASE guarded
    BY <1>3, <2>2 DEF LoadClaimable, rows, history, faults
  <2>3. CASE ~guarded
    <3>1. \A v \in Workers : ~Locks(v, s)
      BY <1>3, <2>1, <2>3 DEF LoadClaimable, LockFree, Locks
    <3>2. /\ UNCHANGED <<status, attempt, started, effects, refused, guarded, late, at>>
          /\ \/ pc' = [pc EXCEPT ![w] = "markRunning"] /\ status[s] \in {"pending", "scheduled"}
             \/ pc' = [pc EXCEPT ![w] = "newAttempt"] /\ status[s] = "failed"
      BY <1>3, <2>1, <2>3 DEF LoadClaimable, rows, history, faults
    <3>3. Claims(w, s)
      BY <1>3, <2>1, <2>3, <3>1, <3>2 DEF Claims, Holding, LoadClaimable
    <3> QED BY <3>2, <3>3 DEF HoldersMove
  <2> QED BY <2>2, <2>3
<1>4. ASSUME NEW w \in Workers, ClaimWon(w)
      PROVE  guarded' = guarded /\ late' = late /\ Holds(w)
  <2>1. PICK s \in Steps : s = at[w]
    BY <1>4 DEF ClaimWon
  <2>2. guarded /\ \A v \in Workers : ~Locks(v, s)
    BY <1>4 DEF ClaimWon, ClaimsGuarded, Locks
  <2>3. /\ UNCHANGED <<attempt, started, effects, refused, guarded, late, at>>
        /\ status' = [status EXCEPT ![s] = "running"]
        /\ \/ pc' = [pc EXCEPT ![w] = "markRunning"] /\ status[s] \in {"pending", "scheduled"}
           \/ pc' = [pc EXCEPT ![w] = "newAttempt"] /\ status[s] = "failed"
    BY <1>4, <2>1 DEF ClaimWon, ClaimableFrom, SetStatus, history, faults
  <2>4. Claims(w, s)
    BY <1>4, <2>1, <2>2, <2>3 DEF Claims, Holding, ClaimWon
  <2> QED BY <2>3, <2>4 DEF HoldersMove
<1>5. ASSUME NEW w \in Workers, MarkRunning(w) \/ NewAttempt(w)
      PROVE  guarded' = guarded /\ late' = late /\ Holds(w)
  <2>1. PICK s \in Steps : s = at[w]
    BY <1>5 DEF MarkRunning, NewAttempt
  <2>2. /\ UNCHANGED <<effects, refused, guarded, late, at>>
        /\ status' = [status EXCEPT ![s] = "running"] /\ pc' = [pc EXCEPT ![w] = "exec"]
        /\ started' = [started EXCEPT ![s] = @ + 1]
        /\ \/ pc[w] = "markRunning" /\ attempt' = attempt
           \/ pc[w] = "newAttempt" /\ attempt' = [attempt EXCEPT ![s] = attempt[s] + 1]
    BY <1>5, <2>1 DEF MarkRunning, NewAttempt, NextAttempt, EnterFunction, SetStatus, faults
  <2>3. Enters(w, s)
    BY <2>1, <2>2 DEF Enters, Holding
  <2>4. SameRows(Steps \ {s})
    BY <2>2
  <2> QED BY <2>2, <2>3, <2>4 DEF HoldersMove
<1>6. ASSUME NEW w \in Workers, RpcReturns(w) \/ RpcThrows(w) \/ RpcNotFound(w)
      PROVE  guarded' = guarded /\ late' = late /\ Holds(w)
  <2>1. PICK s \in Steps : s = at[w]
    BY <1>6 DEF RpcReturns, RpcThrows, RpcNotFound
  <2>2. /\ UNCHANGED <<status, attempt, started, refused, guarded, late, at>>
        /\ pc[w] = "exec"
        /\ \/ pc' = [pc EXCEPT ![w] = "result"] /\ effects' = [effects EXCEPT ![s] = @ + 1]
           \/ \E l \in {"error", "missing"} : pc' = [pc EXCEPT ![w] = l] /\ effects' = effects
    BY <1>6, <2>1 DEF RpcReturns, RpcThrows, RpcNotFound, rows, history, faults
  <2>3. Ends(w, s)
    BY <2>1, <2>2 DEF Ends, Holding
  <2>4. SameRows(Steps \ {s})
    BY <2>2
  <2> QED BY <2>2, <2>3, <2>4 DEF HoldersMove
<1>7. ASSUME NEW w \in Workers, WriteResult(w) \/ WriteError(w) \/ WriteMissing(w)
      PROVE  guarded' = guarded /\ late' = late /\ Holds(w)
  <2>1. PICK s \in Steps : s = at[w]
    BY <1>7 DEF WriteResult, WriteError, WriteMissing
  <2>2. /\ UNCHANGED <<attempt, started, effects, refused, guarded, late, at>>
        /\ \/ /\ pc[w] = "result" /\ pc' = [pc EXCEPT ![w] = "resume"]
              /\ status' = [status EXCEPT ![s] = "succeeded"]
           \/ /\ pc[w] \in {"error", "missing"}
              /\ \E l \in {"lastResume", "nack", "suspendRun"} : pc' = [pc EXCEPT ![w] = l]
              /\ status' = [status EXCEPT ![s] = "failed"]
    BY <1>7, <2>1 DEF WriteResult, WriteError, WriteMissing, SetStatus, history, faults
  <2>3. Records(w, s)
    BY <2>1, <2>2 DEF Records, Holding
  <2>4. SameRows(Steps \ {s})
    BY <2>2
  <2> QED BY <2>2, <2>3, <2>4 DEF HoldersMove
<1>8. ASSUME NEW w \in Workers, Resume(w) \/ ResumeThrows(w)
      PROVE  guarded' = guarded /\ late' = late /\ Holds(w)
  <2>1. PICK s \in Steps : s = at[w]
    BY <1>8 DEF Resume, ResumeThrows
  <2>2. /\ UNCHANGED <<status, attempt, started, effects, guarded, late, at>>
        /\ pc[w] = "resume"
        /\ \/ pc' = [pc EXCEPT ![w] = "ack"] /\ refused' = refused
           \/ pc' = [pc EXCEPT ![w] = "error"] /\ refused' = [refused EXCEPT ![s] = @ + 1]
    BY <1>8, <2>1 DEF Resume, ResumeThrows, rows, history, faults
  <2>3. Wakes(w, s)
    BY <2>1, <2>2 DEF Wakes, Holding
  <2>4. SameRows(Steps \ {s})
    BY <2>2
  <2> QED BY <2>2, <2>3, <2>4 DEF HoldersMove
<1>9. ASSUME NEW w \in Workers, LastResume(w) \/ SuspendRun(w)
      PROVE  guarded' = guarded /\ late' = late /\ Aside(w)
  BY <1>9 DEF LastResume, SuspendRun, rows, history, faults
<1>10. ASSUME NEW w \in Workers, JobCompletes(w) \/ JobFails(w)
       PROVE  guarded' = guarded /\ late' = late /\ Aside(w)
  BY <1>10 DEF JobCompletes, JobFails, Leave, rows, history, faults
<1>11. ASSUME NEW w \in Workers, Crash(w)
       PROVE  guarded' = guarded /\ late' = late /\ (Aside(w) \/ Holds(w))
  <2>1. PICK s \in Steps : s = at[w]
    BY <1>11 DEF Crash
  <2>2. /\ UNCHANGED <<status, attempt, started, effects, refused, guarded, late>>
        /\ pc' = [pc EXCEPT ![w] = "idle"] /\ at' = [at EXCEPT ![w] = None]
    BY <1>11 DEF Crash, Leave, rows, history
  <2>3. CASE pc[w] \in OwnerPC
    BY <2>1, <2>2, <2>3 DEF HoldersMove, Vanishes
  <2>4. CASE pc[w] \notin OwnerPC
    BY <2>2, <2>4
  <2> QED BY <2>2, <2>3, <2>4
<1>12. ASSUME NEW j \in Jobs, Redeliver(j)
       PROVE  guarded' = guarded /\ late' = late /\ UNCHANGED <<pc, at>> /\ SameRows(Steps)
  BY <1>12 DEF Redeliver, workerState, rows, history
<1> HIDE DEF SameRows, Moved, OwnerPC
<1> QED
  BY <1>1, <1>2, <1>3, <1>4, <1>5, <1>6, <1>7, <1>8, <1>9, <1>10, <1>11, <1>12
  DEF WorkerNext, Handle

\* Only a store that claims by conditional UPDATE sends workers to try it.
LEMMA GuardStep ==
  ASSUME IInv, [Next]_claimVars
  PROVE  ClaimsGuarded'
<1> USE DEF IInv, Base, TypeOK, WorkerTypeOK, ClaimsGuarded, Goto
<1>1. ASSUME NEW w \in Workers, NEW j \in Jobs, Deliver(w, j) PROVE ClaimsGuarded'
  BY <1>1 DEF Deliver, faults
<1>2. ASSUME NEW w \in Workers, LoadClaimable(w) PROVE ClaimsGuarded'
  BY <1>2 DEF LoadClaimable, faults
<1>3. ASSUME NEW w \in Workers,
             LoadOwned(w) \/ ClaimLost(w) \/ JobCompletes(w) \/ JobFails(w) \/ Crash(w)
      PROVE  ClaimsGuarded'
  BY <1>3 DEF LoadOwned, ClaimLost, JobCompletes, JobFails, Crash, Leave, faults
<1>4. ASSUME NEW w \in Workers, ClaimWon(w) \/ MarkRunning(w) \/ NewAttempt(w)
      PROVE  ClaimsGuarded'
  BY <1>4 DEF ClaimWon, MarkRunning, NewAttempt, EnterFunction, faults
<1>5. ASSUME NEW w \in Workers,
             RpcReturns(w) \/ RpcThrows(w) \/ RpcNotFound(w) \/ WriteResult(w) \/ Resume(w)
      PROVE  ClaimsGuarded'
  BY <1>5 DEF RpcReturns, RpcThrows, RpcNotFound, WriteResult, Resume, faults
<1>6. ASSUME NEW w \in Workers,
             ResumeThrows(w) \/ WriteError(w) \/ LastResume(w) \/ WriteMissing(w) \/ SuspendRun(w)
      PROVE  ClaimsGuarded'
  BY <1>6 DEF ResumeThrows, WriteError, LastResume, WriteMissing, SuspendRun, faults
<1>7. ASSUME NEW j \in Jobs, Redeliver(j) PROVE ClaimsGuarded'
  BY <1>7 DEF Redeliver, workerState
<1>8. ASSUME NEW s \in Steps, Redispatch(s) \/ Mark(s) PROVE ClaimsGuarded'
  BY <1>8 DEF Redispatch, Mark, workerState, faults
<1>9. CASE UNCHANGED claimVars
  BY <1>9 DEF claimVars, workerVars, workerState, faults
<1> QED
  BY <1>1, <1>2, <1>3, <1>4, <1>5, <1>6, <1>7, <1>8, <1>9 DEF Next, WorkerNext, Handle

\* At the start every worker is idle and every job free.
LEMMA InitIInv ==
  ASSUME Init
  PROVE  IInv
<1> USE DEF Init, WorkersInit
<1>1. runStatus \in RunStatus /\ status \in [Steps -> StepStatus] /\ attempt \in [Steps -> Nat]
  BY DEF RunStatus, StepStatus
<1>2. job \in [Jobs -> Job] /\ JobsNameSteps
  BY JobTypes, NoneAssumption DEF JobsNameSteps, NamesStep, FreeJob, JobRecord
<1>3. /\ pc \in [Workers -> WorkerPC] /\ mine \in [Workers -> Jobs \cup {None}]
      /\ at \in [Workers -> Steps \cup {None}] /\ under \in [Workers -> Nat]
  BY DEF WorkerPC
<1>4. /\ started \in [Steps -> Nat] /\ effects \in [Steps -> Nat] /\ refused \in [Steps -> Nat]
      /\ late \in [Steps -> Nat] /\ unmarked \in [Steps -> Nat]
  OBVIOUS
<1>5. wakes \in [1..OrchAttempts -> Nat] /\ guarded \in BOOLEAN
  BY SwitchAssumption
<1>6. Placed /\ ClaimsGuarded
  BY DEF Placed, ClaimsGuarded
<1> QED BY <1>1, <1>2, <1>3, <1>4, <1>5, <1>6 DEF IInv, Base, TypeOK, WorkerTypeOK

\* Rows, queue, workers and counters have their types, for all constants.
THEOREM TypeCorrect == Spec => []TypeOK
<1>1. IInv /\ [Next]_claimVars => IInv'
  BY BaseStep, GuardStep DEF IInv
<1>2. (Init => IInv) /\ (IInv => TypeOK)
  BY InitIInv DEF IInv, Base
<1> QED BY <1>1, <1>2, PTL DEF Spec

--------------------------------------------------------------------------------
\* The permits for effects balance, whatever steps.
LEMMA EffectStep ==
  ASSUME IInv, [Next]_claimVars, NEW t \in Steps, EffectPermits(t)
  PROVE  EffectPermits(t)'
<1> DEFINE n == Cardinality(Standing(ToDo, t))
<1>1. /\ effects[t] \in Nat /\ refused[t] \in Nat /\ late[t] \in Nat /\ n \in Nat
      /\ Bit(Open(t)) \in {0, 1} /\ Bit(Open(t)') \in {0, 1}
  BY FS_CardinalityType DEF IInv, Base, TypeOK, WorkerTypeOK, EffectPermits, Bit
<1>2. CASE UNCHANGED <<pc, at, guarded>> /\ late'[t] = late[t] /\ SameRows({t})
  <2>1. Standing(ToDo, t)' = Standing(ToDo, t) /\ (Open(t)' <=> Open(t))
    BY <1>2 DEF Standing, Open, Locks, SameRows
  <2> QED BY <1>2, <2>1 DEF EffectPermits, SameRows, Bit
<1>3. CASE WorkerNext
  <2>1. guarded' = guarded /\ late' = late
    BY <1>3, WorkerTable
  <2>2. CASE UNCHANGED <<pc, at>> /\ SameRows(Steps)
    BY <1>2, <2>1, <2>2 DEF SameRows
  <2>3. ASSUME NEW w \in Workers, Moved(w), SameRows(Steps), pc[w] \notin OwnerPC, pc'[w] \notin OwnerPC
        PROVE  EffectPermits(t)'
    <3>1. Open(t)' <=> Open(t)
      BY <2>1, <2>3, OpenStays DEF Locks, OwnerPC, SameRows
    <3>2. /\ IsFiniteSet(Standing(ToDo, t)')
          /\ Cardinality(Standing(ToDo, t)') = n + Bit(at'[w] = t /\ pc'[w] \in ToDo)
                                                 - Bit(at[w] = t /\ pc[w] \in ToDo)
      BY <2>3, OneMoves DEF EffectPermits
    <3>3. Cardinality(Standing(ToDo, t)') = n
      BY <1>1, <2>3, <3>2 DEF ToDo, OwnerPC, Bit
    <3> QED BY <2>1, <2>3, <3>1, <3>2, <3>3 DEF EffectPermits, SameRows, Bit
  <2>4. ASSUME NEW w \in Workers, NEW s \in Steps, Moved(w), HoldersMove(w, s), SameRows(Steps \ {s})
        PROVE  EffectPermits(t)'
    <3>1. /\ IsFiniteSet(Standing(ToDo, t)')
          /\ Cardinality(Standing(ToDo, t)') = n + Bit(at'[w] = t /\ pc'[w] \in ToDo)
                                                 - Bit(at[w] = t /\ pc[w] \in ToDo)
      BY <2>4, OneMoves DEF EffectPermits
    <3>2. CASE s # t
      <4>1. at[w] = s /\ (at'[w] = s \/ pc'[w] = "idle")
        BY <2>4 DEF HoldersMove, Claims, Enters, Ends, Records, Wakes, Vanishes, Holding
      <4>2. Open(t)' <=> Open(t)
        BY <2>1, <2>4, <3>2, <4>1, OpenStays DEF Locks, SameRows
      <4>3. Cardinality(Standing(ToDo, t)') = n
        BY <1>1, <3>1, <3>2, <4>1 DEF Bit, ToDo
      <4> QED BY <2>1, <2>4, <3>1, <3>2, <4>2, <4>3 DEF EffectPermits, SameRows, Bit
    <3>3. CASE s = t
      <4> USE <2>1, <2>4, <3>1, <3>3 DEF EffectPermits, Bit, ToDo
      <4>1. CASE Claims(w, s)
        <5>1. Open(t)
          BY <4>1 DEF Claims, Open
        <5>2. ~Open(t)'
          BY <4>1, Shuts DEF Claims, Holding, Open, Locks
        <5>3. Cardinality(Standing(ToDo, t)') = n + 1
          BY <1>1, <4>1 DEF Claims, Holding, OwnerPC
        <5> QED BY <1>1, <4>1, <5>1, <5>2, <5>3 DEF Claims
      <4>2. CASE Enters(w, s)
        <5>1. ~Open(t)'
          BY <4>2, Shuts DEF Enters
        <5>2. Cardinality(Standing(ToDo, t)') = n
          BY <1>1, <4>2 DEF Enters, Holding
        <5> QED BY <1>1, <4>2, <5>1, <5>2 DEF Enters
      <4>3. CASE Ends(w, s)
        <5>1. Open(t)' <=> Open(t)
          BY <4>3, OpenStays DEF Ends, Locks
        <5>2. Cardinality(Standing(ToDo, t)') + effects'[t] = n + effects[t]
          BY <1>1, <4>3 DEF Ends, Holding
        <5>3. Cardinality(Standing(ToDo, t)') \in Nat /\ effects'[t] \in Nat
          BY <1>1, <4>3, FS_CardinalityType DEF Ends
        <5> QED BY <1>1, <4>3, <5>1, <5>2, <5>3 DEF Ends
      <4>4. CASE Records(w, s)
        <5>1. CASE pc[w] = "result"
          <6>1. ~Open(t)' /\ Cardinality(Standing(ToDo, t)') = n
            BY <1>1, <4>4, <5>1, Shuts DEF Records, Holding
          <6> QED BY <1>1, <4>4, <6>1 DEF Records
        <5>2. CASE pc[w] # "result"
          <6>1. Cardinality(Standing(ToDo, t)') = n - 1
            BY <1>1, <4>4, <5>2 DEF Records, Holding, OwnerPC
          <6> QED BY <1>1, <4>4, <6>1 DEF Records
        <5> QED BY <5>1, <5>2
      <4>5. CASE Wakes(w, s)
        <5>1. Open(t)' <=> Open(t)
          BY <4>5, OpenStays DEF Wakes, Locks
        <5>2. Cardinality(Standing(ToDo, t)') - refused'[t] = n - refused[t]
          BY <1>1, <4>5 DEF Wakes, Holding
        <5>3. Cardinality(Standing(ToDo, t)') \in Nat /\ refused'[t] \in Nat
          BY <1>1, <4>5, FS_CardinalityType DEF Wakes
        <5> QED BY <1>1, <4>5, <5>1, <5>2, <5>3 DEF Wakes
      <4>6. CASE Vanishes(w, s)
        <5>1. CASE pc[w] \in ToDo
          <6>1. Cardinality(Standing(ToDo, t)') = n - 1
            BY <1>1, <4>6, <5>1 DEF Vanishes
          <6> QED BY <1>1, <4>6, <6>1 DEF Vanishes, SameRows
        <5>2. CASE pc[w] \notin ToDo
          <6>1. Open(t)' <=> Open(t)
            BY <4>6, <5>2, OpenStays DEF Vanishes, Locks, SameRows
          <6>2. Cardinality(Standing(ToDo, t)') = n
            BY <1>1, <4>6, <5>2 DEF Vanishes
          <6> QED BY <1>1, <4>6, <6>1, <6>2 DEF Vanishes, SameRows
        <5> QED BY <5>1, <5>2
      <4> QED BY <4>1, <4>2, <4>3, <4>4, <4>5, <4>6 DEF HoldersMove
    <3> QED BY <3>2, <3>3
  <2> QED BY <1>3, <2>2, <2>3, <2>4, WorkerTable
<1>4. ASSUME NEW s \in Steps, Redispatch(s) PROVE EffectPermits(t)'
  BY <1>2, <1>4 DEF Redispatch, rows, workerState, history, faults, SameRows
<1>5. ASSUME NEW s \in Steps, Mark(s) PROVE EffectPermits(t)'
  <2>1. /\ UNCHANGED <<pc, at, guarded, effects, refused, attempt, started>>
        /\ \A x \in Steps \ {s} : status'[x] = status[x] /\ late'[x] = late[x]
    BY <1>5 DEF Mark, setStepScheduled, SetStatus, workerState, history, IInv, Base, TypeOK, WorkerTypeOK
  <2>2. CASE s # t
    BY <1>2, <2>1, <2>2 DEF SameRows
  <2>3. CASE s = t
    <3>1. Standing(ToDo, t)' = Standing(ToDo, t)
      BY <2>1 DEF Standing
    <3>2. CASE status[t] \in {"pending", "scheduled"}
      <4>1. late'[t] = late[t] /\ status'[t] = "scheduled"
        BY <1>5, <2>3, <3>2 DEF Mark, setStepScheduled, SetStatus, IInv, Base, TypeOK, WorkerTypeOK
      <4>2. Open(t)' <=> Open(t)
        BY <2>1, <3>2, <4>1 DEF Open, Locks
      <4> QED BY <2>1, <3>1, <4>1, <4>2 DEF EffectPermits, Bit
    <3>3. CASE status[t] \notin {"pending", "scheduled"}
      <4>1. late'[t] = late[t] + 1
        BY <1>5, <2>3, <3>3 DEF Mark, setStepScheduled, IInv, Base, TypeOK, WorkerTypeOK
      <4> QED BY <1>1, <2>1, <3>1, <4>1 DEF EffectPermits
    <3> QED BY <3>2, <3>3
  <2> QED BY <2>2, <2>3
<1>6. CASE UNCHANGED claimVars
  BY <1>2, <1>6 DEF claimVars, workerVars, rows, workerState, history, faults, SameRows
<1> QED BY <1>3, <1>4, <1>5, <1>6 DEF Next

\* At most as many times as there were permits: once, once more for every
\* refused wake and for every late mark (claimStepForExecution, l.1449-1454).
THEOREM EffectsOnce == Spec => []EffectsAtMostOnce
<1>1. Init => EffectInv
  <2> SUFFICES ASSUME Init, NEW s \in Steps PROVE EffectPermits(s)
    BY InitIInv DEF EffectInv
  <2>1. Standing(ToDo, s) = {}
    BY DEF Init, WorkersInit, Standing, ToDo
  <2>2. IsFiniteSet(Standing(ToDo, s)) /\ Cardinality(Standing(ToDo, s)) = 0
    BY <2>1, FS_EmptySet
  <2> QED BY <2>2 DEF EffectPermits, Init, WorkersInit, Bit
<1>2. EffectInv /\ [Next]_claimVars => EffectInv'
  <2> SUFFICES ASSUME EffectInv, [Next]_claimVars PROVE EffectInv'
    OBVIOUS
  <2>1. IInv'
    BY BaseStep, GuardStep DEF EffectInv, IInv
  <2>2. \A s \in Steps : EffectPermits(s)'
    BY EffectStep DEF EffectInv
  <2> QED BY <2>1, <2>2 DEF EffectInv
<1>3. EffectInv => EffectsAtMostOnce
  <2> SUFFICES ASSUME EffectInv, NEW s \in Steps
               PROVE  effects[s] <= 1 + refused[s] + late[s]
    BY DEF EffectsAtMostOnce
  <2>1. /\ effects[s] \in Nat /\ refused[s] \in Nat /\ late[s] \in Nat
        /\ Cardinality(Standing(ToDo, s)) \in Nat /\ Bit(Open(s)) \in {0, 1}
    BY FS_CardinalityType DEF EffectInv, IInv, Base, TypeOK, WorkerTypeOK, EffectPermits, Bit
  <2> QED BY <2>1 DEF EffectInv, EffectPermits
<1> QED BY <1>1, <1>2, <1>3, PTL DEF Spec

--------------------------------------------------------------------------------
\* So do those for entries into the function.
LEMMA StartStep ==
  ASSUME IInv, [Next]_claimVars, NEW t \in Steps, StartPermits(t)
  PROVE  StartPermits(t)'
<1> DEFINE n == Cardinality(Standing(Entering, t))
<1>1. /\ started[t] \in Nat /\ attempt[t] \in Nat /\ late[t] \in Nat /\ n \in Nat
      /\ Bit(Unentered(t)) \in {0, 1} /\ Bit(Unentered(t)') \in {0, 1}
  BY FS_CardinalityType DEF IInv, Base, TypeOK, WorkerTypeOK, StartPermits, Bit
<1>2. CASE UNCHANGED <<pc, at, guarded>> /\ late'[t] = late[t] /\ SameRows({t})
  <2>1. Standing(Entering, t)' = Standing(Entering, t)
    BY <1>2 DEF Standing
  <2>2. Unentered(t)' <=> Unentered(t)
    BY <1>2, <2>1 DEF Unentered, SameRows
  <2> QED BY <1>2, <2>1, <2>2 DEF StartPermits, SameRows, Bit
<1>3. CASE WorkerNext
  <2>1. guarded' = guarded /\ late' = late
    BY <1>3, WorkerTable
  <2>2. CASE UNCHANGED <<pc, at>> /\ SameRows(Steps)
    BY <1>2, <2>1, <2>2 DEF SameRows
  <2>3. ASSUME NEW w \in Workers, Moved(w), SameRows(Steps), pc[w] \notin OwnerPC, pc'[w] \notin OwnerPC
        PROVE  StartPermits(t)'
    <3>1. Standing(Entering, t)' = Standing(Entering, t)
      BY <2>3 DEF Standing, Entering, OwnerPC, Moved
    <3>2. Unentered(t)' <=> Unentered(t)
      BY <2>1, <2>3, <3>1 DEF Unentered, SameRows
    <3> QED BY <2>1, <2>3, <3>1, <3>2 DEF StartPermits, SameRows, Bit
  <2>4. ASSUME NEW w \in Workers, NEW s \in Steps, Moved(w), HoldersMove(w, s), SameRows(Steps \ {s})
        PROVE  StartPermits(t)'
    <3>1. CASE s # t
      <4>1. at[w] = s /\ (at'[w] = s \/ pc'[w] = "idle")
        BY <2>4 DEF HoldersMove, Claims, Enters, Ends, Records, Wakes, Vanishes, Holding
      <4>2. Standing(Entering, t)' = Standing(Entering, t)
        BY <2>4, <3>1, <4>1 DEF Standing, Entering, Moved
      <4>3. Unentered(t)' <=> Unentered(t)
        BY <2>1, <2>4, <3>1, <4>2 DEF Unentered, SameRows
      <4> QED BY <2>1, <2>4, <3>1, <4>2, <4>3 DEF StartPermits, SameRows, Bit
    <3>2. CASE s = t
      <4>1. /\ IsFiniteSet(Standing(Entering, t)')
            /\ Cardinality(Standing(Entering, t)') = n + Bit(at'[w] = t /\ pc'[w] \in Entering)
                                                       - Bit(at[w] = t /\ pc[w] \in Entering)
        BY <2>4, OneMoves DEF StartPermits
      <4>2. ASSUME pc[w] # "markRunning", pc'[w] # "markRunning"
            PROVE  /\ Standing(Entering, t)' = Standing(Entering, t)
                   /\ Cardinality(Standing(Entering, t)') = n
        BY <2>4, <4>2 DEF Standing, Entering, Moved
      <4> USE <2>1, <2>4, <3>2 DEF StartPermits
      <4>3. CASE Claims(w, s) /\ pc'[w] = "markRunning"
        <5>1. Unentered(t)
          BY <4>3 DEF Claims, Unentered, Standing, Entering, Locks
        <5>2. ~Unentered(t)'
          BY <4>3 DEF Claims, Holding, Unentered, Standing, Entering
        <5>3. Cardinality(Standing(Entering, t)') = n + 1
          BY <1>1, <4>1, <4>3 DEF Claims, Holding, Entering, OwnerPC, Bit
        <5> QED BY <1>1, <4>1, <4>3, <5>1, <5>2, <5>3 DEF Claims, Bit
      <4>4. CASE Claims(w, s) /\ pc'[w] # "markRunning"
        <5>1. Cardinality(Standing(Entering, t)') = n
          BY <4>2, <4>4 DEF Claims, OwnerPC
        <5>2. ~Unentered(t) /\ ~Unentered(t)'
          BY <4>4 DEF Claims, Unentered
        <5> QED BY <4>1, <4>4, <5>1, <5>2 DEF Claims, Bit
      <4>5. CASE Enters(w, s)
        <5>1. ~Unentered(t)'
          BY <4>5 DEF Enters, Unentered
        <5>2. CASE pc[w] = "markRunning"
          <6>1. Cardinality(Standing(Entering, t)') = n - 1
            BY <1>1, <4>1, <4>5, <5>2 DEF Enters, Holding, Entering, Bit
          <6> QED BY <1>1, <4>1, <4>5, <5>1, <5>2, <6>1 DEF Enters, Bit
        <5>3. CASE pc[w] = "newAttempt"
          <6>1. Cardinality(Standing(Entering, t)') = n
            BY <4>2, <4>5, <5>3 DEF Enters
          <6> QED BY <1>1, <4>1, <4>5, <5>1, <5>3, <6>1 DEF Enters, Bit
        <5> QED BY <4>5, <5>2, <5>3 DEF Enters
      <4>6. CASE Ends(w, s) \/ Wakes(w, s)
        <5>1. /\ Standing(Entering, t)' = Standing(Entering, t)
              /\ status'[t] = status[t] /\ attempt'[t] = attempt[t] /\ started'[t] = started[t]
          BY <4>2, <4>6 DEF Ends, Wakes
        <5>2. Unentered(t)' <=> Unentered(t)
          BY <5>1 DEF Unentered
        <5> QED BY <4>1, <5>1, <5>2 DEF Bit
      <4>7. CASE Records(w, s)
        <5>1. Cardinality(Standing(Entering, t)') = n
          BY <4>2, <4>7 DEF Records, OwnerPC
        <5>2. ~Unentered(t)'
          BY <4>7 DEF Records, Unentered
        <5> QED BY <1>1, <4>1, <4>7, <5>1, <5>2 DEF Records, Bit
      <4>8. CASE Vanishes(w, s)
        <5>1. CASE pc[w] = "markRunning"
          <6>1. Cardinality(Standing(Entering, t)') = n - 1
            BY <1>1, <4>1, <4>8, <5>1 DEF Vanishes, Entering, Bit
          <6> QED BY <1>1, <4>1, <4>8, <6>1 DEF Vanishes, SameRows
        <5>2. CASE pc[w] # "markRunning"
          <6>1. /\ Standing(Entering, t)' = Standing(Entering, t)
                /\ status'[t] = status[t] /\ attempt'[t] = attempt[t] /\ started'[t] = started[t]
            BY <4>2, <4>8, <5>2 DEF Vanishes, SameRows
          <6>2. Unentered(t)' <=> Unentered(t)
            BY <6>1 DEF Unentered
          <6> QED BY <4>1, <6>1, <6>2 DEF Bit
        <5> QED BY <5>1, <5>2
      <4> QED BY <4>3, <4>4, <4>5, <4>6, <4>7, <4>8 DEF HoldersMove
    <3> QED BY <3>1, <3>2
  <2> QED BY <1>3, <2>2, <2>3, <2>4, WorkerTable
<1>4. ASSUME NEW s \in Steps, Redispatch(s) PROVE StartPermits(t)'
  BY <1>2, <1>4 DEF Redispatch, rows, workerState, history, faults, SameRows
<1>5. ASSUME NEW s \in Steps, Mark(s) PROVE StartPermits(t)'
  <2>1. /\ UNCHANGED <<pc, at, guarded, effects, refused, attempt, started>>
        /\ \A x \in Steps \ {s} : status'[x] = status[x] /\ late'[x] = late[x]
    BY <1>5 DEF Mark, setStepScheduled, SetStatus, workerState, history, IInv, Base, TypeOK, WorkerTypeOK
  <2>2. CASE s # t
    BY <1>2, <2>1, <2>2 DEF SameRows
  <2>3. CASE s = t
    <3>1. Standing(Entering, t)' = Standing(Entering, t)
      BY <2>1 DEF Standing
    <3>2. CASE status[t] \in {"pending", "scheduled"}
      <4>1. late'[t] = late[t] /\ status'[t] = "scheduled"
        BY <1>5, <2>3, <3>2 DEF Mark, setStepScheduled, SetStatus, IInv, Base, TypeOK, WorkerTypeOK
      <4>2. Unentered(t)' <=> Unentered(t)
        BY <2>1, <3>1, <3>2, <4>1 DEF Unentered
      <4> QED BY <2>1, <3>1, <4>1, <4>2 DEF StartPermits, Bit
    <3>3. CASE status[t] \notin {"pending", "scheduled"}
      <4>1. late'[t] = late[t] + 1
        BY <1>5, <2>3, <3>3 DEF Mark, setStepScheduled, IInv, Base, TypeOK, WorkerTypeOK
      <4> QED BY <1>1, <2>1, <3>1, <4>1 DEF StartPermits
    <3> QED BY <3>2, <3>3
  <2> QED BY <2>2, <2>3
<1>6. CASE UNCHANGED claimVars
  BY <1>2, <1>6 DEF claimVars, workerVars, rows, workerState, history, faults, SameRows
<1> QED BY <1>3, <1>4, <1>5, <1>6 DEF Next

\* The attempt number of a step's row covers every entry into its function that
\* no late mark let in (createRetryAttempt, setStepScheduled).
THEOREM AttemptsCover == Spec => []AttemptsCoverStarts
<1>1. Init => StartInv
  <2> SUFFICES ASSUME Init, NEW s \in Steps PROVE StartPermits(s)
    BY InitIInv DEF StartInv
  <2>1. Standing(Entering, s) = {}
    BY DEF Init, WorkersInit, Standing, Entering
  <2>2. IsFiniteSet(Standing(Entering, s)) /\ Cardinality(Standing(Entering, s)) = 0
    BY <2>1, FS_EmptySet
  <2> QED BY <2>2 DEF StartPermits, Init, WorkersInit, Bit
<1>2. StartInv /\ [Next]_claimVars => StartInv'
  <2> SUFFICES ASSUME StartInv, [Next]_claimVars PROVE StartInv'
    OBVIOUS
  <2>1. IInv'
    BY BaseStep, GuardStep DEF StartInv, IInv
  <2>2. \A s \in Steps : StartPermits(s)'
    BY StartStep DEF StartInv
  <2> QED BY <2>1, <2>2 DEF StartInv
<1>3. StartInv => AttemptsCoverStarts
  <2> SUFFICES ASSUME StartInv, NEW s \in Steps
               PROVE  started[s] <= attempt[s] + late[s]
    BY DEF AttemptsCoverStarts
  <2>1. /\ started[s] \in Nat /\ attempt[s] \in Nat /\ late[s] \in Nat
        /\ Cardinality(Standing(Entering, s)) \in Nat /\ Bit(Unentered(s)) \in {0, 1}
    BY FS_CardinalityType DEF StartInv, IInv, Base, TypeOK, WorkerTypeOK, StartPermits, Bit
  <2> QED BY <2>1 DEF StartInv, StartPermits
<1> QED BY <1>1, <1>2, <1>3, PTL DEF Spec
================================================================================
