------------------------------ MODULE StepWorkers ------------------------------
(***************************************************************************)
(* The step workers of one durable workflow run: what a worker process     *)
(* does with a job of the step queue, from the delivery of the job to its  *)
(* acknowledgement, over the step rows of a @pikku/kysely store.           *)
(*                                                                         *)
(* Every await of executeWorkflowStepInner is a place where other workers  *)
(* and the orchestrator may run, so each database or queue call is an      *)
(* action of its own and what was read before it is kept in the worker.    *)
(* This module has the state and the worker's actions; StepClaim closes it *)
(* with an environment, WorkflowEngine with the orchestrator.              *)
(***************************************************************************)
EXTENDS Naturals, FiniteSets

CONSTANTS
  Steps,            \* the physical step keys of the run (name, name#1, ...)
  Workers,          \* step worker slots
  Jobs,             \* identities of the step jobs that may be enqueued
  None,             \* no job / no step / no worker
  Retries,          \* [Steps -> Nat]: the retry policy recorded on the row
  OrchAttempts,     \* attempts of an orchestrator job (stepJobOptions)
  ClaimKinds,       \* the values guarded may have, see below
  QueueMayFail,     \* may queue.add throw?
  RpcMayBeMissing,  \* may a step's function be undeployed?
  MaxCrashes,       \* how many worker crashes a behaviour may have
  MaxRedeliveries   \* how often the queue may take a slow worker for dead

ASSUME NoneAssumption == None \notin Steps \cup Workers \cup Jobs
ASSUME RetriesAssumption == Retries \in [Steps -> Nat]
ASSUME AttemptsAssumption == OrchAttempts \in Nat \ {0}
ASSUME SwitchAssumption ==
  ClaimKinds \cup {QueueMayFail, RpcMayBeMissing} \subseteq BOOLEAN
ASSUME BudgetAssumption == MaxCrashes \in Nat /\ MaxRedeliveries \in Nat

VARIABLES
  runStatus,   \* status of the run row
  status,      \* status of each step row, "absent" before it is inserted
  attempt,     \* currentAttempt of each step row
  job,         \* the step queue
  wakes,       \* orchestrator jobs by the attempts they have left
  pc,          \* where each worker stands in executeWorkflowStepInner
  mine,        \* the job each worker was handed
  at,          \* the step that job names
  under,       \* the attemptCount of the state each worker runs under
  started,     \* history: how often the function of each step was entered
  effects,     \* history: how often it returned, its side effects done
  guarded,     \* the store the run lives in: TRUE if it claims by conditional
               \* UPDATE (kysely), FALSE if by claimStepByReadThenWrite under a
               \* withStepLock that excludes
  crashes,     \* worker crashes so far
  redelivered, \* slow workers the queue has taken for dead so far
  refused,     \* history: wakes of each finished step that the queue refused
  late,        \* history: how often each row was marked scheduled after it
               \* had been claimed or settled
  unheard,     \* history: workers that died with the verdict on their job
               \* reached and not yet heard by the queue
  missing      \* history: has a step's function been found undeployed?

rows == <<runStatus, status, attempt>>
queues == <<job, wakes>>
workerState == <<pc, mine, at, under>>
history == <<started, effects>>
faults == <<guarded, crashes, redelivered, refused, late, unheard, missing>>
workerVars == <<rows, queues, workerState, history, faults>>

StepStatus == {"absent", "pending", "scheduled", "running", "succeeded", "failed"}
RunStatus == {"running", "suspended", "completed", "failed", "cancelled"}
WORKFLOW_TERMINAL_STATES == {"completed", "failed", "cancelled"}
WorkerPC == {"idle", "load", "claimFresh", "claimFailed", "markRunning",
             "newAttempt", "exec", "result", "resume", "error", "lastResume",
             "missing", "suspendRun", "ack", "nack"}
Job == [state : {"free", "ready", "active", "done"},
        step : Steps \cup {None}, left : Nat, owner : Workers \cup {None}]
JobRecord(v, s, n, o) == [state |-> v, step |-> s, left |-> n, owner |-> o]
FreeJob == JobRecord("free", None, 0, None)
DoneJob == JobRecord("done", None, 0, None)

StepJob_OneMore(s) == JobRecord("ready", s, Retries[s] + 2, None)
\* The job of one dispatch: attempts is the retry policy plus the first try.
StepJob(s) == JobRecord("ready", s, Retries[s] + 1, None)

\* queueStepWorker / dispatchStep: one more job for step s. Which of the free
\* identities it gets does not matter.
EnqueueStep(s) ==
  /\ \E j \in Jobs : job[j] = FreeJob
  /\ job' = [job EXCEPT ![CHOOSE j \in Jobs : job[j] = FreeJob] = StepJob(s)]

resumeWorkflow_Twice == wakes' = [wakes EXCEPT ![OrchAttempts] = @ + 2]
\* resumeWorkflow: one more orchestrator job for the run.
resumeWorkflow == wakes' = [wakes EXCEPT ![OrchAttempts] = @ + 1]

NextAttempt_SameNumber(s) == attempt[s]
\* createRetryAttempt numbers the new attempt after the one that failed.
NextAttempt(s) == attempt[s] + 1

SetStatus(s, v) == status' = [status EXCEPT ![s] = v]

\* setStepScheduled, by whoever has queued a job of the step: an unconditional
\* UPDATE, also of a row that was claimed or settled in the meantime.
setStepScheduled(s) ==
  /\ SetStatus(s, "scheduled")
  /\ late' = IF status[s] \in {"pending", "scheduled"} THEN late
             ELSE [late EXCEPT ![s] = @ + 1]

Goto(w, l) == pc' = [pc EXCEPT ![w] = l]

\* A worker whose handler is over, and its job settled.
Leave(w) == /\ Goto(w, "idle")
            /\ mine' = [mine EXCEPT ![w] = None]
            /\ at' = [at EXCEPT ![w] = None]
            /\ under' = [under EXCEPT ![w] = 0]

\* The queue heeds a worker's verdict only while it still owns the delivery.
Owns(w) == job[mine[w]].owner = w

\* The handler returned: the job is complete.
Ack(w) == job' = IF Owns(w) THEN [job EXCEPT ![mine[w]] = DoneJob] ELSE job

\* The next delivery of a job whose handler threw.
Again(r) == JobRecord("ready", r.step, r.left - 1, None)

Nack_NoBudget(w) ==
  job' = IF Owns(w) THEN [job EXCEPT ![mine[w]] = Again(@)] ELSE job
\* The handler threw: the queue runs the job again while it has attempts left.
Nack(w) ==
  job' = IF Owns(w)
         THEN [job EXCEPT ![mine[w]] = IF @.left > 1 THEN Again(@) ELSE DoneJob]
         ELSE job

--------------------------------------------------------------------------------
\* The queue hands a ready job to an idle worker.
Deliver(w, j) ==
  /\ pc[w] = "idle"
  /\ job[j].state = "ready"
  /\ job' = [job EXCEPT ![j] = JobRecord("active", @.step, @.left, w)]
  /\ Goto(w, "load")
  /\ mine' = [mine EXCEPT ![w] = j]
  /\ at' = [at EXCEPT ![w] = job[j].step]
  /\ UNCHANGED <<rows, wakes, under, history, faults>>

LockFree_Never(w) == TRUE
\* Nobody else is between the read and the write of a claim on this step.
LockFree(w) == \A v \in Workers \ {w} :
                 at[v] = at[w] => pc[v] \notin {"markRunning", "newAttempt"}

\* The step is finished, or another dispatch owns it: the claim is null and the
\* handler returns, having written nothing.
LoadOwned(w) ==
  /\ pc[w] = "load"
  /\ guarded \/ LockFree(w)
  /\ status[at[w]] \in {"succeeded", "running"}
  /\ Ack(w)
  /\ Leave(w)
  /\ UNCHANGED <<rows, wakes, history, faults>>

\* The first half of claimStepForExecution: what the row says decides which
\* write follows. Under a guarded claim that write is conditional; under
\* claimStepByReadThenWrite it is not, and the step lock spans both.
LoadClaimable(w) ==
  /\ pc[w] = "load"
  /\ guarded \/ LockFree(w)
  /\ status[at[w]] \in {"pending", "scheduled", "failed"}
  /\ under' = [under EXCEPT ![w] = attempt[at[w]]]
  /\ Goto(w, IF status[at[w]] = "failed"
             THEN IF guarded THEN "claimFailed" ELSE "newAttempt"
             ELSE IF guarded THEN "claimFresh" ELSE "markRunning")
  /\ UNCHANGED <<rows, queues, mine, at, history, faults>>

ClaimableFrom_Running(l) == IF l = "claimFailed" THEN {"failed"}
                            ELSE {"pending", "scheduled", "running"}
ClaimableFrom_Any(l) == {"pending", "scheduled", "failed", "succeeded"}
\* The statuses claimStepStatus moves a row from, per branch of the claim.
ClaimableFrom(l) == IF l = "claimFailed" THEN {"failed"} ELSE {"pending", "scheduled"}

\* claimStepStatus updated a row: this worker has moved the step to running.
ClaimWon(w) ==
  /\ pc[w] \in {"claimFresh", "claimFailed"}
  /\ status[at[w]] \in ClaimableFrom(pc[w])
  /\ SetStatus(at[w], "running")
  /\ Goto(w, IF pc[w] = "claimFailed" THEN "newAttempt" ELSE "markRunning")
  /\ UNCHANGED <<runStatus, attempt, queues, mine, at, under, history, faults>>

\* claimStepStatus updated nothing: another dispatch won, the claim is null.
ClaimLost(w) ==
  /\ pc[w] \in {"claimFresh", "claimFailed"}
  /\ status[at[w]] \notin ClaimableFrom(pc[w])
  /\ Ack(w)
  /\ Leave(w)
  /\ UNCHANGED <<rows, wakes, history, faults>>

\* The claim is settled: the step's function is invoked.
EnterFunction(w) == /\ Goto(w, "exec")
                    /\ started' = [started EXCEPT ![at[w]] = @ + 1]

\* setStepRunning after a first claim.
MarkRunning(w) ==
  /\ pc[w] = "markRunning"
  /\ SetStatus(at[w], "running")
  /\ EnterFunction(w)
  /\ UNCHANGED <<runStatus, attempt, queues, mine, at, under, effects, faults>>

\* createRetryAttempt after the claim of a failed step.
NewAttempt(w) ==
  /\ pc[w] = "newAttempt"
  /\ SetStatus(at[w], "running")
  /\ attempt' = [attempt EXCEPT ![at[w]] = NextAttempt(at[w])]
  /\ under' = [under EXCEPT ![w] = NextAttempt(at[w])]
  /\ EnterFunction(w)
  /\ UNCHANGED <<runStatus, queues, mine, at, effects, faults>>

--------------------------------------------------------------------------------
\* invokeStepRpc returned: the side effects of the step are done.
RpcReturns(w) ==
  /\ pc[w] = "exec"
  /\ effects' = [effects EXCEPT ![at[w]] = @ + 1]
  /\ Goto(w, "result")
  /\ UNCHANGED <<rows, queues, mine, at, under, started, faults>>

\* invokeStepRpc threw.
RpcThrows(w) ==
  /\ pc[w] = "exec"
  /\ Goto(w, "error")
  /\ UNCHANGED <<rows, queues, mine, at, under, history, faults>>

\* invokeStepRpc threw RPCNotFoundError.
RpcNotFound(w) ==
  /\ pc[w] = "exec"
  /\ RpcMayBeMissing
  /\ Goto(w, "missing")
  /\ missing' = TRUE
  /\ UNCHANGED <<rows, queues, mine, at, under, history, guarded, crashes,
                 redelivered, refused, late, unheard>>

\* setStepResult.
WriteResult(w) ==
  /\ pc[w] = "result"
  /\ SetStatus(at[w], "succeeded")
  /\ Goto(w, "resume")
  /\ UNCHANGED <<runStatus, attempt, queues, mine, at, under, history, faults>>

\* resumeWorkflow after the result: the orchestrator is woken.
Resume(w) ==
  /\ pc[w] = "resume"
  /\ resumeWorkflow
  /\ Goto(w, "ack")
  /\ UNCHANGED <<rows, job, mine, at, under, history, faults>>

\* That call is inside the try: if it throws, the step takes the error path.
ResumeThrows(w) ==
  /\ pc[w] = "resume"
  /\ QueueMayFail
  /\ Goto(w, "error")
  /\ refused' = [refused EXCEPT ![at[w]] = @ + 1]
  /\ UNCHANGED <<rows, queues, mine, at, under, history, guarded, crashes,
                 redelivered, late, unheard, missing>>

Exhausted_Early(w) == under[w] >= Retries[at[w]]
\* retriesExhausted, judged on the state the worker claimed under.
Exhausted(w) == under[w] >= Retries[at[w]] + 1

\* setStepError; while attempts are left the error is rethrown at once.
WriteError(w) ==
  /\ pc[w] = "error"
  /\ SetStatus(at[w], "failed")
  /\ Goto(w, IF Exhausted(w) THEN "lastResume" ELSE "nack")
  /\ UNCHANGED <<runStatus, attempt, queues, mine, at, under, history, faults>>

\* The last attempt failed: the orchestrator is woken to fail the run, unless
\* the queue refuses that too. The error is rethrown either way.
LastResume(w) ==
  /\ pc[w] = "lastResume"
  /\ \/ resumeWorkflow
     \/ QueueMayFail /\ UNCHANGED wakes
  /\ Goto(w, "nack")
  /\ UNCHANGED <<rows, job, mine, at, under, history, faults>>

\* RPCNotFoundError: setStepError, then the run is suspended.
WriteMissing(w) ==
  /\ pc[w] = "missing"
  /\ SetStatus(at[w], "failed")
  /\ Goto(w, "suspendRun")
  /\ UNCHANGED <<runStatus, attempt, queues, mine, at, under, history, faults>>

SuspendRun(w) ==
  /\ pc[w] = "suspendRun"
  /\ runStatus' = "suspended"
  /\ Goto(w, "ack")
  /\ UNCHANGED <<status, attempt, queues, mine, at, under, history, faults>>

\* The handler has returned, or thrown, and the queue hears of it.
JobCompletes(w) ==
  /\ pc[w] = "ack"
  /\ Ack(w)
  /\ Leave(w)
  /\ UNCHANGED <<rows, wakes, history, faults>>

JobFails(w) ==
  /\ pc[w] = "nack"
  /\ Nack(w)
  /\ Leave(w)
  /\ UNCHANGED <<rows, wakes, history, faults>>

--------------------------------------------------------------------------------
\* The worker's process dies, its delivery neither completed nor failed.
Crash(w) ==
  /\ pc[w] # "idle"
  /\ crashes < MaxCrashes
  /\ crashes' = crashes + 1
  /\ unheard' = IF pc[w] \in {"ack", "nack"} THEN unheard + 1 ELSE unheard
  /\ Leave(w)
  /\ UNCHANGED <<rows, queues, history, guarded, redelivered, refused, late, missing>>

\* At-least-once delivery: the queue hands an active job out again because its
\* worker died or, within the budget, because it takes a slow one for dead.
Redeliver(j) ==
  /\ job[j].state = "active"
  /\ \/ mine[job[j].owner] # j /\ UNCHANGED redelivered
     \/ redelivered < MaxRedeliveries /\ redelivered' = redelivered + 1
  /\ job' = [job EXCEPT ![j] = JobRecord("ready", @.step, @.left, None)]
  /\ UNCHANGED <<rows, wakes, workerState, history, guarded, crashes, refused,
                 late, unheard, missing>>

\* One step of worker w's handler.
Handle(w) ==
  \/ LoadOwned(w) \/ LoadClaimable(w) \/ ClaimWon(w) \/ ClaimLost(w)
  \/ MarkRunning(w) \/ NewAttempt(w)
  \/ RpcReturns(w) \/ RpcThrows(w) \/ RpcNotFound(w)
  \/ WriteResult(w) \/ Resume(w) \/ ResumeThrows(w)
  \/ WriteError(w) \/ LastResume(w) \/ WriteMissing(w) \/ SuspendRun(w)
  \/ JobCompletes(w) \/ JobFails(w)

WorkerNext ==
  \/ \E w \in Workers : Handle(w) \/ Crash(w) \/ \E j \in Jobs : Deliver(w, j)
  \/ \E j \in Jobs : Redeliver(j)

\* A worker that owns the execution of its step: from the claim until its
\* outcome stands - a refused wake still turns a success into an error.
Owner(w) == pc[w] \in {"markRunning", "newAttempt", "exec", "result", "resume",
                       "error", "missing"}

\* The types of the worker side, for the modules that add to it.
WorkerTypeOK ==
  /\ runStatus \in RunStatus
  /\ status \in [Steps -> StepStatus]
  /\ attempt \in [Steps -> Nat]
  /\ job \in [Jobs -> Job]
  /\ wakes \in [1..OrchAttempts -> Nat]
  /\ pc \in [Workers -> WorkerPC]
  /\ mine \in [Workers -> Jobs \cup {None}]
  /\ at \in [Workers -> Steps \cup {None}]
  /\ under \in [Workers -> Nat]
  /\ started \in [Steps -> Nat]
  /\ effects \in [Steps -> Nat]
  /\ guarded \in BOOLEAN
  /\ crashes \in Nat
  /\ redelivered \in Nat
  /\ refused \in [Steps -> Nat]
  /\ late \in [Steps -> Nat]
  /\ unheard \in Nat
  /\ missing \in BOOLEAN

WorkersInit ==
  /\ job = [j \in Jobs |-> FreeJob]
  /\ pc = [w \in Workers |-> "idle"]
  /\ mine = [w \in Workers |-> None]
  /\ at = [w \in Workers |-> None]
  /\ under = [w \in Workers |-> 0]
  /\ started = [s \in Steps |-> 0]
  /\ effects = [s \in Steps |-> 0]
  /\ guarded \in ClaimKinds
  /\ crashes = 0
  /\ redelivered = 0
  /\ refused = [s \in Steps |-> 0]
  /\ late = [s \in Steps |-> 0]
  /\ unheard = 0
  /\ missing = FALSE
================================================================================
