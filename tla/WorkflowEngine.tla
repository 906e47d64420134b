---------------------------- MODULE WorkflowEngine ----------------------------
(***************************************************************************)
(* One durable DSL workflow run: orchestrator passes that replay the       *)
(* workflow body over the step rows, the step workers of StepWorkers, the  *)
(* sleeper, and the sweeps that re-drive a run whose next move was lost.   *)
(*                                                                         *)
(* A pass (runWorkflowJob) takes an orchestrator job, reads the step rows  *)
(* once, checks that the run is not settled, waits for the run lock and    *)
(* then calls the body, which reaches its steps in order.  A reached step  *)
(* returns its recorded result, or parks the pass until a worker or timer  *)
(* has done it, or is run by the pass itself.  Passes in one process share *)
(* the run's RunContext: the step ordinals, the snapshot and the run row.  *)
(***************************************************************************)
EXTENDS StepWorkers, Sequences

CONSTANTS
  Program,     \* the step names the body reaches, in order
  Kind,        \* per name: "queued" | "local" (RPC) | "inline" | "sleep" | "suspend"
  Together,    \* the calls made in one Promise.all with the call after them
  OnError,     \* per name: the compensation step's name, or None
  Passes,      \* orchestrator slots
  Processes,   \* the processes they run in
  ProcessOf,   \* [Passes -> Processes]
  RunLock,     \* does withRunLock exclude (Postgres, MySQL) or pass through?
  MaxSweeps,   \* how often the sweeps may re-drive the run
  MaxResumes,  \* how often a user may resume it while it is suspended
  MaxDeaths    \* how many orchestrator passes may die

Names == DOMAIN Kind

\* nextStepKey: `name` for the first reach, `name#n` for the n-th repeat.
StepKey(n, ordinal) == <<n, ordinal>>

Calls == 1..Len(Program)
\* The key the i-th call of the program has in an undisturbed replay.
KeyOf(i) == StepKey(Program[i], Cardinality({j \in 1..i - 1 : Program[j] = Program[i]}))

ASSUME ProgramAssumption ==
  /\ Program \in Seq(Names) /\ Program # <<>>
  /\ \A i \in Calls : KeyOf(i) \in Steps
  /\ Kind \in [Names -> {"queued", "local", "inline", "sleep", "suspend"}]
  /\ OnError \in [Names -> Names \cup {None}]
  \* The groups of concurrent calls modelled are queued RPCs.
  /\ Together \subseteq 1..Len(Program) - 1
  /\ \A i \in Together, k \in {0, 1} :
       Kind[Program[i + k]] = "queued" /\ OnError[Program[i + k]] = None
  \* runStepCompensation: a step of its own, named `<key>:onError` as no call of
  \* the body is, and never retried. A repeated name would multiply it.
  /\ \A n \in Names, i \in Calls : OnError[n] # Program[i]
  /\ \A n \in Names, s \in Steps : s[1] = OnError[n] => Retries[s] = 0
  /\ \A i, j \in DOMAIN Program :
       i # j /\ Program[i] = Program[j] => OnError[Program[i]] = None
\* A compensation is named after its step, and has a row as the step has.
ASSUME HandlerAssumption ==
  /\ \A m, n \in Names : OnError[m] = OnError[n] /\ OnError[m] # None => m = n
  /\ \A n \in Names : OnError[n] # None =>
       StepKey(n, 0) \in Steps /\ StepKey(OnError[n], 0) \in Steps
ASSUME ProcessAssumption == ProcessOf \in [Passes -> Processes]
ASSUME EngineSwitches == RunLock \in BOOLEAN
ASSUME EngineBudgets == {MaxSweeps, MaxResumes, MaxDeaths} \subseteq Nat

VARIABLES
  ordinals,  \* RunContext.ordinals: repeats of each name, per process
  snapshot,  \* RunContext.replay.steps: rows as read, per process
  snapped,   \* has that snapshot been read yet?
  cachedRun, \* RunContext.replay.run: status of the cached run row, or None
  ppc,       \* where each pass stands
  pos,       \* the call of Program it is in
  comp,      \* is it running that call's compensation?
  waits,     \* has a call of its Promise.all group parked?
  key,       \* the step key it is working on
  tryNo,     \* attemptCount of the step state it runs under
  left,      \* attempts left of its orchestrator job
  armed,     \* sleep timers set per step
  fired,     \* timers whose step is done, their resume still to come
  sweeps,    \* re-drives so far
  resumes,   \* resumes so far
  deaths,    \* pass deaths so far
  contextShared \* history: has a replay begun in a process another one was in?

contextVars == <<ordinals, snapshot, snapped, cachedRun>>
passVars == <<ppc, pos, comp, waits, key, tryNo, left>>
timerVars == <<armed, fired>>
budgetVars == <<sweeps, resumes, deaths, contextShared>>
vars == <<workerVars, contextVars, passVars, timerVars, budgetVars>>

PassPC == {"idle", "read", "check", "lock", "call", "dispatch", "mark", "begin",
           "body", "store", "raise", "retry", "rearm", "missing", "failRun",
           "failAgain", "dispatchFailed", "park", "complete",
           "open", "record", "suspend"}

Ctx(p) == ProcessOf[p]
NoRows == [s \in Steps |-> [status |-> "absent", attempt |-> 0]]
Row(s) == [status |-> status[s], attempt |-> attempt[s]]
\* A run that is over, and takes no further pass.
isRunSettled(v) == v \in WORKFLOW_TERMINAL_STATES

\* The calls between taking the run lock and giving it back.
InBody(p) == ppc[p] \in PassPC \ {"idle", "read", "check", "lock", "failAgain"}

PassGoto(p, l) == ppc' = [ppc EXCEPT ![p] = l]

ClearOrdinals_Kept(c) == UNCHANGED ordinals
\* context.ordinals = new Map().
ClearOrdinals(c) == ordinals' = [ordinals EXCEPT ![c] = [n \in Names |-> 0]]

\* exitExecution: the last pass out of a process clears the run's context.
ExitExecution(p) ==
  IF \E q \in Passes \ {p} : Ctx(q) = Ctx(p) /\ ppc[q] # "idle"
  THEN UNCHANGED contextVars
  ELSE /\ ClearOrdinals(Ctx(p))
       /\ snapshot' = [snapshot EXCEPT ![Ctx(p)] = NoRows]
       /\ snapped' = [snapped EXCEPT ![Ctx(p)] = FALSE]
       /\ cachedRun' = [cachedRun EXCEPT ![Ctx(p)] = None]

\* The pass is over; its slot is free again.
PassLeave(p) ==
  /\ ExitExecution(p)
  /\ PassGoto(p, "idle")
  /\ pos' = [pos EXCEPT ![p] = 1]
  /\ comp' = [comp EXCEPT ![p] = FALSE]
  /\ waits' = [waits EXCEPT ![p] = FALSE]
  /\ key' = [key EXCEPT ![p] = None]
  /\ tryNo' = [tryNo EXCEPT ![p] = 0]
  /\ left' = [left EXCEPT ![p] = 0]

\* The orchestrator job threw: it comes back while it has attempts left.
PassNack(p) ==
  wakes' = IF left[p] > 1 THEN [wakes EXCEPT ![left[p] - 1] = @ + 1] ELSE wakes

\* The name of the call a pass is in.
CallName(p) == IF comp[p] THEN OnError[Program[pos[p]]] ELSE Program[pos[p]]
CallKind(p) == Kind[key[p][1]]

--------------------------------------------------------------------------------
\* beginReplay, up to its first await: take an orchestrator job and start the
\* run's context in this process afresh.
BeginReplay(p) ==
  /\ ppc[p] = "idle"
  /\ \E k \in 1..OrchAttempts :
       /\ wakes[k] > 0
       /\ wakes' = [wakes EXCEPT ![k] = @ - 1]
       /\ left' = [left EXCEPT ![p] = k]
  /\ ClearOrdinals(Ctx(p))
  /\ snapped' = [snapped EXCEPT ![Ctx(p)] = FALSE]
  /\ cachedRun' = [cachedRun EXCEPT ![Ctx(p)] = None]
  /\ PassGoto(p, "read")
  /\ contextShared' = (contextShared \/ \E q \in Passes \ {p} : Ctx(q) = Ctx(p) /\ ppc[q] # "idle")
  /\ UNCHANGED <<rows, job, workerState, history, faults, snapshot,
                 pos, comp, waits, key, tryNo, timerVars, sweeps, resumes, deaths>>

\* listStepStates: every row of the run, read once, before the run lock.
ReadSteps(p) ==
  /\ ppc[p] = "read"
  /\ snapshot' = [snapshot EXCEPT ![Ctx(p)] = [s \in Steps |-> Row(s)]]
  /\ snapped' = [snapped EXCEPT ![Ctx(p)] = TRUE]
  /\ PassGoto(p, "check")
  /\ UNCHANGED <<workerVars, ordinals, cachedRun, pos, comp, waits, key, tryNo, left,
                 timerVars, budgetVars>>

\* getRunIdentity and isRunSettled: a settled run is left alone.
CheckSettled(p) ==
  /\ ppc[p] = "check"
  /\ LET seen == IF cachedRun[Ctx(p)] # None THEN cachedRun[Ctx(p)] ELSE runStatus
     IN IF isRunSettled(seen)
        THEN PassLeave(p)
        ELSE /\ cachedRun' = [cachedRun EXCEPT ![Ctx(p)] = seen]
             /\ PassGoto(p, "lock")
             /\ UNCHANGED <<ordinals, snapshot, snapped, pos, comp, waits, key, tryNo, left>>
  /\ UNCHANGED <<workerVars, timerVars, budgetVars>>

\* withRunLock.
EnterBody(p) ==
  /\ ppc[p] = "lock"
  /\ RunLock => \A q \in Passes : ~InBody(q)
  /\ PassGoto(p, "call")
  /\ UNCHANGED <<workerVars, contextVars, pos, comp, waits, key, tryNo, left,
                 timerVars, budgetVars>>

Returns_PastEnd(p) ==
  IF comp[p] THEN PassGoto(p, "failRun") /\ UNCHANGED <<pos, comp, waits>>
  ELSE IF pos[p] > Len(Program)
       THEN PassGoto(p, "complete") /\ UNCHANGED <<pos, comp, waits>>
       ELSE PassGoto(p, "call") /\ pos' = [pos EXCEPT ![p] = @ + 1] /\ UNCHANGED <<comp, waits>>
Returns_OneShort(p) ==
  IF comp[p] THEN PassGoto(p, "failRun") /\ UNCHANGED <<pos, comp, waits>>
  ELSE IF pos[p] >= Len(Program) - 1
       THEN PassGoto(p, "complete") /\ UNCHANGED <<pos, comp, waits>>
       ELSE PassGoto(p, "call") /\ pos' = [pos EXCEPT ![p] = @ + 1] /\ UNCHANGED <<comp, waits>>
\* The call returned to the body, which goes on to the next one, or gives up
\* where a Promise.all ends that one of its calls rejected. The return of a
\* compensation is followed by the error it compensates for.
Returns(p) ==
  IF comp[p] THEN PassGoto(p, "failRun") /\ UNCHANGED <<pos, comp, waits>>
  ELSE IF waits[p] /\ pos[p] \notin Together
       THEN PassGoto(p, "park") /\ UNCHANGED <<pos, comp, waits>>
  ELSE IF pos[p] = Len(Program)
       THEN PassGoto(p, "complete") /\ UNCHANGED <<pos, comp, waits>>
       ELSE PassGoto(p, "call") /\ pos' = [pos EXCEPT ![p] = @ + 1] /\ UNCHANGED <<comp, waits>>

\* WorkflowAsyncException out of a call. The calls of one Promise.all have all
\* been made by then: they are taken one after the other here, and the first
\* to reject decides.
Parks(p) ==
  IF pos[p] \in Together
  THEN /\ PassGoto(p, "call")
       /\ pos' = [pos EXCEPT ![p] = @ + 1]
       /\ waits' = [waits EXCEPT ![p] = TRUE]
       /\ UNCHANGED comp
  ELSE PassGoto(p, "park") /\ UNCHANGED <<pos, comp, waits>>

\* rpcStep on a failed row: the compensation first, if there is one.
Fails(p) ==
  IF waits[p] THEN Parks(p)
  ELSE IF ~comp[p] /\ OnError[Program[pos[p]]] # None
  THEN PassGoto(p, "call") /\ comp' = [comp EXCEPT ![p] = TRUE] /\ UNCHANGED <<pos, waits>>
  ELSE PassGoto(p, "failRun") /\ UNCHANGED <<pos, comp, waits>>

Walked_Failed(v) == v \in {"succeeded", "failed"}
\* A step the replay walks past, returning its recorded result.
Walked(v) == v = "succeeded"

\* What rpcStep, inlineStep, sleepStep and recordSuspension do with the step
\* state they loaded.
Resolve(p, kind, r) ==
  CASE Walked(r.status) -> Returns(p)
    [] ~Walked(r.status) /\ kind = "suspend" ->
         /\ PassGoto(p, IF r.status = "pending" THEN "open" ELSE "record")
         /\ UNCHANGED <<pos, comp, waits>>
    [] r.status = "failed" /\ kind \in {"queued", "local"} -> Fails(p)
    [] r.status = "scheduled" /\ kind \notin {"inline", "suspend"} -> Parks(p)
    [] OTHER ->
         /\ PassGoto(p, IF kind \in {"queued", "sleep"} THEN "dispatch" ELSE "begin")
         /\ UNCHANGED <<pos, comp, waits>>

\* The body reaches a step: nextStepKey, then loadOrCreateStep - the snapshot's
\* row, or the store's (read, or re-read after a refused insert), or a new one.
\* A suspension goes by the store's row alone.
Reach(p) ==
  /\ ppc[p] = "call"
  /\ LET c == Ctx(p)
         n == CallName(p)
         k == StepKey(n, ordinals[c][n])
         shared == snapped[c] /\ Kind[n] # "suspend"
         cached == shared /\ snapshot[c][k].status # "absent"
         fresh == ~cached /\ status[k] = "absent"
         r == IF cached THEN snapshot[c][k]
              ELSE IF fresh THEN [status |-> "pending", attempt |-> 1] ELSE Row(k)
     IN /\ k \in Steps
        /\ ordinals' = [ordinals EXCEPT ![c][n] = @ + 1]
        /\ status' = IF fresh THEN [status EXCEPT ![k] = "pending"] ELSE status
        /\ attempt' = IF fresh THEN [attempt EXCEPT ![k] = 1] ELSE attempt
        /\ snapshot' = IF shared THEN [snapshot EXCEPT ![c][k] = r] ELSE snapshot
        /\ key' = [key EXCEPT ![p] = k]
        /\ tryNo' = [tryNo EXCEPT ![p] = r.attempt]
        /\ Resolve(p, Kind[n], r)
  /\ UNCHANGED <<runStatus, queues, workerState, history, faults, snapped,
                 cachedRun, left, timerVars, budgetVars>>

\* dispatchStep / scheduleSleep: the job is handed over before the row says so.
Dispatch(p) ==
  /\ ppc[p] = "dispatch"
  /\ IF CallKind(p) = "queued"
     THEN EnqueueStep(key[p]) /\ UNCHANGED armed
     ELSE armed' = [armed EXCEPT ![key[p]] = @ + 1] /\ UNCHANGED job
  /\ PassGoto(p, "mark")
  /\ UNCHANGED <<rows, wakes, workerState, history, faults, contextVars, pos,
                 comp, waits, key, tryNo, left, fired, budgetVars>>

\* The queue or the scheduler refused it: WorkflowDispatchException.
DispatchThrows(p) ==
  /\ ppc[p] = "dispatch"
  /\ QueueMayFail
  /\ PassGoto(p, "dispatchFailed")
  /\ UNCHANGED <<workerVars, contextVars, pos, comp, waits, key, tryNo, left,
                 timerVars, budgetVars>>

\* setStepScheduled, then WorkflowAsyncException.
MarkScheduled(p) ==
  /\ ppc[p] = "mark"
  /\ setStepScheduled(key[p])
  /\ Parks(p)
  /\ UNCHANGED <<runStatus, attempt, queues, workerState, history, guarded, crashes,
                 redelivered, refused, unheard, missing,
                 contextVars, key, tryNo, left, timerVars, budgetVars>>

\* The pass unwinds with WorkflowAsyncException, which orchestrateWorkflow
\* swallows: the run waits, the job is done.
Park(p) ==
  /\ ppc[p] = "park"
  /\ PassLeave(p)
  /\ UNCHANGED <<workerVars, timerVars, budgetVars>>

\* A step the pass runs itself: setStepRunning, then the function is entered.
Begin(p) ==
  /\ ppc[p] = "begin"
  /\ SetStatus(key[p], "running")
  /\ started' = [started EXCEPT ![key[p]] = @ + 1]
  /\ PassGoto(p, "body")
  /\ UNCHANGED <<runStatus, attempt, queues, workerState, effects, faults,
                 contextVars, pos, comp, waits, key, tryNo, left, timerVars, budgetVars>>

\* The step's function returns, throws, or is an RPC that is not deployed.
BodyEnds(p) ==
  /\ ppc[p] = "body"
  /\ \/ /\ PassGoto(p, "store") /\ effects' = [effects EXCEPT ![key[p]] = @ + 1]
        /\ UNCHANGED missing
     \/ PassGoto(p, "raise") /\ UNCHANGED <<effects, missing>>
     \/ /\ RpcMayBeMissing /\ CallKind(p) = "local"
        /\ PassGoto(p, "missing") /\ missing' = TRUE
        /\ UNCHANGED effects
  /\ UNCHANGED <<rows, queues, workerState, started, guarded, crashes, redelivered,
                 refused, late, unheard, contextVars, pos,
                 comp, waits, key, tryNo, left, timerVars, budgetVars>>

\* setStepResult.
StoreResult(p) ==
  /\ ppc[p] = "store"
  /\ SetStatus(key[p], "succeeded")
  /\ Returns(p)
  /\ UNCHANGED <<runStatus, attempt, queues, workerState, history, faults,
                 contextVars, key, tryNo, left, timerVars, budgetVars>>

\* setStepError; the pass retries while attemptCount < retries.
StoreError(p) ==
  /\ ppc[p] = "raise"
  /\ SetStatus(key[p], "failed")
  /\ PassGoto(p, IF tryNo[p] < Retries[key[p]] THEN "retry" ELSE "failRun")
  /\ UNCHANGED <<runStatus, attempt, queues, workerState, history, faults,
                 contextVars, pos, comp, waits, key, tryNo, left, timerVars, budgetVars>>

\* scheduleOrchestratorRetry: an orchestrator job with a single attempt.
scheduleOrchestratorRetry == wakes' = [wakes EXCEPT ![1] = @ + 1]

\* createRetryAttempt(pending): a local RPC is tried again at once, an inline
\* function by a later pass.
RetryPending(p) ==
  /\ ppc[p] = "retry"
  /\ SetStatus(key[p], "pending")
  /\ attempt' = [attempt EXCEPT ![key[p]] = NextAttempt(key[p])]
  /\ tryNo' = [tryNo EXCEPT ![p] = NextAttempt(key[p])]
  /\ PassGoto(p, IF CallKind(p) = "inline" THEN "rearm" ELSE "begin")
  /\ UNCHANGED <<runStatus, queues, workerState, history, faults, contextVars,
                 pos, comp, waits, key, left, timerVars, budgetVars>>

\* The inline step's next attempt is a later pass's; this one parks.
Rearm(p) ==
  /\ ppc[p] = "rearm"
  /\ scheduleOrchestratorRetry
  /\ PassGoto(p, "park")
  /\ UNCHANGED <<rows, job, workerState, history, faults, contextVars, pos,
                 comp, waits, key, tryNo, left, timerVars, budgetVars>>

\* recordSuspension: setStepRunning, then setStepResult at once, so that the
\* replay after the resume walks past it.
OpenSuspension(p) ==
  /\ ppc[p] = "open"
  /\ SetStatus(key[p], "running")
  /\ PassGoto(p, "record")
  /\ UNCHANGED <<runStatus, attempt, queues, workerState, history, faults,
                 contextVars, pos, comp, waits, key, tryNo, left, timerVars, budgetVars>>

RecordSuspension_Returns(p) ==
  /\ ppc[p] = "record"
  /\ SetStatus(key[p], "succeeded")
  /\ effects' = [effects EXCEPT ![key[p]] = @ + 1]
  /\ Returns(p)
  /\ UNCHANGED <<runStatus, attempt, queues, workerState, started, faults,
                 contextVars, key, tryNo, left, timerVars, budgetVars>>
RecordSuspension(p) ==
  /\ ppc[p] = "record"
  /\ SetStatus(key[p], "succeeded")
  /\ effects' = [effects EXCEPT ![key[p]] = @ + 1]
  /\ PassGoto(p, "suspend")
  /\ UNCHANGED <<runStatus, attempt, queues, workerState, started, faults,
                 contextVars, pos, comp, waits, key, tryNo, left, timerVars, budgetVars>>

\* WorkflowSuspendedException: the run waits until somebody resumes it, and the
\* job is done.
SuspendRunItself(p) ==
  /\ ppc[p] = "suspend"
  /\ runStatus' = "suspended"
  /\ PassLeave(p)
  /\ UNCHANGED <<status, attempt, queues, workerState, history, faults,
                 timerVars, budgetVars>>

\* RPCNotFoundError in the pass: the run is suspended, and the error rethrown.
SuspendMissing(p) ==
  /\ ppc[p] = "missing"
  /\ runStatus' = "suspended"
  /\ PassGoto(p, "failRun")
  /\ UNCHANGED <<status, attempt, queues, workerState, history, faults,
                 contextVars, pos, comp, waits, key, tryNo, left, timerVars, budgetVars>>

\* The generic catch of runWorkflowJobInner, then out of the run lock.
FailRun(p) ==
  /\ ppc[p] = "failRun"
  /\ runStatus' = "failed"
  /\ PassGoto(p, "failAgain")
  /\ UNCHANGED <<status, attempt, queues, workerState, history, faults,
                 contextVars, pos, comp, waits, key, tryNo, left, timerVars, budgetVars>>

\* orchestrateWorkflow writes the failure once more and rethrows.
FailAgain(p) ==
  /\ ppc[p] = "failAgain"
  /\ runStatus' = "failed"
  /\ PassNack(p)
  /\ PassLeave(p)
  /\ UNCHANGED <<status, attempt, job, workerState, history, faults,
                 timerVars, budgetVars>>

\* The same catch for a WorkflowDispatchException, which orchestrateWorkflow
\* only rethrows.
FailDispatch(p) ==
  /\ ppc[p] = "dispatchFailed"
  /\ runStatus' = "failed"
  /\ PassNack(p)
  /\ PassLeave(p)
  /\ UNCHANGED <<status, attempt, job, workerState, history, faults,
                 timerVars, budgetVars>>

\* The body returned.
Complete(p) ==
  /\ ppc[p] = "complete"
  /\ runStatus' = "completed"
  /\ PassLeave(p)
  /\ UNCHANGED <<status, attempt, queues, workerState, history, faults,
                 timerVars, budgetVars>>

\* A process that runs one pass dies; the queue hands its job out again.
Die(p) ==
  /\ ppc[p] # "idle"
  /\ \A q \in Passes \ {p} : Ctx(q) = Ctx(p) => ppc[q] = "idle"
  /\ deaths < MaxDeaths
  /\ deaths' = deaths + 1
  /\ wakes' = [wakes EXCEPT ![left[p]] = @ + 1]
  /\ PassLeave(p)
  /\ UNCHANGED <<rows, job, workerState, history, faults, timerVars, sweeps, resumes,
                 contextShared>>

--------------------------------------------------------------------------------
\* executeWorkflowSleepCompleted: the sleep step is done, whatever its row says.
SleepDone(s) ==
  /\ armed[s] > 0
  /\ armed' = [armed EXCEPT ![s] = @ - 1]
  /\ fired' = [fired EXCEPT ![s] = @ + 1]
  /\ SetStatus(s, "succeeded")
  /\ effects' = [effects EXCEPT ![s] = @ + 1]
  /\ UNCHANGED <<runStatus, attempt, queues, workerState, started, faults,
                 contextVars, passVars, budgetVars>>

SleepResume(s) ==
  /\ fired[s] > 0
  /\ fired' = [fired EXCEPT ![s] = @ - 1]
  /\ resumeWorkflow
  /\ UNCHANGED <<rows, job, workerState, history, faults, contextVars,
                 passVars, armed, budgetVars>>

Stalled_NotFailed ==
  /\ runStatus = "running"
  /\ \A s \in Steps : status[s] \notin {"running", "scheduled", "failed"}
\* findStalledRunIds: running, and nothing that is expected to complete.
Stalled == /\ runStatus = "running"
           /\ \A s \in Steps : status[s] \notin {"running", "scheduled"}

\* findUndispatchedSteps: a live run with a pending step.
Undispatched == runStatus = "running" /\ \E s \in Steps : status[s] = "pending"

\* recoverStalledRuns and relayUndispatchedSteps; how long the run has been
\* idle is left open, as "age is the only signal available".
Sweep ==
  /\ sweeps < MaxSweeps
  /\ Stalled \/ Undispatched
  /\ sweeps' = sweeps + 1
  /\ resumeWorkflow
  /\ UNCHANGED <<rows, job, workerState, history, faults, contextVars,
                 passVars, timerVars, resumes, deaths, contextShared>>

\* A user resumes a suspended run: what it waited for is there, or the missing
\* function is deployed. Nothing sets its status back to running.
UserResume ==
  /\ resumes < MaxResumes
  /\ runStatus = "suspended"
  /\ resumes' = resumes + 1
  /\ resumeWorkflow
  /\ UNCHANGED <<rows, job, workerState, history, faults, contextVars,
                 passVars, timerVars, sweeps, deaths, contextShared>>

engineVars == <<contextVars, passVars, timerVars, budgetVars>>

DeliverStep(w, j) == Deliver(w, j) /\ UNCHANGED engineVars

PassStep(p) ==
  \/ ReadSteps(p) \/ CheckSettled(p) \/ EnterBody(p) \/ Reach(p)
  \/ Dispatch(p) \/ DispatchThrows(p) \/ MarkScheduled(p) \/ Park(p)
  \/ Begin(p) \/ BodyEnds(p) \/ StoreResult(p) \/ StoreError(p)
  \/ RetryPending(p) \/ Rearm(p) \/ SuspendMissing(p)
  \/ OpenSuspension(p) \/ RecordSuspension(p) \/ SuspendRunItself(p)
  \/ FailRun(p) \/ FailAgain(p) \/ FailDispatch(p) \/ Complete(p)

WorkerStep(w) == Handle(w) /\ UNCHANGED engineVars

Init ==
  /\ WorkersInit
  /\ runStatus = "running"
  /\ status = [s \in Steps |-> "absent"]
  /\ attempt = [s \in Steps |-> 0]
  \* startWorkflow creates the run and wakes it, unless it dies in between
  \* and leaves the run to the stalled sweep.
  /\ \E n \in (IF MaxSweeps > 0 THEN {0, 1} ELSE {1}) :
       wakes = [k \in 1..OrchAttempts |-> IF k = OrchAttempts THEN n ELSE 0]
  /\ ordinals = [c \in Processes |-> [n \in Names |-> 0]]
  /\ snapshot = [c \in Processes |-> NoRows]
  /\ snapped = [c \in Processes |-> FALSE]
  /\ cachedRun = [c \in Processes |-> None]
  /\ ppc = [p \in Passes |-> "idle"]
  /\ pos = [p \in Passes |-> 1]
  /\ comp = [p \in Passes |-> FALSE]
  /\ waits = [p \in Passes |-> FALSE]
  /\ key = [p \in Passes |-> None]
  /\ tryNo = [p \in Passes |-> 0]
  /\ left = [p \in Passes |-> 0]
  /\ armed = [s \in Steps |-> 0]
  /\ fired = [s \in Steps |-> 0]
  /\ sweeps = 0
  /\ resumes = 0
  /\ deaths = 0
  /\ contextShared = FALSE

Next ==
  \/ \E p \in Passes : BeginReplay(p) \/ PassStep(p) \/ Die(p)
  \/ \E w \in Workers : WorkerStep(w) \/ \E j \in Jobs : DeliverStep(w, j)
  \/ \E w \in Workers : Crash(w) /\ UNCHANGED engineVars
  \/ \E j \in Jobs : Redeliver(j) /\ UNCHANGED engineVars
  \/ \E s \in Steps : SleepDone(s) \/ SleepResume(s)
  \/ Sweep \/ UserResume

Spec == Init /\ [][Next]_vars

--------------------------------------------------------------------------------
\* Type invariant of the run: rows, queues, passes, contexts and timers.
TypeOK ==
  /\ WorkerTypeOK
  /\ ordinals \in [Processes -> [Names -> Nat]]
  /\ snapshot \in [Processes -> [Steps -> [status : StepStatus, attempt : Nat]]]
  /\ snapped \in [Processes -> BOOLEAN]
  /\ cachedRun \in [Processes -> RunStatus \cup {None}]
  /\ ppc \in [Passes -> PassPC]
  /\ pos \in [Passes -> 1..Len(Program)]
  /\ comp \in [Passes -> BOOLEAN] /\ waits \in [Passes -> BOOLEAN]
  /\ key \in [Passes -> Steps \cup {None}]
  /\ tryNo \in [Passes -> Nat]
  /\ left \in [Passes -> 0..OrchAttempts]
  /\ armed \in [Steps -> Nat] /\ fired \in [Steps -> Nat]
  /\ sweeps \in 0..MaxSweeps /\ resumes \in 0..MaxResumes /\ deaths \in 0..MaxDeaths
  /\ contextShared \in BOOLEAN

\* Call i is awaited before call j is made.
Before(i, j) == i < j /\ ~(i..j - 1 \subseteq Together)

\* A step is never reached before the side effects of every call the body has
\* awaited are done, whatever is replayed, swept, redelivered or crashes.
StepsRunInOrder ==
  \A i, j \in Calls : Before(i, j) /\ status[KeyOf(j)] # "absent" => effects[KeyOf(i)] > 0

\* A run is completed only when every call of the body has really been done.
CompletedMeansDone ==
  runStatus = "completed" => \A i \in Calls : effects[KeyOf(i)] > 0

\* "A fresh replay resets ordinals so the same call resolves to the same row":
\* no replay mints a step the body does not have.
ReplaysAgreeOnKeys ==
  \A s \in Steps : status[s] # "absent" =>
    \E i \in Calls : s = KeyOf(i) \/ s = StepKey(OnError[Program[i]], 0)

\* setStepScheduled has found every row as its dispatcher left it, and will.
\* Nothing in the code sees to that: the job is queued first, and its worker
\* may claim the row, or the timer settle it, before it is marked.
MarksInTime ==
  /\ \A s \in Steps : late[s] = 0
  /\ \A p \in Passes : ppc[p] = "mark" => status[key[p]] \in {"pending", "scheduled"}

\* Nor has anybody died whose verdict on a job was reached, and not yet heard by
\* the queue, so that all of the job was done and it was handed out again.
Orderly == MarksInTime /\ unheard = 0

\* A suspension pauses the run "until externally resumed": no later call of the
\* body is made before somebody resumed an orderly run, whatever replays it.
HeldUntilResumed ==
  Orderly => \A i, j \in Calls :
    i < j /\ Kind[Program[i]] = "suspend" /\ status[KeyOf(j)] # "absent" => resumes > 0

\* Completed, failed and cancelled are "statuses a run cannot leave at all", and
\* an orderly one does not.
TerminalIsFinal ==
  [][Orderly' /\ (runStatus \in WORKFLOW_TERMINAL_STATES) => (runStatus' = runStatus)]_vars

\* The steps a replay walks past "are succeeded, and therefore immutable": no
\* retry, replay or child of an orderly run writes over one.
SucceededIsFinal ==
  [][Orderly' => \A s \in Steps :
       status[s] = "succeeded" => status'[s] = "succeeded"]_vars

\* A step's side effects are done at most once per run.
EffectsAtMostOnce == \A s \in Steps : effects[s] <= 1

\* In an orderly run they are, whoever does them: worker, pass, timer or child.
EffectsOnceInOrder == Orderly => EffectsAtMostOnce

\* The attempts a step is allowed: a job has retries + 1, while for a step the
\* pass runs itself "retries bounds total attempts".
Allowed(s) == IF Kind[s[1]] = "queued" THEN Retries[s] + 1
              ELSE IF Retries[s] > 0 THEN Retries[s] ELSE 1

\* onError is for a step that fails "after exhausting its retries", and in an
\* orderly run no earlier.
CompensationAfterLastRetry ==
  Orderly => \A n \in Names : OnError[n] # None /\ started[StepKey(OnError[n], 0)] > 0
    => attempt[StepKey(n, 0)] >= Allowed(StepKey(n, 0))

\* "An explicit retries: 0 means exactly once and must be honoured": however
\* its jobs are retried, a step's function is entered no more often in an
\* orderly run than its retry policy allows; only a worker that dies between
\* the last setStepError and the wake adds an attempt.
RetryPolicyHonoured ==
  Orderly => \A s \in Steps : started[s] <= Allowed(s) + crashes

\* While the queue takes every job and every function is deployed, an orderly
\* run fails only because some step has used up its attempts: no duplicate job,
\* overtaken replay or retry in flight fails it early.
FailureIsEarned ==
  Orderly /\ runStatus = "failed" =>
    \E s \in Steps : status[s] = "failed" /\ attempt[s] >= Allowed(s)

\* "A failed workflow step dispatch is transient infrastructure, not a run
\* failure": it leaves the run as it was.
DispatchFailureIsTransient ==
  [][\A p \in Passes : ppc[p] = "dispatchFailed" /\ ppc'[p] = "idle"
       => runStatus' = runStatus]_vars

\* Nothing is in flight that could still move the run.
Quiet ==
  /\ \A k \in 1..OrchAttempts : wakes[k] = 0
  /\ \A p \in Passes : ppc[p] = "idle"
  /\ \A w \in Workers : pc[w] = "idle"
  /\ \A j \in Jobs : job[j].state \notin {"ready", "active"}
  /\ \A s \in Steps : armed[s] = 0 /\ fired[s] = 0

\* A run never parks on a step that will never complete and never error: when
\* nothing is in flight it is settled or suspended, or a sweep will find it -
\* unless a row says scheduled because it was marked behind its worker or timer.
NeverParkedForGood ==
  Quiet => \/ runStatus # "running" \/ Stalled \/ Undispatched
           \/ \E s \in Steps : status[s] = "scheduled" /\ late[s] > 0
================================================================================
