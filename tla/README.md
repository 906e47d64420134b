# TLA+ models of pikku's durable workflows and agent approvals

pikku is a TypeScript framework: functions are wired to HTTP, RPC, queues, channels,
schedulers, agents and *durable workflows*. Most of it is stateless (a request runs
through middleware, permissions, validation and one function call). Two parts keep state
across processes, crashes and retries: the workflow engine in
`packages/core/src/wirings/workflow`, over a store (`packages/services/kysely*`, redis,
mongodb, ...) and a queue (pg-boss, BullMQ); and agent runs in
`packages/core/src/wirings/agent` that wait for a person to approve a tool call. These
modules model both, check them with TLC, and prove with TLAPS, for every value of the
constants, what a team relies on most: a step has one executor and its effects happen
once, but for the marks that its dispatchers write behind a claim; a run's steps run in
order and a run that says completed is done, until two replays meet in one process; a
graph fires each node once and only when its predecessors are done; only an entitled
answer decides a gate; and an approved tool runs once.

## Inventory

| Component | State it keeps | Operations | Talks to |
|---|---|---|---|
| Step claim (`claimStepForExecution`, `claimStepByReadThenWrite`) | status and attempt of a step row | read, conditional UPDATE or locked write, retry attempt | store |
| Step worker (`executeWorkflowStep`) | the claimed step state, in memory across awaits | claim, invoke the function or start a child run, record result or error, wake the run | store, queue |
| DSL orchestrator (`orchestrateWorkflow`, `runWorkflowJob`, `rpcStep`, `inlineStep`, `sleepStep`) | run row; per process and run a `RunContext` (ordinals, snapshot, cached run) | replay the body over the rows, dispatch, park, compensate, fail, complete | store, queue, scheduler, workers |
| Suspend step (`recordSuspension`) | a step row that succeeds as it suspends, the run's status | suspend; resumed by a user | store |
| Sleeper (`executeWorkflowSleepCompleted`) | scheduler jobs | finish a sleep step, wake the run | store, queue |
| Recovery (`recoverStalledRuns`, `relayUndispatchedSteps`) | backoff map | find stalled runs and undispatched steps, wake them | store, queue |
| Run and step locks | advisory locks | exclude passes, gates and unguarded claims | Postgres, MySQL, Redis |
| Approval gate (`recordApprovalDecision`, `evaluateApprovalStep`) | step row, a record in run state, a delayed job | answer from outside; judge, expire, settle on replay | store, queue |
| Parent and child runs (`onChildWorkflowCompleted`, `onChildWorkflowFailed`) | `parentRunId`, `parentStepId`, two run rows | start a child, write its outcome into the parent's step, wake the parent | both runs' passes, the worker |
| Graph runner (`continueGraph`, `planGraphTransitions`, `queueGraphNode`, `executeGraphStep`) | node rows with predecessor and branch | plan and queue ready nodes, choose branches, iterate, handle errors | store, queue, workers |
| Agent runner and tool approvals (`resumeAgent`, `resumeAgentSync`, `resolveApproval`) | agent run row, pending approvals (in the row, or one row per call) | suspend with calls pending, claim an answer, run tools, enter the model again | agent store |
| Channels, HTTP, RPC, scheduler, CLI, inspector, console, ... | none that is durable | request pipelines, code generation, user interfaces | - |

What is hard: every `await` is a point where other processes run; jobs are
delivered at least once; arming a step is two writes to two systems; replays of
one run overlap, in other processes or in the same one; graph passes overlap by
design; three carriers (step job, orchestrator job, sleep timer) and the children
must each wake the run; answers to a gate or a tool call race replays, expiry and
each other. `PROJECT.json` lists these hazards at the line where they bite with the
properties that cover them.

What makes each part correct: a step has one executor at a time and its effects
happen once (claim); steps run in order, a completed run has done them all, a
failed one has earned it, nothing final changes, and the run and its children end
(orchestrator); a suspension holds until it is resumed; a run with nothing in
flight is settled, suspended or found by a sweep (recovery); a node is fired once,
when all it depends on is done, by an edge that was taken (graphs); only an
entitled, well-formed answer or a passed deadline decides a gate, once, and no
accepted answer vanishes (gates); a tool runs once, as the answer that claimed its
call says, and the run goes on when all is answered (agents).

## Modules

| Module | What it is |
|---|---|
| `StepWorkers` | rows, step queue, workers: one action per await of `executeWorkflowStepInner`, plus delivery, redelivery and worker crashes. No next-state relation of its own |
| `StepClaim` | closes `StepWorkers` with an environment that dispatches any step at any time |
| `StepOwnership` | abstract specification of the claim: a dispatch takes an open step and closes it; its holder's release or a late mark may open it again |
| `StepWorkersProofs` | lemmas on the workers that the claim's and the engine's proofs share |
| `StepClaimProofs` | theorems about `StepClaim` |
| `StepClaimRefinement` | proof that `StepClaim` implements `StepOwnership`, and that a step has one holder |
| `WorkflowEngine` | closes `StepWorkers` with orchestrator passes, suspensions, sleeper and sweeps |
| `WorkflowEngineProofs` | theorems about `WorkflowEngine` |
| `ChildRuns` | composes `WorkflowEngine` with the child runs its sub-workflow steps start |
| `ChildRunsProofs` | theorems about `ChildRuns`, on top of the engine's |
| `GraphPlan` | `planGraphTransitions` as operators on the rows of a run, no state |
| `GraphRun` | a queued graph run over `GraphPlan`: starter, node workers, unlocked passes |
| `GraphRunProofs` | theorems about `GraphRun` and lemmas about `GraphPlan` |
| `ApprovalGate` | one approval gate between its callers and the replays |
| `ApprovalGateProofs` | theorems about `ApprovalGate` |
| `AgentApproval` | one agent run whose tool calls are approved by concurrent answers |
| `AgentApprovalProofs` | theorems about `AgentApproval` |
| `MC*` | values for the constants, programs, graphs, symmetry |

**StepWorkers.** `status`, `attempt` and `runStatus` are the store's rows; `job` is
the step queue, a record per job with the attempts it has left (`StepJob` is
`stepJobOptions`: retries + 1); `wakes` counts orchestrator jobs by attempts left.
A worker's `pc` says before which await it stands; `at`, `mine` and `under` are the
step, job and `attemptCount` it holds in memory. `guarded` is the kind of store:
TRUE claims by status-guarded UPDATE (`LoadClaimable` reads, `ClaimWon` or
`ClaimLost` is the UPDATE), FALSE by read-then-write under a step lock that
excludes, as on Redis (`LockFree`). The queue is modelled by what the code relies
on: a returned handler completes its job, a thrown error uses up an attempt
(`Nack`), an active job is handed out again when its worker died (`Crash`,
`Redeliver`) or, within `MaxRedeliveries`, when it is merely slow; a verdict from a
worker that no longer owns the delivery is ignored. The queue hears of a verdict after
the handler's last write or wake (`ack`, `nack`; `JobCompletes`, `JobFails`), so a worker
may die between the two. `createRetryAttempt` (a read and a write by the one who has just
claimed the row) is one action. Four variables are history: `refused`, how often the
queue refused the wake of a finished step; `late`, how often a row was marked scheduled
(`setStepScheduled`, unconditional) after it had been claimed or settled; `unheard`, how
many died with the verdict on their job reached and not heard; `missing`, whether a
function was found undeployed.

**StepClaim, StepOwnership.** The environment queues a job of any step at any time
(`Redispatch`) and marks the row at any later moment (`Mark`), as replays do on whatever
they have read. `unmarked` counts the marks still to come.

**WorkflowEngine.** A pass (`ppc`) takes an orchestrator job (`BeginReplay`, which resets
the run's context in its process), reads every row once (`ReadSteps`), checks that the run
is not settled on the cached or fetched run row (`CheckSettled`), waits for the run lock
(`EnterBody`) and walks `Program`. `Reach` is `nextStepKey` with `loadOrCreateStep`
(snapshot, else the store, else insert) and the branches of `rpcStep`, `inlineStep`,
`sleepStep` and `recordSuspension` on the step's status. A queued step is enqueued
(`Dispatch`) and then marked (`MarkScheduled`, unconditional, as in the code), and its job
may be delivered, and a timer fire, in between; a local RPC or inline function is run by
the pass (`Begin`, `BodyEnds`, `StoreResult`, `StoreError`, `RetryPending`, `Rearm`); a
sleep is a timer (`armed`, then `fired` between its two awaits); a suspension is
`OpenSuspension`, `RecordSuspension` (the step succeeds) and only then `SuspendRunItself`
(the run is suspended), until `UserResume`. `Together` groups queued calls into a
`Promise.all`: `Parks` lets the other calls of the group be made before the pass gives up.
`Fails` starts the compensation step (never retried). `FailRun` and `FailAgain` are the
two places that write `failed`, inside and outside the lock; `FailDispatch` is what really
happens to a `WorkflowDispatchException`. `Stalled` and `Undispatched` are the two queries
of the sweeps, `Sweep` wakes the run; how old a row must be is left open, since the code
calls age a guess that correctness must not rest on. `contextShared` is history: whether a
replay began in a process in which another replay of the run was.

**ChildRuns.** A worker whose step is a sub-workflow creates the child (`CreateChild`),
wakes it (`WakeChild`), and only then the queue hears that its job is done; the step's row
stays running. A pass of the child finds it unsettled (`BeginChild`, before the
lock), waits for the child's run lock (`cready`, `EnterChild`), settles the child, writes
the parent's row (`NotifyParent`, the two `onChildWorkflow...` functions), wakes the parent
(`WakeParent`) and is heard by the queue (`ChildRests`); it may die between any of them
(`ChildDies`) and its job comes back. A child may suspend, and be resumed by anybody at any
moment up to `MaxChildResumes` times, whatever passes are under way. Its own steps are left
out: its body returns, throws or suspends. With
no `SubWorkflows` and no `Children` the module is `WorkflowEngine` alone, which is how
EngineRecovery uses it (`FamilySteps` has no fairness, `FamilySpec` adds it); the engine's
violation runs use `WorkflowEngine!Spec` itself.

**GraphPlan, GraphRun.** A graph is a record of entries, targets per branch key,
dependencies, error handlers, forEach sources and widths, modes and retries. An instance
`<<n, k>>` is a step row: of a plain node its k-th revisit, of a forEach node its k-th
item. `Edges`, `Spent`, `ItemsToFire`, `ToFire`, `BlockedWaiting` are the parts of
`planGraphTransitions`; `ToFire` is a set, and a pass that adds what it fires to the rows
it read takes them in turn. `validateGraphReferences` is what the code checks when a graph
is registered, and is assumed of every graph. Whoever starts nodes (the starter, a pass,
or a worker whose node has error handlers) does it through `queueGraphNode`: `Inserts`
writes the row, `Queues` or `QueueRefuses` is the queue's answer, and `firing[a]` is the
node that actor `a` holds between the two; the starter (`spc`) fires the entries (`todo`)
before there is any pass. A pass reads the run in three queries (`ReadState`, `ReadRun`,
`PlanTransitions`), then inserts and queues node by node (`InsertNode`, `QueueNode`); a
second row for an instance is refused by the unique key and fails the pass (`Conflicts`,
`ThrowPass`). `InsertNode` only takes ordinals up to `MaxOrdinal`, the bound on revisits
of a loop and on the widths explored. A node's worker is `Claim` to `LastWake`, with
`executeGraphStep`'s handlers (`InsertHandler`, `QueueHandler`) and missing functions.
Claiming is one step here: a graph's rows are never marked scheduled, so that one executor
runs an instance is `StepClaim`'s theorem with `late` at 0. The queue's hearing of a
worker's verdict is one step with the handler's last write or wake: no node worker dies in
`GraphRun`, and nobody else reads what is between the two.

**ApprovalGate.** The approver's call is `Submit`, `ReadState`, `WriteDecision`,
`WakeRun`; the replay's is `ReachGate` to `Suspend` or `Finish`, each read or write of
the gate's record an action, the record read kept in `asaw` or `psaw` and written
back whole as in the code. Replays exclude each other (a step lock that excludes);
answers take no lock. `due` is the deadline's passing, `alarm` the delayed job of
`scheduleRunWake`. `fate` is history: what became of each acknowledged answer.

**AgentApproval.** A request is a stream answer to one call or a sync answer to
several; `Receive` is its read of the run. The claim is `ReadList` and `Swap` (the
store that keeps the pending list in the run's row and compares the whole list) or
`ClaimRow` (the stores that keep a row per call). `Execute` runs the tools of the calls
it won, `LookForMore` is the stream's second read, `MarkRunning` and `Turn` enter the
model again, which may ask for further calls (`AskApproval`, and `ClearRows`, `SetRow`
statement by statement in the row store) or end the run. A client answers calls it was
asked about (`asked`); that is an assumption on clients, since `resumeAgent` looks only at
what is pending. `decided`, `executed`,
`batch`, `asked` and `dropped` are history.

## Runs

| Run | Expect | Bounds | What it asks and shows |
|---|---|---|---|
| StepClaim | pass | 1 step, 2 workers, 2 jobs, 1 crash, 1 redelivery, marks at any time, refusing queue, missing function, both claims | executors, attempts behind the starts and repeated effects are no more than the late marks (and refused wakes) account for, and `StepOwnership` is implemented (refinement by `Holders`, `Open`) |
| ChildRuns | pass | a body of 7 calls of every kind with one name repeated, 2 passes, 2 workers, 2 jobs, 2 children, 2 attempts, 1 crash, 1 child death, 1 resume of the run and of each child, `CONSTRAINT Orderly` | order, keys, suspension, retry policy, earned failure, compensation last, final things stay final, no orphan, and the family ends |
| EngineRecovery | pass | a local and a queued step, refusing queue, undeployed function, 2 passes, 1 death, 1 sweep | order, completeness, and no run is parked where neither sweep looks, but behind a late mark |
| ApprovalGate | pass | a valid, a forbidden, a malformed answer, expiry, 2 replays, 1 fault | who decides, when it expires, that it is final, that it settles |
| GraphRun | pass | 4 graphs (join, loop, forEach and sequential forEach, empty forEach with an error handler) over 4 nodes, 2 passes, 1 refused job, death or resume | joins wait, only taken edges, one instance per forward edge, items in turn, earned failure, completeness, a pass that knows every branch completes nothing in flight, the run ends |
| AgentApproval | pass | 3 calls, 2 streams, 1 sync, 3 answers, 1 crash, both stores | one execution as decided, decisions stand, no early continuation, no run left between answers |
| EngineDispatch | violation | 2 queued steps, refusing queue | a refused dispatch fails the run |
| EngineParallel | violation | 2 queued steps in a `Promise.all`, 1 pass, no fault | a running step is dispatched again and runs twice |
| EngineSuspend | violation | a suspension and a queued step, 1 pass death | the suspension is walked past unresumed |
| EngineSharedKeys | violation | 2 steps, 2 passes in one process | shared ordinals mint a step the body does not have |
| ApprovalLost | violation | as ApprovalGate, no fault | a replay erases an acknowledged answer |
| GraphLostBranch | violation | a branching node, 1 pass, 1 resume | a branch chosen between two reads is lost, the run completed without it |

**Why the bounds are enough.** A conflict over a step needs two dispatches of the same
step, each with its mark, and a redelivery or a refused wake runs the function again
without a retry; steps do not interact in the claim, hence one step (the proofs are for
any number of steps, jobs and retries). A conflict between replays needs two passes. The
body of ChildRuns has every kind of call before and after others, and one name twice. Two
children let a redelivered worker start a second one. The graphs have every shape the plan
distinguishes: a join, a cycle, fan-out over the trigger and over a node, zero width, a
sequential fan, a branch. Three answers are two that race and one that comes late; three
calls are a batch and a further step. One crash, redelivery, sweep, death, resume or
refusal is enough for each single-fault question, and is placed everywhere by TLC.
`CHECK_DEADLOCK FALSE` is set in every configuration because runs, jobs and budgets come
to an end. Bounds named in guards are `MaxCrashes`, `MaxRedeliveries`, `MaxSweeps`,
`MaxResumes`, `MaxDeaths`, `MaxChildResumes`, `MaxChildDeaths`, `MaxFaults`, `MaxOrdinal`,
`MaxCalls`, `MaxAnswers` and the sets `Jobs` and `Children`.

**Fairness.** `FamilyFairness` lets passes, workers, timers, deliveries and children go
on (weak fairness) and whoever a suspended run waits for resume it in the end: Node
processes run their handlers to the end, the queue polls, timers fire. No fault is
fair. `BeginReplay` is fair as a whole, since any free slot may take the job. In
`GraphRun` the starter, workers and passes are fair. In `ApprovalGate` and
`AgentApproval` calls that were started, replays, the clock and the delayed job are
fair; nobody has to answer.

**Conditions the passing runs state in the open.** Two things the code does not exclude
undo much of what the engine promises, so the properties name them. `MarksInTime`: no row
was, or is about to be, marked scheduled after it was claimed or settled; the job is queued
first (l.1633, then l.1644), so only the workers' delay sees to it. `Orderly` adds
`unheard = 0`: nobody died between the verdict on a job and the queue's hearing of it, for
the job then comes back beside the wake that was sent, and the run has two carriers.
`HeldUntilResumed`, `TerminalIsFinal`, `SucceededIsFinal`, `EffectsOnceInOrder`,
`CompensationAfterLastRetry`, `RetryPolicyHonoured`, `FailureIsEarned` and `NoOrphans` speak
of what is orderly so far. ChildRuns follows a behaviour only that far (`CONSTRAINT
Orderly`: with `MaxDeaths = 0` neither half can become true again, and `FamilySettles`
excludes in its premise what the constraint cuts off); order and keys hold beyond it,
as the theorems show. EngineParallel shows what happens without `MarksInTime`, and
`NeverParkedForGood` excepts a row that a late mark left scheduled.
`FamilySettles` excludes worker crashes, children's deaths and late marks,
`NeverParkedForGood` is checked without worker crashes,
the graph's `RunSettles` excludes deaths and refused jobs, `NeverLeftBetween` excludes
crashes, `GateSettles` faults and refused answers: each of these loses a wake that the
code does not make up for (below). `RetryPolicyHonoured` allows one more attempt per
crash. ChildRuns has no sweep and no slow-worker redelivery, since both let a further
pass in at any time and EngineParallel shows what that does. `CompletedMeansDone` of
graphs is about graphs that do not branch and queues that refuse nothing; for every graph,
`CompletesWhenDone` says the same of a pass that knows the branches taken by the nodes it
read as done (`UpToDate`), and GraphLostBranch shows that passes do not always know them.

## What the violations and other probes say about the code

The six violation runs are recorded as findings in `PROJECT.json` with the lines of
code and documentation that disagree. Each counterexample was followed through the
source. Further disagreements seen with TLC while the bounds were chosen, without a
run of their own:

- `resumeWorkflow` inside the step's `try` (service l.1427): a queue that refuses the
  wake turns a succeeded step into a failed one, and its effects are done again; this
  is the `refused` term of `EffectsAtMostOnce`, and it refutes `SucceededIsFinal`.
- A pass whose snapshot was read before it waited for the run lock dispatches a step
  that is being executed, as in EngineParallel, for single steps too.
- A step job that is picked up before `setStepScheduled`: the row is marked scheduled over
  `running`, and a second dispatch executes the step, or over `succeeded`, and every replay
  parks on it although no job is left. Only one worker and one pass are needed, and no fault
  (without its last disjunct TLC refutes `NeverParkedForGood` on EngineRecovery). A timer
  that fires before its row is marked does the same to a sleep.
- A worker that dies while its step is `running` leaves a row no claim accepts and no
  sweep looks for (`MaxCrashes = 1` refutes `NeverParkedForGood`).
- A worker that dies between `setStepError`, or the last wake, and the failure of its job
  leaves the job to come back uncharged: the step is entered once more than its policy
  says, and the run, woken to fail, has two carriers, one of which may walk past a
  suspension or execute a step again. A worker that dies between the wake of a child and
  the acknowledgement of its job may start a second child when the first has failed, while
  the parent is failed (with `MarksInTime` for `Orderly`, on ChildRuns, TLC refutes all
  the properties that name it but `CompensationAfterLastRetry`, which it did not refute in
  some millions of states).
- A `failed` row between two attempts counts as nothing in flight for the stalled
  sweep: the run is failed and compensated while a retry is queued (a sweep in a
  program with a retried queued step refutes `FailureIsEarned` and
  `CompensationAfterLastRetry`). The claim of a failed row does not look at `retries`.
- The retries of a sub-workflow step are never used: its job is done once the child is
  woken, and the replay that finds the child's failure in the row fails the run, with
  attempts left (one retry for `sub` in ChildRuns refutes `FailureIsEarned`).
- A terminal status can be left: `failed` to `completed` by an overlapping pass, and
  `SuspendRun` writes over anything.
- A missing function of a step the pass runs itself: `suspended` is overwritten by
  `failed` (l.1698, then l.1215), unlike the graph runner; of a queued step: the step
  stays failed, so the resume that the message promises fails the run. A graph run
  suspended for it stays suspended, whoever resumes it (graph-runner l.766).
- A child's process that dies between writing the child's outcome and the parent's
  row leaves the parent waiting for good: the redelivered job finds a settled child.
- A graph node whose row was inserted and whose job was not (death or refusal) counts
  as in flight for every later plan; the relay's resume does not queue it.
- An approval gate whose first replay dies between `setStepRunning` and the write of
  the record never gets a deadline; an approver's whole-record write can erase one.
- An answer that passes the resolved check before the gate expires is acknowledged
  although nothing will read it.
- Two approvers of *different* tool calls: in the list store the later compare-and-swap
  fails and its caller is told the call was already resolved, although it is still
  pending. The knowledge base says such approvals "all proceed".
- Two stream answers that empty the list between them may both find it empty and both
  enter the model; the later turn can then write `running` or `suspended` over
  `completed`. A request that dies behind its claim leaves a run with nothing pending.

## What is proved

Eight modules hold proofs (`StepWorkersProofs` only lemmas). Every theorem is for all
values of the constants that satisfy the modules' `ASSUME`s; the conditions in some of the
statements are discussed below. The strengthenings were checked with TLC as invariants of
the runs before they were proved.

| Module | Theorem | Statement |
|---|---|---|
| `StepClaimProofs` | `TypeCorrect` | `Spec => []TypeOK` |
| | `AttemptsCover` | `Spec => []AttemptsCoverStarts` |
| | `EffectsOnce` | `Spec => []EffectsAtMostOnce` |
| `StepClaimRefinement` | `ClaimImplementsOwnership` | `Spec => OwnershipSpec` |
| | `ClaimsExclude` | `Spec => []ClaimExcludes`: one executor per step, and one per late mark |
| `WorkflowEngineProofs` | `RunIsHonest` | `Spec => [](TypeOK /\ Honest)` |
| | `RunsInOrder` | `Spec => [](~contextShared => StepsRunInOrder)` |
| | `CompletedIsDone` | `Spec => [](~contextShared => CompletedMeansDone)` |
| | `KeysAgree` | `Spec => [](~contextShared => ReplaysAgreeOnKeys)` |
| | `NothingParked` | `Spec => [](crashes = 0 /\ deaths = 0 => NeverParkedForGood)` |
| `ChildRunsProofs` | `FamilyTypeCorrect` | `FamilySpec => [](FamilyTypeOK /\ \A c : HonestChild(c))` |
| | `FamilyRunsInOrder` | `FamilySteps => [](~contextShared =>` the engine's first three`)` |
| `ApprovalGateProofs` | `TypeCorrect` | `Spec => []TypeOK` |
| | `EntitledDecide` | `Spec => []OnlyTheEntitledDecide` |
| | `ExpiryNeedsDeadline` | `Spec => []ExpiredOnlyPastDeadline` |
| | `OutcomeStands` | `Spec => OutcomeIsFinal` |
| `GraphRunProofs` | `TypeCorrect` | `Spec => []TypeOK` |
| | `JoinsAlwaysWait` | `Spec => []JoinsWait` |
| | `EdgesAreTaken` | `Spec => []OnlyTakenEdges` |
| | `OncePerEdge` | `Spec => []NodeOncePerForwardEdge` |
| | `ItemsTakeTurns` | `Spec => []ItemsInTurn` |
| | `FailureEarned` | `Spec => []FailureIsEarned` |
| | `CompletedIsFinished` | `Spec => []CompletedMeansDone` |
| | `CompletesKnowing` | `Spec => CompletesWhenDone` |
| `AgentApprovalProofs` | `TypeCorrect` | `Spec => []TypeOK` |
| | `RunsAsDecided` | `Spec => []ExecutedAsDecided` |
| | `DecisionsStand` | `Spec => DecisionStands` |
| | `ContinuesAnswered` | `Spec => []ContinuesWhenAnswered` |
| | `NeverStranded` | `Spec => []`(no crash and no request under way => settled, or suspended with a call that was asked for) |

**Step claim.** For every set of steps, workers and jobs, every retry policy, both ways
of claiming, every fault budget, and marks at any moment. The three properties are bounds
on counters, and none is inductive: nothing in them says what the rows let in next. The
proofs count permits. A step that is open to a claim (`Open`) is worth one permit; the
claim that takes it closes it and hands the permit to a worker, which spends it on an
entry into the function (`StartPermits`), on its effects (`EffectPermits`), or gives it back
with the failed row. Only a late mark and a refused wake bring new permits, and both are
counted; a mark in time finds the row open already. `OneMoves` and `OneApart` say that
one worker's step changes the number of those that stand somewhere by at most one. The
refinement rests on the same account of holders (`HolderPermits`): a claim maps to
`Acquire`, the end of an execution or a death in the middle to `Release`, which leaves the
step open or closed as the row and the lock are left, a holder that writes `running` over a
row marked behind it to `Close`, a late mark to `Reopen`, and all else stutters.

**Engine.** For every program, retry policy, store, number of passes and workers and
every fault budget, with or without an excluding run lock. `Honest` says that every job,
timer, snapshot and pass works on a row that exists, and that nothing says `succeeded`
before its effects are done; it is an invariant also where passes share a context.
`StepsRunInOrder`, `ReplaysAgreeOnKeys` and `CompletedMeansDone` speak of rows only, and
are kept by a pass only because of where it stands: `InPlace` adds that in its body a
pass's ordinals count exactly the calls it has made, hence that `nextStepKey` yields the
program's key (`KeyOfCount`), and that every call it has passed and waited for is done
(`Behind`). Workers, timers and sweeps do not touch what `InPlace` speaks of, and keep
it because effects are never undone (`NothingLost`).

The three hold as long as `~contextShared`: until a replay of the run begins in a process
in which another one is under way. Nothing in the code prevents that (a process takes any
orchestrator job there is), and from then on the statements are false: EngineSharedKeys is
the counterexample of `ReplaysAgreeOnKeys`. The theorems take no assumption on where
passes run: `Apart` is an invariant of the time before the first meeting, and says that a
pass has its run context to itself.

`NothingParked` is about rows that wait for somebody. `AttendInv` says that while nobody
has died a `scheduled` row has a job in the queue, a timer or a worker about to claim it,
or was marked behind them (`late`); that a `running` one of a running run has the worker or
pass that executes it (`Attended`); and that a pass about to mark a row has put its job or
timer there first, which is still there if the row is still unclaimed (`HandedOver`). A
running run with nothing in flight then has no such row, hence is where a sweep looks, or
has a row that was marked too late. Crashes are excluded because of the worker that dies
over a `running` row (above). Deaths are excluded from the theorem only; EngineRecovery
checks them too.

**Children.** The family's steps are steps of the engine, or touch of the engine's state
only the parent's row and the queue of wakes (`OnlyRows`); `FamilyKeeps` is that case
split, and the engine's invariant is carried over it. `HonestChild` and `HonestStarter`
say that a child's outcome reaches a row that exists, and says `succeeded` only when
the child's body has returned.

**Gate.** For every set of approvers and passes and every fault budget. `Safe` adds to
the three properties that one replay is inside the gate (the step lock), what a replay
that has judged knows of the record it read (`Judged`), and that while one is inside
nothing is settled yet (`Open`): so the outcome is written once and from a judged record,
although approvers write the record at any moment. The lock is given back before the
replay writes the run suspended or completed, so these writes may interleave with another
replay's; they touch nothing the properties speak of.

**Graphs.** For every set of graphs that pass `validateGraphReferences`, every number of
passes and every retry policy. The invariants form three layers. `Base`: at each await a
worker or actor is in, what its row and attempt say (`AtRow`, `Attempts`), and that a row
that is inserted and not yet queued is held by one actor (`Reserved`, `AtQueue`); with
`Blame` (a pass that is about to fail the run has an exhausted node, a refused job or a
conflict to show) this gives `FailureIsEarned`. `Past`: rows of a node have no gaps, an
item is within the width, each fired row was led to by an edge that was taken, and, since
a pass plans on rows it has read and the others go on, `Snapshot`: what a pass has read
is a past state of rows that only grow, so a node that was done or present there still
is. What the plan fires is justified by `FireParts`, `FireOrdinal` and `EdgeLed`, lemmas
about `GraphPlan`'s operators; that a second pass fires the same instance again is
excluded by the unique key and not by the plan. `Settled`: a pass that is about to write
`completed` has seen every row done and nothing to fire. A snapshot may be old, yet if
there was nothing in flight in it and nothing to fire, then nobody else can have
fired anything either.

**Agents.** For every number of calls, every set of stream and sync requests, both kinds
of store and every budget of answers and crashes. A call can be claimed while it is
pending, what is pending is undecided (`PendingUndecided`), and a claim removes and
decides it in one step; so the calls two requests hold are disjoint and not yet run
(`Held`, `Unexecuted`). `RowsToSet` is needed for the row store: a row that a request is
about to set pending must be undecided, or setting it would open a decided call again; it
holds because nobody can have been asked about it. `AnswerInv` adds, for the
continuation, that every call asked together with an asked one is pending, closed or
about to be written (`Accounted`). `NeverStranded` is the safety half of
`NeverLeftBetween`: while nobody has died, either something is pending that the client
knows of or is about to be told (`Told`), or some request is still to go on with the run
(`Onward`), which takes that the answer that empties the list sees it empty.

**Assumptions on constants.** `ProgramAssumption`: the keys of a program and of its
compensations are steps, and a compensation is not the step it compensates (the code names
it `<key>:onError`, so it cannot be). `GraphsAssumption` is `validateGraphReferences`,
checked by the code. `HandlerAssumption`: no two steps share a compensation, which the
same name `<key>:onError` sees to. `ValuesAssumption`, `ActorsAssumption`,
`NoneAssumption` keep names of different kinds apart. The others give numbers and switches
their types. TLC evaluates all of them.

**Only model-checked.** Liveness (`FamilySettles`, `GateSettles`, `RunSettles`) is out of
the prover's reach, as are ENABLED and what the recursive function behind `closesCycle`
computes: the graph proofs treat it as an unknown set of edges, and hold whatever it is.
Of the engine and its children: `HeldUntilResumed`, `TerminalIsFinal`, `SucceededIsFinal`,
`EffectsOnceInOrder`, `CompensationAfterLastRetry`, `RetryPolicyHonoured`, `FailureIsEarned`
and `NoOrphans`, on the body of ChildRuns; and `NeverParkedForGood` when passes die and for
runs with children. They are false for some values of the constants even in orderly runs
(sweeps, redeliveries, a `Promise.all`, undeployed functions, refusing queues: the violation
runs and the probes above are counterexamples), so a theorem has to name what drives the
run, and to account for the one carrier it then has.
Of agents: that requests under way come to an end, the rest of `NeverLeftBetween`.

## What is not modelled

- **Orchestrator:** `Promise.all` over other than queued steps, and its calls going on
  after the pass has given up; cancellation, actors and scenarios, version fallback,
  runs started inline. A dispatch that names another function than the row's is
  rejected before it writes and is left out.
- **Children:** a child's own steps (they are `WorkflowEngine`'s), a queue that refuses a
  child's wake, or its parent's (which writes a completed child failed, l.1184 and
  l.1215), children run inline, children of graph nodes, sweeps of children.
- **Graphs:** runs in process (`runFromMeta`, which shares `GraphPlan`), template node
  names, sub-workflow and agent nodes, inputs that fail to resolve.
- **Suspend steps and gates:** the step lock that passes through in some stores.
- **Agents:** sub-agent approvals, credential requests, interrupts, threads and memory,
  the in-memory store. Models, tools and clients are choices of the environment.
- **Around the engine:** the redispatch backoff (delays by wall clock; the sweeps may
  re-drive at any moment in the models), the run lock's timeouts and hold bound, job
  groups and retry delays, history rows and the mirror, audit.
- Channels and the request pipelines keep no durable state; the CLI, inspector, code
  generators and importers, which are most of the repository's lines, are batch
  programs over files without concurrency or protocol; front ends, console and
  runtimes adapt other frameworks. Reasons per component are in `PROJECT.json`.

## Plan

Written so far, in this order: claim, engine, gates, child runs, graphs, agent
approvals, and theorems about each of them. Next:

1. Proofs: that an orderly run which only its own jobs and timers and one resume drive has
   one carrier at a time, and from that `TerminalIsFinal`, `HeldUntilResumed`, the retry
   policy and `NoOrphans` for every program; `NothingParked` for runs with children.
2. The pass-through step lock in `ApprovalGate` and around suspensions.
3. Sub-agent approvals in `AgentApproval`: a call that belongs to two runs.
4. Graph runs in process over `GraphPlan`, and graph nodes as parents in `ChildRuns`.
