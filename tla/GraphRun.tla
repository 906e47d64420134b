-------------------------------- MODULE GraphRun --------------------------------
(***************************************************************************)
(* One queued graph workflow run: the starter that inserts and queues the  *)
(* entry nodes, the workers that execute node instances, and the passes    *)
(* (continueGraph) that read the rows and fire what the plan says.         *)
(*                                                                         *)
(* Unlike a DSL run, a graph run takes no run lock: passes overlap each    *)
(* other, the starter and the workers, and each reads the run in three     *)
(* queries with awaits in between.  Only the unique key of a step row      *)
(* stands between two passes that plan the same node.  That one execution  *)
(* of an instance runs at a time is StepClaim's theorem; here claiming is  *)
(* one step.                                                               *)
(***************************************************************************)
EXTENDS GraphPlan

CONSTANTS
  Graphs,        \* the graphs a run may be of
  Passes,        \* orchestrator slots
  OrchAttempts,  \* attempts of an orchestrator job
  RpcMayBeMissing, \* may a node's function be undeployed?
  MaxFaults      \* how many jobs the queue refuses, processes that die and
                 \* resumes by a sweep or a user a run may see

ASSUME AttemptsAssumption == OrchAttempts \in Nat \ {0}
ASSUME SwitchAssumption == RpcMayBeMissing \in BOOLEAN
ASSUME BudgetAssumption == MaxFaults \in Nat
ASSUME GraphsAssumption == \A g \in Graphs : validateGraphReferences(g)

\* Who inserts and queues nodes: the passes, the worker of an instance (the
\* handlers of its errors) and the starter, called Start.
Actors == Passes \cup Instances \cup {Start}
ASSUME ActorsAssumption == Passes \cap (Predecessors \cup {None}) = {}

VARIABLES
  graph,     \* the graph this run is of
  runStatus, \* status of the run row
  row,       \* status and predecessor of each instance's step row
  attempt,   \* its currentAttempt
  branch,    \* its branchTaken
  job,       \* attempts left of the queue job of each instance, 0: none
  wakes,     \* orchestrator jobs by the attempts they have left
  epc,       \* where the worker of each instance stands
  handlers,  \* onError nodes it still has to queue
  ppc,       \* where each pass stands
  left,      \* attempts left of its orchestrator job
  known,     \* branchKeys as the pass read them
  rows,      \* the instances it read, and those it fired since
  spc,       \* where the starter stands
  todo,      \* entry instances it has still to insert
  firing,    \* the instance each actor has inserted and must queue
  effects,   \* history: how often each instance's function returned
  conflicts, \* history: has an insert hit a row already there?
  refused,   \* history: jobs the queue refused
  deaths,    \* history: passes and starters that died
  resumes    \* history: resumes by a sweep or a user

workerVars == <<row, attempt, branch, job, epc, handlers, effects>>
passVars == <<ppc, left, known, rows>>
starterVars == <<spc, todo>>
faultVars == <<conflicts, refused, deaths, resumes>>
vars == <<graph, runStatus, wakes, firing, workerVars, passVars, starterVars, faultVars>>

RunStatus == {"running", "suspended", "completed", "failed"}
StepStatus == {"absent", "pending", "running", "succeeded", "failed"}
WorkerPC == {"idle", "exec", "result", "wake", "insertHandler", "queueHandler",
             "error", "lastWake", "suspend", "missing", "suspendAgain"}
PassPC == {"idle", "state", "run", "plan", "insert", "queue", "complete", "fail", "throw"}
isRunSettled(v) == v \in {"completed", "failed"}

MaxAttempts(i) == graph.retries[i[1]] + 1
Pending(from) == [status |-> "pending", from |-> from]
SetStatus(i, v) == row' = [row EXCEPT ![i].status = v]
WorkerGoto(i, l) == epc' = [epc EXCEPT ![i] = l]

MoreFaults == refused + deaths + resumes < MaxFaults
\* queue.add throws.
Refuses == MoreFaults /\ refused' = refused + 1

resumeWorkflow_Lost == UNCHANGED wakes
resumeWorkflow == wakes' = [wakes EXCEPT ![OrchAttempts] = @ + 1]
\* resumeWorkflow, or the queue refuses it.
TryResume == \/ resumeWorkflow /\ UNCHANGED refused
             \/ Refuses /\ UNCHANGED wakes

\* queueGraphNode by actor a, first the row: insertStepState of instance i ...
Inserts(a, i, from) == /\ row[i].status = "absent"
                       /\ row' = [row EXCEPT ![i] = Pending(from)]
                       /\ firing' = [firing EXCEPT ![a] = i]
                       /\ UNCHANGED conflicts
\* ... which the unique key refuses if there is one.
Conflicts(i) == row[i].status # "absent" /\ conflicts' = TRUE /\ UNCHANGED <<row, firing>>
Queues_OneMore(a) == /\ job' = [job EXCEPT ![firing[a]] = MaxAttempts(firing[a]) + 1]
                     /\ firing' = [firing EXCEPT ![a] = None]
                     /\ UNCHANGED refused
\* Then its job, queueStepWorker: the first try and the retries of the node.
Queues(a) == /\ job' = [job EXCEPT ![firing[a]] = MaxAttempts(firing[a])]
             /\ firing' = [firing EXCEPT ![a] = None]
             /\ UNCHANGED refused
\* ... or the queue refuses it, and the row is left without one.
QueueRefuses(a) == /\ Refuses
                   /\ firing' = [firing EXCEPT ![a] = None]
                   /\ UNCHANGED job

--------------------------------------------------------------------------------
\* The starter: queueGraphNode for each ready entry node, createRun done.
StartInsert ==
  /\ spc = "insert"
  /\ \E i \in todo :
       \/ Inserts(Start, i, Start) /\ spc' = "queue" /\ todo' = todo \ {i}
       \* The caller of startWorkflow gets the error, the run is left as it is.
       \/ Conflicts(i) /\ spc' = "done" /\ todo' = {}
  /\ UNCHANGED <<graph, runStatus, wakes, attempt, branch, job, epc, handlers,
                 effects, passVars, refused, resumes, deaths>>

StartQueue ==
  /\ spc = "queue"
  /\ \/ /\ Queues(Start)
        /\ spc' = IF todo = {} THEN "done" ELSE "insert"
        /\ UNCHANGED todo
     \/ QueueRefuses(Start) /\ todo' = {} /\ spc' = "done"
  /\ UNCHANGED <<graph, runStatus, wakes, row, attempt, branch, epc, handlers,
                 effects, passVars, conflicts, resumes, deaths>>

StarterDies ==
  /\ spc # "done"
  /\ MoreFaults /\ deaths' = deaths + 1
  /\ spc' = "done" /\ todo' = {}
  /\ firing' = [firing EXCEPT ![Start] = None]
  /\ UNCHANGED <<graph, runStatus, wakes, workerVars, passVars, conflicts, refused,
                 resumes>>

--------------------------------------------------------------------------------
\* claimStepForExecution: a first attempt, or one more of a failed step.
Claim(i) ==
  /\ epc[i] = "idle" /\ job[i] > 0
  /\ row[i].status \in {"pending", "failed"}
  /\ SetStatus(i, "running")
  /\ attempt' = [attempt EXCEPT ![i] = @ + IF row[i].status = "failed" THEN 1 ELSE 0]
  /\ WorkerGoto(i, "exec")
  /\ UNCHANGED <<graph, runStatus, wakes, branch, job, handlers, effects,
                 passVars, starterVars, firing, faultVars>>

\* The branch keys a node's function may choose. A loop is left at the bound.
Choices(i) == {b \in DOMAIN graph.next[i[1]] \cup {NoBranch} :
                 i[2] = MaxOrdinal => \A t \in resolveNext(graph, i[1], b) :
                                        ~closesCycle(graph, i[1], t)}

\* invokeGraphNodeRpc returns: effects done, setBranchTaken if it chose one.
Returns(i) ==
  /\ epc[i] = "exec"
  /\ effects' = [effects EXCEPT ![i] = @ + 1]
  /\ \E b \in Choices(i) :
       branch' = [branch EXCEPT ![i] = IF b = NoBranch THEN @ ELSE b]
  /\ WorkerGoto(i, "result")
  /\ UNCHANGED <<graph, runStatus, wakes, row, attempt, job, handlers,
                 passVars, starterVars, firing, faultVars>>

\* It throws: the node's error handlers are queued before the error goes on.
Throws(i) ==
  /\ epc[i] = "exec"
  /\ handlers' = [handlers EXCEPT ![i] = graph.onError[i[1]]]
  /\ WorkerGoto(i, IF graph.onError[i[1]] = {} THEN "error" ELSE "insertHandler")
  /\ UNCHANGED <<graph, runStatus, wakes, row, attempt, branch, job, effects,
                 passVars, starterVars, firing, faultVars>>

\* queueGraphNode of a handler, in two steps; an error of either is what the
\* step then fails with.
InsertHandler(i) ==
  /\ epc[i] = "insertHandler"
  /\ \E n \in handlers[i] :
       \/ /\ Inserts(i, <<n, 0>>, Start)
          /\ handlers' = [handlers EXCEPT ![i] = @ \ {n}]
          /\ WorkerGoto(i, "queueHandler")
       \/ /\ Conflicts(<<n, 0>>)
          /\ handlers' = [handlers EXCEPT ![i] = {}]
          /\ WorkerGoto(i, "error")
  /\ UNCHANGED <<graph, runStatus, wakes, attempt, branch, job, effects,
                 passVars, starterVars, refused, resumes, deaths>>

QueueHandler(i) ==
  /\ epc[i] = "queueHandler"
  /\ \/ /\ Queues(i)
        /\ WorkerGoto(i, IF handlers[i] = {} THEN "error" ELSE "insertHandler")
        /\ UNCHANGED handlers
     \/ /\ QueueRefuses(i)
        /\ handlers' = [handlers EXCEPT ![i] = {}]
        /\ WorkerGoto(i, "error")
  /\ UNCHANGED <<graph, runStatus, wakes, row, attempt, branch, effects,
                 passVars, starterVars, conflicts, resumes, deaths>>

\* setStepResult.
StoreResult(i) ==
  /\ epc[i] = "result"
  /\ SetStatus(i, "succeeded")
  /\ WorkerGoto(i, "wake")
  /\ UNCHANGED <<graph, runStatus, wakes, attempt, branch, job, handlers, effects,
                 passVars, starterVars, firing, faultVars>>

\* resumeWorkflow after it; a refused wake sends the step to the error path.
Wake(i) ==
  /\ epc[i] = "wake"
  /\ \/ /\ resumeWorkflow
        /\ job' = [job EXCEPT ![i] = 0]
        /\ WorkerGoto(i, "idle") /\ UNCHANGED refused
     \/ /\ Refuses
        /\ WorkerGoto(i, "error") /\ UNCHANGED <<wakes, job>>
  /\ UNCHANGED <<graph, runStatus, row, attempt, branch, handlers, effects,
                 passVars, starterVars, firing, conflicts, resumes, deaths>>

\* setStepError; the job comes back while it has attempts left.
StoreError(i) ==
  /\ epc[i] = "error"
  /\ SetStatus(i, "failed")
  /\ IF attempt[i] >= MaxAttempts(i)
     THEN WorkerGoto(i, "lastWake") /\ UNCHANGED job
     ELSE WorkerGoto(i, "idle") /\ job' = [job EXCEPT ![i] = @ - 1]
  /\ UNCHANGED <<graph, runStatus, wakes, attempt, branch, handlers, effects,
                 passVars, starterVars, firing, faultVars>>

\* The wake after the last attempt.
LastWake(i) ==
  /\ epc[i] = "lastWake"
  /\ TryResume
  /\ job' = [job EXCEPT ![i] = @ - 1]
  /\ WorkerGoto(i, "idle")
  /\ UNCHANGED <<graph, runStatus, row, attempt, branch, handlers, effects,
                 passVars, starterVars, firing, conflicts, resumes, deaths>>

\* RPCNotFoundError: executeGraphStep suspends the run and rethrows, the step
\* is written failed and the run suspended once more.
NotFound(i) ==
  /\ epc[i] = "exec" /\ RpcMayBeMissing
  /\ WorkerGoto(i, "suspend")
  /\ UNCHANGED <<graph, runStatus, wakes, row, attempt, branch, job, handlers,
                 effects, passVars, starterVars, firing, faultVars>>

SuspendRun(i) ==
  /\ epc[i] \in {"suspend", "suspendAgain"}
  /\ runStatus' = "suspended"
  /\ WorkerGoto(i, IF epc[i] = "suspend" THEN "missing" ELSE "idle")
  /\ job' = IF epc[i] = "suspend" THEN job ELSE [job EXCEPT ![i] = 0]
  /\ UNCHANGED <<graph, wakes, row, attempt, branch, handlers, effects,
                 passVars, starterVars, firing, faultVars>>

StoreMissing(i) ==
  /\ epc[i] = "missing"
  /\ SetStatus(i, "failed")
  /\ WorkerGoto(i, "suspendAgain")
  /\ UNCHANGED <<graph, runStatus, wakes, attempt, branch, job, handlers, effects,
                 passVars, starterVars, firing, faultVars>>

--------------------------------------------------------------------------------
PassGoto(p, l) == ppc' = [ppc EXCEPT ![p] = l]
NothingKnown == [i \in Instances |-> NoBranch]
NoRows == [i \in Instances |-> NoRow]

\* The pass is over; what it read is forgotten.
Leaves(p) ==
  /\ PassGoto(p, "idle")
  /\ left' = [left EXCEPT ![p] = 0]
  /\ known' = [known EXCEPT ![p] = NothingKnown]
  /\ rows' = [rows EXCEPT ![p] = NoRows]
PassLeave(p) == Leaves(p) /\ UNCHANGED firing

\* Take an orchestrator job and read the run row; a settled run is left alone.
BeginPass(p) ==
  /\ ppc[p] = "idle"
  /\ \E k \in 1..OrchAttempts :
       /\ wakes[k] > 0
       /\ wakes' = [wakes EXCEPT ![k] = @ - 1]
       /\ IF isRunSettled(runStatus) THEN UNCHANGED <<ppc, left>>
          ELSE PassGoto(p, "state") /\ left' = [left EXCEPT ![p] = k]
  /\ UNCHANGED <<graph, runStatus, workerVars, known, rows, firing, starterVars, faultVars>>

ExhaustedNodes_AnyFailed == {i \in Instances : row[i].status = "failed"}
\* failedNodeIds: failed rows with no attempt left.
ExhaustedNodes ==
  {i \in Instances : row[i].status = "failed" /\ attempt[i] >= MaxAttempts(i)}

\* getCompletedGraphState: exhausted nodes, and the branches of finished ones.
ReadState(p) ==
  /\ ppc[p] = "state"
  /\ known' = [known EXCEPT ![p] =
       [i \in Instances |-> IF row[i].status = "succeeded" THEN branch[i] ELSE NoBranch]]
  /\ PassGoto(p, IF ExhaustedNodes # {} THEN "fail" ELSE "run")
  /\ UNCHANGED <<graph, runStatus, wakes, workerVars, left, rows, firing,
                 starterVars, faultVars>>

FailRun(p) ==
  /\ ppc[p] = "fail"
  /\ runStatus' = "failed"
  /\ PassLeave(p)
  /\ UNCHANGED <<graph, wakes, workerVars, starterVars, faultVars>>

\* getRun: a suspended run is left alone.
ReadRun(p) ==
  /\ ppc[p] = "run"
  /\ IF runStatus = "suspended" THEN PassLeave(p)
     ELSE PassGoto(p, "plan") /\ UNCHANGED <<left, known, rows, firing>>
  /\ UNCHANGED <<graph, runStatus, wakes, workerVars, starterVars, faultVars>>

IsComplete_InFlight(rs, kn) == ToFire(graph, rs, kn) = {} /\ ~BlockedWaiting(graph, rs, kn)
\* Nothing to fire, nothing in flight, nothing waiting.
IsComplete(rs, kn) == /\ ToFire(graph, rs, kn) = {}
                      /\ ~HasInFlight(rs)
                      /\ ~BlockedWaiting(graph, rs, kn)

\* getStepInstances and planGraphTransitions.
PlanTransitions(p) ==
  /\ ppc[p] = "plan"
  /\ IF IsComplete(row, known[p])
     THEN PassGoto(p, "complete") /\ UNCHANGED <<left, known, rows, firing>>
     ELSE IF ToFire(graph, row, known[p]) = {} THEN PassLeave(p)
     ELSE /\ rows' = [rows EXCEPT ![p] = row]
          /\ PassGoto(p, "insert") /\ UNCHANGED <<left, known, firing>>
  /\ UNCHANGED <<graph, runStatus, wakes, workerVars, starterVars, faultVars>>

CompleteRun(p) ==
  /\ ppc[p] = "complete"
  /\ runStatus' = "completed"
  /\ PassLeave(p)
  /\ UNCHANGED <<graph, wakes, workerVars, starterVars, faultVars>>

\* queueGraphNode of one planned instance: first its row ...
InsertNode(p) ==
  /\ ppc[p] = "insert"
  /\ \E f \in ToFire(graph, rows[p], known[p]) :
       /\ f.instance \in Instances
       /\ \/ /\ Inserts(p, f.instance, f.from)
             /\ rows' = [rows EXCEPT ![p][f.instance] = Pending(f.from)]
             /\ PassGoto(p, "queue")
          \/ Conflicts(f.instance) /\ PassGoto(p, "throw") /\ UNCHANGED rows
  /\ UNCHANGED <<graph, runStatus, wakes, attempt, branch, job, epc, handlers,
                 effects, left, known, starterVars, refused, resumes, deaths>>

\* ... then its job.
QueueNode(p) ==
  /\ ppc[p] = "queue"
  /\ \/ /\ Queues(p)
        /\ IF ToFire(graph, rows[p], known[p]) = {} THEN Leaves(p)
           ELSE PassGoto(p, "insert") /\ UNCHANGED <<left, known, rows>>
     \/ QueueRefuses(p) /\ PassGoto(p, "throw") /\ UNCHANGED <<left, known, rows>>
  /\ UNCHANGED <<graph, runStatus, wakes, row, attempt, branch, epc, handlers,
                 effects, starterVars, conflicts, resumes, deaths>>

\* orchestrateWorkflow: any other error fails the run, and the job comes back.
ThrowPass(p) ==
  /\ ppc[p] = "throw"
  /\ runStatus' = "failed"
  /\ wakes' = IF left[p] > 1 THEN [wakes EXCEPT ![left[p] - 1] = @ + 1] ELSE wakes
  /\ PassLeave(p)
  /\ UNCHANGED <<graph, workerVars, starterVars, faultVars>>

PassDies(p) ==
  /\ ppc[p] # "idle"
  /\ MoreFaults /\ deaths' = deaths + 1
  /\ wakes' = [wakes EXCEPT ![left[p]] = @ + 1]
  /\ Leaves(p) /\ firing' = [firing EXCEPT ![p] = None]
  /\ UNCHANGED <<graph, runStatus, workerVars, starterVars, conflicts, refused, resumes>>

\* A sweep, or a user, resumes the run, at any time.
Resume ==
  /\ MoreFaults /\ resumes' = resumes + 1
  /\ resumeWorkflow
  /\ UNCHANGED <<graph, runStatus, workerVars, passVars, starterVars, firing,
                 conflicts, refused, deaths>>

WorkerStep(i) ==
  \/ Claim(i) \/ Returns(i) \/ Throws(i) \/ NotFound(i) \/ SuspendRun(i)
  \/ StoreMissing(i) \/ InsertHandler(i) \/ QueueHandler(i) \/ StoreResult(i)
  \/ Wake(i) \/ StoreError(i) \/ LastWake(i)
PassStep(p) ==
  \/ BeginPass(p) \/ ReadState(p) \/ FailRun(p) \/ ReadRun(p) \/ PlanTransitions(p)
  \/ CompleteRun(p) \/ InsertNode(p) \/ QueueNode(p) \/ ThrowPass(p)
Next ==
  \/ StartInsert \/ StartQueue \/ StarterDies \/ Resume
  \/ \E i \in Instances : WorkerStep(i)
  \/ \E p \in Passes : PassStep(p) \/ PassDies(p)

\* planEntryFirings of the entry nodes whose dependencies are satisfied.
EntryInstances(g) ==
  UNION {LET items == ItemsToFire(g, NoRows, n)
         IN  IF isFanned(g, n) THEN {<<n, k>> : k \in items} ELSE {<<n, 0>>} :
           n \in {m \in g.entries : g.deps[m] = {}}}

Init ==
  /\ graph \in Graphs
  /\ runStatus = "running"
  /\ row = NoRows
  /\ attempt = [i \in Instances |-> 1]
  /\ branch = [i \in Instances |-> NoBranch]
  /\ job = [i \in Instances |-> 0]
  /\ wakes = [k \in 1..OrchAttempts |-> 0]
  /\ epc = [i \in Instances |-> "idle"]
  /\ handlers = [i \in Instances |-> {}]
  /\ ppc = [p \in Passes |-> "idle"]
  /\ left = [p \in Passes |-> 0]
  /\ known = [p \in Passes |-> NothingKnown]
  /\ rows = [p \in Passes |-> NoRows]
  /\ spc = "insert"
  /\ todo = EntryInstances(graph)
  /\ firing = [a \in Actors |-> None]
  /\ effects = [i \in Instances |-> 0]
  /\ conflicts = FALSE
  /\ refused = 0
  /\ resumes = 0
  /\ deaths = 0

Spec == Init /\ [][Next]_vars
\* Processes that live go on, and the queue delivers what it holds.
FairSpec == /\ Spec
            /\ WF_vars(StartInsert) /\ WF_vars(StartQueue)
            /\ \A i \in Instances : WF_vars(WorkerStep(i))
            /\ \A p \in Passes : WF_vars(PassStep(p))

--------------------------------------------------------------------------------
\* Every variable keeps its type; the queue and the row agree on the attempts a
\* node has.
TypeOK ==
  /\ graph \in Graphs
  /\ runStatus \in RunStatus
  /\ row \in [Instances -> [status : StepStatus, from : Predecessors]]
  /\ {attempt, job} \subseteq [Instances -> Nat]
  /\ \A i \in Instances : attempt[i] \in 1..MaxAttempts(i) /\ job[i] <= MaxAttempts(i)
  /\ DOMAIN branch = Instances
  /\ \A i \in Instances : branch[i] \in DOMAIN graph.next[i[1]] \cup {NoBranch}
  /\ wakes \in [1..OrchAttempts -> Nat]
  /\ epc \in [Instances -> WorkerPC]
  /\ handlers \in [Instances -> SUBSET Nodes]
  /\ ppc \in [Passes -> PassPC]
  /\ left \in [Passes -> 0..OrchAttempts]
  /\ DOMAIN known = Passes
  /\ rows \in [Passes -> [Instances -> [status : StepStatus, from : Predecessors]]]
  /\ spc \in {"insert", "queue", "done"}
  /\ todo \subseteq Instances
  /\ firing \in [Actors -> Instances \cup {None}]
  /\ effects \in [Instances -> Nat]
  /\ conflicts \in BOOLEAN
  /\ {refused, deaths, resumes} \subseteq Nat

\* The function of a node has returned: of every item, if it is a forEach.
Executed(n) ==
  IF isFanned(graph, n)
  THEN \A k \in 0..MaxOrdinal : k < graph.width[n] => effects[<<n, k>>] > 0
  ELSE \E k \in 0..MaxOrdinal : effects[<<n, k>>] > 0

Handlers == UNION {graph.onError[n] : n \in Nodes}
\* Node n, having chosen b, leads to t.
Leads(n, b, t) == b \in DOMAIN graph.next[n] /\ t \in graph.next[n][b]
Fired == {i \in Instances : row[i].status # "absent"}

\* A join waits: a node the plan fired has all it depends on behind it, the
\* items of a forEach node included, however passes and workers interleave.
JoinsWait ==
  \A i \in Fired : i[1] \notin Handlers => \A n \in graph.deps[i[1]] : Executed(n)

\* A node runs only because the run entered there, because a node it handles
\* the errors of was tried, or because its recorded predecessor returned and
\* took an edge to it. (A refused wake may execute the predecessor again, with
\* another branch.)
OnlyTakenEdges ==
  refused > 0 \/ \A i \in Fired :
    LET f == row[i].from
        tried == \E j \in Fired : i[1] \in graph.onError[j[1]]
    IN  \/ f = Start /\ (i[1] \in graph.entries \/ tried)
        \/ /\ f \in Instances /\ effects[f] > 0
           /\ Leads(f[1], branch[f], i[1])
        \/ \E n \in Nodes : /\ f = <<n>> /\ isFanned(graph, n) /\ Executed(n)
                            /\ Leads(n, NoBranch, i[1])

\* Converging edges make one instance of a node; only an edge that closes a
\* cycle makes another, and no edge makes two.
NodeOncePerForwardEdge ==
  \A i, j \in Fired : i[1] = j[1] /\ i # j /\ ~isFanned(graph, i[1]) =>
    /\ row[i].from # row[j].from
    /\ i[2] > 0 => /\ row[i].from # Start
                   /\ closesCycle(graph, row[i].from[1], i[1])

\* mode: sequential - an item is started only when the one before it is done.
ItemsInTurn ==
  \A i, j \in Fired :
    i[1] = j[1] /\ i[1] \in graph.sequential /\ i[2] < j[2] => effects[i] > 0

\* A run is failed only for a node out of attempts, or by an insert that met
\* another pass or a queue that refused a job.
FailureIsEarned ==
  runStatus = "failed" =>
    \/ conflicts \/ refused > 0
    \/ \E i \in Instances : row[i].status = "failed" /\ attempt[i] = MaxAttempts(i)

Branching == \E n \in Nodes : NoBranch \notin DOMAIN graph.next[n]

\* All the graph asks for has been done, on the branches that were taken.
Finished == /\ \A i \in Fired : row[i].status = "succeeded"
            /\ ToFire(graph, row, branch) = {}
            /\ ~BlockedWaiting(graph, row, branch)

\* A run written completed has nothing to fire, in flight or waiting, as long as
\* its graph does not branch: see CompletedIsComplete for one that does.
CompletedMeansDone ==
  runStatus = "completed" /\ refused = 0 /\ ~Branching => Finished

\* What the pass read of the branches is what the finished nodes chose.
UpToDate(p) == \A i \in Instances :
  row[i].status = "succeeded" => known[p][i] = branch[i]

\* Of any graph: a pass that knows the branches completes the run only when all
\* is done, though others may have planned and fired since it read the rows.
CompletesWhenDone ==
  [][\A p \in Passes : CompleteRun(p) /\ refused = 0 /\ UpToDate(p) => Finished]_vars

\* The same of every run, whatever the pass knew.
CompletedIsComplete == runStatus = "completed" /\ refused = 0 => Finished

\* A run whose processes live and whose queue takes its jobs comes to an end.
RunSettles == <>(runStatus # "running" \/ deaths > 0 \/ refused > 0)
================================================================================
