------------------------------ MODULE ChildRuns ------------------------------
(***************************************************************************)
(* A run and its child runs: WorkflowEngine composed with the runs that    *)
(* its queued sub-workflow calls start.  The worker that claimed such a    *)
(* step creates and wakes a child run and is done; the step's row stays    *)
(* running until a pass of the child has settled the child, written the    *)
(* outcome into the parent's row (onChildWorkflowCompleted / Failed) and   *)
(* woken the parent.                                                       *)
(*                                                                         *)
(* A child's own steps are left to WorkflowEngine: here its body returns,  *)
(* throws, or suspends the child once.                                     *)
(***************************************************************************)
EXTENDS WorkflowEngine

CONSTANTS
  SubWorkflows,   \* the names whose RPC is a workflow
  Children,       \* identities of the child runs that may be created
  MaxChildResumes, \* how often each child may be resumed while suspended
  MaxChildDeaths   \* how many passes of children may die

ASSUME ChildAssumption ==
  /\ \A n \in SubWorkflows : n \in Names /\ Kind[n] = "queued"
  /\ None \notin Children /\ {MaxChildResumes, MaxChildDeaths} \subseteq Nat

VARIABLES
  cstatus,     \* status of each child's run row, "none" before createRun
  parentStep,  \* wire.parentStepId of each child
  cwakes,      \* orchestrator jobs of each child
  cpc,         \* where the child's pass stands that has the child's run lock
  cready,      \* passes of each child that found it unsettled, waiting for the lock
  begun,       \* the child a worker has created and not yet woken
  childResumes, \* how often each child was resumed
  childDeaths  \* deaths of children's passes so far

childVars == <<cstatus, parentStep, cwakes, cpc, cready, begun, childResumes, childDeaths>>
familyVars == <<vars, childVars>>

SubSteps == {s \in Steps : s[1] \in SubWorkflows}
ChildGoto(c, l) == cpc' = [cpc EXCEPT ![c] = l]
SetChild(c, v) == cstatus' = [cstatus EXCEPT ![c] = v]

--------------------------------------------------------------------------------
\* The worker stands before a sub-workflow: it starts a child instead of
\* calling a function.
StartsChild(w) == pc[w] = "exec" /\ at[w] \in SubSteps

\* The worker that runs a sub-workflow step: startWorkflow creates the child.
CreateChild(w) ==
  /\ StartsChild(w) /\ begun[w] = None
  /\ \E c \in Children : cstatus[c] = "none"
  /\ LET c == CHOOSE d \in Children : cstatus[d] = "none"
     IN /\ SetChild(c, "running")
        /\ parentStep' = [parentStep EXCEPT ![c] = at[w]]
        /\ begun' = [begun EXCEPT ![w] = c]
  /\ UNCHANGED <<vars, cwakes, cpc, cready, childResumes, childDeaths>>

WakeChild_NotAwaited(w) ==
  /\ begun[w] # None
  /\ cwakes' = [cwakes EXCEPT ![begun[w]] = @ + 1]
  /\ begun' = [begun EXCEPT ![w] = None]
  /\ SetStatus(at[w], "succeeded")
  /\ Goto(w, "resume")
  /\ UNCHANGED <<runStatus, attempt, queues, mine, at, under, history, faults, engineVars,
                 cstatus, parentStep, cpc, cready, childResumes, childDeaths>>
\* It wakes the child and returns: the step's row stays running
\* (ChildWorkflowStartedException).
WakeChild(w) ==
  /\ begun[w] # None
  /\ cwakes' = [cwakes EXCEPT ![begun[w]] = @ + 1]
  /\ begun' = [begun EXCEPT ![w] = None]
  /\ Goto(w, "ack")
  /\ UNCHANGED <<rows, queues, mine, at, under, history, faults, engineVars,
                 cstatus, parentStep, cpc, cready, childResumes, childDeaths>>

--------------------------------------------------------------------------------
BeginChild_EndStates(c) ==
  /\ cwakes[c] > 0
  /\ cwakes' = [cwakes EXCEPT ![c] = @ - 1]
  /\ cready' = IF cstatus[c] # "running" THEN cready ELSE [cready EXCEPT ![c] = @ + 1]
  /\ UNCHANGED <<vars, cstatus, parentStep, cpc, begun, childResumes, childDeaths>>
\* A pass of the child: a settled child is left alone, another one's run lock
\* waited for.
BeginChild(c) ==
  /\ cwakes[c] > 0
  /\ cwakes' = [cwakes EXCEPT ![c] = @ - 1]
  /\ cready' = IF isRunSettled(cstatus[c]) THEN cready ELSE [cready EXCEPT ![c] = @ + 1]
  /\ UNCHANGED <<vars, cstatus, parentStep, cpc, begun, childResumes, childDeaths>>

\* withRunLock of the child.
EnterChild(c) ==
  /\ cpc[c] = "idle" /\ cready[c] > 0
  /\ cready' = [cready EXCEPT ![c] = @ - 1]
  /\ ChildGoto(c, "body")
  /\ UNCHANGED <<vars, cstatus, parentStep, cwakes, begun, childResumes, childDeaths>>

\* The child's body returned and its run row says so.
ChildCompletes(c) ==
  /\ cpc[c] = "body"
  /\ SetChild(c, "completed")
  /\ effects' = [effects EXCEPT ![parentStep[c]] = @ + 1]
  /\ ChildGoto(c, "result")
  /\ UNCHANGED <<rows, queues, workerState, started, faults, engineVars,
                 parentStep, cwakes, cready, begun, childResumes, childDeaths>>

\* The child's body threw.
ChildFails(c) ==
  /\ cpc[c] = "body"
  /\ SetChild(c, "failed")
  /\ ChildGoto(c, "error")
  /\ UNCHANGED <<vars, parentStep, cwakes, cready, begun, childResumes, childDeaths>>

\* The child's body reached a suspension it has not passed yet. Its status
\* stays suspended when it is resumed.
ChildSuspends(c) ==
  /\ cpc[c] = "body" /\ cstatus[c] = "running"
  /\ SetChild(c, "suspended")
  /\ ChildGoto(c, "over")
  /\ UNCHANGED <<vars, parentStep, cwakes, cready, begun, childResumes, childDeaths>>

\* Somebody resumes it.
ResumeChild(c) ==
  /\ cstatus[c] = "suspended"
  /\ childResumes[c] < MaxChildResumes
  /\ childResumes' = [childResumes EXCEPT ![c] = @ + 1]
  /\ cwakes' = [cwakes EXCEPT ![c] = @ + 1]
  /\ UNCHANGED <<vars, cstatus, parentStep, cpc, cready, begun, childDeaths>>

\* onChildWorkflowFailed writes the parent's step, whatever its row says.
onChildWorkflowFailed(c) == SetStatus(parentStep[c], "failed")
onChildWorkflowCompleted(c) == SetStatus(parentStep[c], "succeeded")

\* The parent's row gets the outcome.
NotifyParent(c) ==
  /\ \/ cpc[c] = "result" /\ onChildWorkflowCompleted(c)
     \/ cpc[c] = "error" /\ onChildWorkflowFailed(c)
  /\ ChildGoto(c, "wake")
  /\ UNCHANGED <<runStatus, attempt, queues, workerState, history, faults,
                 engineVars, cstatus, parentStep, cwakes, cready, begun,
                 childResumes, childDeaths>>

\* The parent is woken.
WakeParent(c) ==
  /\ cpc[c] = "wake"
  /\ resumeWorkflow
  /\ ChildGoto(c, "over")
  /\ UNCHANGED <<rows, job, workerState, history, faults, engineVars,
                 cstatus, parentStep, cwakes, cready, begun, childResumes, childDeaths>>

\* The queue hears that the child's pass is over. A failed child's job comes
\* back once more, to a settled run.
ChildRests(c) ==
  /\ cpc[c] = "over"
  /\ ChildGoto(c, "idle")
  /\ UNCHANGED <<vars, cstatus, parentStep, cwakes, cready, begun, childResumes, childDeaths>>

\* The child's process dies; its job is handed out again.
ChildDies(c) ==
  /\ cpc[c] # "idle"
  /\ childDeaths < MaxChildDeaths
  /\ childDeaths' = childDeaths + 1
  /\ unheard' = IF cpc[c] = "over" THEN unheard + 1 ELSE unheard
  /\ cwakes' = [cwakes EXCEPT ![c] = @ + 1]
  /\ ChildGoto(c, "idle")
  /\ UNCHANGED <<rows, queues, workerState, history, guarded, crashes, redelivered,
                 refused, late, missing, engineVars,
                 cstatus, parentStep, cready, begun, childResumes>>

--------------------------------------------------------------------------------
ChildStep(c) ==
  \/ BeginChild(c) \/ EnterChild(c)
  \/ ChildCompletes(c) \/ ChildFails(c) \/ ChildSuspends(c)
  \/ NotifyParent(c) \/ WakeParent(c) \/ ChildRests(c)

FamilyWorkerStep(w) ==
  \/ ~StartsChild(w) /\ WorkerStep(w) /\ UNCHANGED childVars
  \/ CreateChild(w) \/ WakeChild(w)

FamilyInit ==
  /\ Init
  /\ cstatus = [c \in Children |-> "none"]
  /\ parentStep = [c \in Children |-> None]
  /\ cwakes = [c \in Children |-> 0]
  /\ cpc = [c \in Children |-> "idle"]
  /\ cready = [c \in Children |-> 0]
  /\ begun = [w \in Workers |-> None]
  /\ childResumes = [c \in Children |-> 0]
  /\ childDeaths = 0

FamilyNext ==
  \/ /\ \/ \E p \in Passes : BeginReplay(p) \/ PassStep(p) \/ Die(p)
        \/ \E w \in Workers, j \in Jobs : DeliverStep(w, j)
        \/ \E j \in Jobs : Redeliver(j) /\ UNCHANGED engineVars
        \/ \E s \in Steps : SleepDone(s) \/ SleepResume(s)
        \/ Sweep \/ UserResume
     /\ UNCHANGED childVars
  \/ \E w \in Workers :
       \/ FamilyWorkerStep(w)
       \/ /\ Crash(w) /\ begun' = [begun EXCEPT ![w] = None]
          /\ UNCHANGED <<engineVars, cstatus, parentStep, cwakes, cpc, cready,
                         childResumes, childDeaths>>
  \/ \E c \in Children : ChildStep(c) \/ ResumeChild(c) \/ ChildDies(c)

\* As for one run, and the children's passes run and their suspensions end.
FamilyFairness ==
  /\ \A p \in Passes : WF_familyVars(PassStep(p) /\ UNCHANGED childVars)
  /\ WF_familyVars(\E p \in Passes : BeginReplay(p) /\ UNCHANGED childVars)
  /\ \A w \in Workers : WF_familyVars(FamilyWorkerStep(w))
  /\ \A j \in Jobs :
       WF_familyVars(\E w \in Workers : DeliverStep(w, j) /\ UNCHANGED childVars)
  /\ \A s \in Steps :
       WF_familyVars((SleepDone(s) \/ SleepResume(s)) /\ UNCHANGED childVars)
  /\ WF_familyVars(UserResume /\ UNCHANGED childVars)
  /\ \A c \in Children : WF_familyVars(ChildStep(c)) /\ WF_familyVars(ResumeChild(c))
FamilySteps == FamilyInit /\ [][FamilyNext]_familyVars
FamilySpec == FamilySteps /\ FamilyFairness

--------------------------------------------------------------------------------
\* Type invariant of the children, their passes and the workers that start them.
FamilyTypeOK ==
  /\ TypeOK
  /\ cstatus \in [Children -> RunStatus \cup {"none"}]
  /\ parentStep \in [Children -> SubSteps \cup {None}]
  /\ cwakes \in [Children -> Nat]
  /\ cpc \in [Children -> {"idle", "body", "result", "error", "wake", "over"}]
  /\ cready \in [Children -> Nat]
  /\ begun \in [Workers -> Children \cup {None}]
  /\ childResumes \in [Children -> 0..MaxChildResumes]
  /\ childDeaths \in 0..MaxChildDeaths

Live(c) == cstatus[c] \in {"running", "suspended"}

\* A run does not end over the head of a child it is waiting for, suspended or
\* not: when an orderly run is settled, so is every child it has started.
NoOrphans ==
  Orderly /\ isRunSettled(runStatus) => \A c \in Children : ~Live(c)

\* The run and all its children come to an end, also through suspensions of the
\* children, unless a worker or a child's pass dies on the way or a row is marked
\* behind its worker or timer.
FamilySettles ==
  [](crashes = 0 /\ childDeaths = 0 /\ MarksInTime) =>
    <>(isRunSettled(runStatus) /\ \A c \in Children : ~Live(c))
================================================================================
