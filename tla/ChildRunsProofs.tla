---------------------------- MODULE ChildRunsProofs ----------------------------
(***************************************************************************)
(* Theorems about a run together with its child runs.  A child is Honest:  *)
(* it has been created for a step that has a row, and its outcome is       *)
(* written into that row as succeeded only after its body has returned.    *)
(* With that, what WorkflowEngineProofs shows of the order and the keys of *)
(* a run holds for a run with children, whoever dies.                      *)
(***************************************************************************)
EXTENDS ChildRuns, WorkflowEngineProofs

\* The types of the children and of the workers that start them.
ChildTypeOK ==
  /\ cstatus \in [Children -> RunStatus \cup {"none"}]
  /\ parentStep \in [Children -> SubSteps \cup {None}]
  /\ cwakes \in [Children -> Nat]
  /\ cpc \in [Children -> {"idle", "body", "result", "error", "wake", "over"}]
  /\ cready \in [Children -> Nat]
  /\ begun \in [Workers -> Children \cup {None}]
  /\ childResumes \in [Children -> 0..MaxChildResumes]
  /\ childDeaths \in 0..MaxChildDeaths

\* A child that was never created has nothing to do, one that was has a parent
\* step with a row, whose effects are done when it takes itself for completed.
HonestChild(c) ==
  /\ cstatus[c] = "none" => cpc[c] = "idle" /\ cwakes[c] = 0 /\ cready[c] = 0
  /\ cstatus[c] # "none" => Minted(parentStep[c])
  /\ cpc[c] = "result" => effects[parentStep[c]] > 0

\* A worker that has created a child stands before the step it is for.
HonestStarter(w) == begun[w] # None => StartsChild(w) /\ cstatus[begun[w]] # "none"

FamilyBase ==
  /\ EngineBase /\ ChildTypeOK
  /\ \A c \in Children : HonestChild(c)
  /\ \A w \in Workers : HonestStarter(w)

\* What the steps of children leave of the run itself.
OnlyRows == NothingLost /\ NothingMinted /\ UNCHANGED <<engineVars, runStatus>>

--------------------------------------------------------------------------------
LEMMA FamilyTypes == FamilyTypeOK <=> TypeOK /\ ChildTypeOK
BY DEF FamilyTypeOK, ChildTypeOK

\* Children and starters stand still while the run moves.
LEMMA ChildWaits ==
  ASSUME FamilyBase, NothingLost, NEW c \in Children,
         cstatus'[c] = cstatus[c], cpc'[c] = cpc[c], parentStep'[c] = parentStep[c],
         cwakes'[c] = cwakes[c], cready'[c] = cready[c]
  PROVE  HonestChild(c)'
<1>1. PICK s : s = parentStep[c]
  OBVIOUS
<1>2. /\ cstatus[c] = "none" => cpc[c] = "idle" /\ cwakes[c] = 0 /\ cready[c] = 0
      /\ cstatus[c] # "none" => Minted(s)
      /\ cpc[c] = "result" => effects[s] > 0 /\ Minted(s)
  BY <1>1 DEF FamilyBase, HonestChild
<1>3. (Minted(s) => Minted(s)') /\ (Minted(s) /\ effects[s] > 0 => effects'[s] > 0)
  BY DEF NothingLost, Minted
<1> QED BY <1>1, <1>2, <1>3 DEF HonestChild, Minted

LEMMA StarterWaits ==
  ASSUME FamilyBase, NEW w \in Workers, begun'[w] = begun[w],
         begun[w] # None => pc'[w] = pc[w] /\ at'[w] = at[w],
         \A c \in Children : cstatus[c] # "none" => cstatus'[c] # "none"
  PROVE  HonestStarter(w)'
BY DEF FamilyBase, ChildTypeOK, HonestStarter, StartsChild

\* Rows and queues that change as a worker's or a child's would leave the run
\* itself honest.
LEMMA RunWaits ==
  ASSUME EngineBase, OnlyRows, WorkerTypeOK', Placed', JobsNameSteps', RowsKnown', RowsEarned'
  PROVE  EngineBase'
BY EngineWaits DEF OnlyRows, EngineBase, Honest, TypeOK, PassTypeOK, TimerTypeOK, Calls

\* Steps of the run itself, its workers and its timers.
LEMMA RunKeepsFamily ==
  ASSUME FamilyBase, Next,
         UNCHANGED <<cstatus, parentStep, cwakes, cpc, cready, childResumes, childDeaths>>,
         \A w \in Workers : \/ begun'[w] = None
                            \/ begun'[w] = begun[w] /\ pc'[w] = pc[w] /\ at'[w] = at[w],
         begun' \in [Workers -> Children \cup {None}]
  PROVE  FamilyBase' /\ NothingLost
<1>1. EngineBase' /\ NothingLost
  BY EngineKeeps DEF FamilyBase
<1>2. \A c \in Children : HonestChild(c)'
  BY <1>1, ChildWaits
<1>3. \A w \in Workers : HonestStarter(w)'
  BY StarterWaits DEF HonestStarter
<1>4. ChildTypeOK'
  BY DEF FamilyBase, ChildTypeOK
<1> QED BY <1>1, <1>2, <1>3, <1>4 DEF FamilyBase

--------------------------------------------------------------------------------
\* The worker that starts a child.
LEMMA StartersKeepFamily ==
  ASSUME FamilyBase, NEW w \in Workers, CreateChild(w) \/ WakeChild(w)
  PROVE  FamilyBase' /\ OnlyRows
<1>1. WorkerTypeOK /\ EngineBase
  BY TypeParts DEF FamilyBase, EngineBase
<1>2. CASE CreateChild(w)
  <2>1. OnlyRows /\ UNCHANGED vars /\ UNCHANGED workerVars
    BY <1>2 DEF CreateChild, OnlyRows, vars, workerVars, engineVars, rows, history,
       NothingLost,
                NothingMinted, Minted
  <2>2. EngineBase'
    BY <1>1, <2>1, EngineKeeps
  <2>3. PICK c \in Children :
          /\ cstatus[c] = "none" /\ cstatus' = [cstatus EXCEPT ![c] = "running"]
          /\ parentStep' = [parentStep EXCEPT ![c] = at[w]]
          /\ begun' = [begun EXCEPT ![w] = c]
    BY <1>2 DEF CreateChild, SetChild
  <2>4. at[w] \in SubSteps /\ Minted(at[w]) /\ pc[w] = "exec"
    BY <1>1, <1>2 DEF CreateChild, StartsChild, EngineBase, Honest, RowsKnown
  <2>5. ChildTypeOK'
    BY <1>2, <2>3, <2>4 DEF FamilyBase, ChildTypeOK, RunStatus, CreateChild
  <2>6. HonestChild(c)'
    <3>1. cpc[c] = "idle" /\ cpc' = cpc
      BY <1>2, <2>3 DEF FamilyBase, HonestChild, CreateChild
    <3>2. parentStep'[c] = at[w] /\ cstatus'[c] = "running"
      BY <2>3 DEF FamilyBase, ChildTypeOK
    <3>3. status' = status
      BY <2>1 DEF workerVars, rows
    <3> QED BY <2>4, <3>1, <3>2, <3>3 DEF HonestChild, Minted
  <2>7. \A d \in Children \ {c} : HonestChild(d)'
    <3>1. \A d \in Children \ {c} : /\ cstatus'[d] = cstatus[d] /\ cpc'[d] = cpc[d]
                                   /\ parentStep'[d] = parentStep[d] /\ cwakes'[d] = cwakes[d]
                                   /\ cready'[d] = cready[d]
      BY <1>2, <2>3 DEF FamilyBase, ChildTypeOK, CreateChild
    <3> QED BY <2>1, <3>1, ChildWaits DEF OnlyRows
  <2>8. HonestStarter(w)'
    <3>1. begun'[w] = c /\ cstatus'[c] = "running" /\ pc' = pc /\ at' = at
      BY <2>1, <2>3 DEF FamilyBase, ChildTypeOK, workerVars, workerState
    <3> QED BY <2>4, <3>1 DEF HonestStarter, StartsChild
  <2>9. \A v \in Workers \ {w} : HonestStarter(v)'
    <3>1. \A v \in Workers \ {w} : begun'[v] = begun[v] /\ pc'[v] = pc[v] /\ at'[v] = at[v]
      BY <2>1, <2>3 DEF FamilyBase, ChildTypeOK, workerVars, workerState
    <3>2. \A d \in Children : cstatus[d] # "none" => cstatus'[d] # "none"
      BY <2>3 DEF FamilyBase, ChildTypeOK
    <3> QED BY <3>1, <3>2, StarterWaits
  <2> QED BY <2>1, <2>2, <2>5, <2>6, <2>7, <2>8, <2>9 DEF FamilyBase
<1>3. CASE WakeChild(w)
  <2>1. pc[w] = "exec" /\ cstatus[begun[w]] # "none" /\ begun[w] \in Children /\ at[w] \in Steps
    BY <1>3 DEF WakeChild, FamilyBase, ChildTypeOK, HonestStarter, StartsChild, SubSteps
  <2>2. /\ pc' = [pc EXCEPT ![w] = "ack"]
        /\ UNCHANGED <<rows, queues, mine, at, under, history, faults, engineVars>>
        /\ cwakes' = [cwakes EXCEPT ![begun[w]] = @ + 1]
        /\ begun' = [begun EXCEPT ![w] = None]
        /\ UNCHANGED <<cstatus, parentStep, cpc, cready, childResumes, childDeaths>>
    BY <1>3 DEF WakeChild, Goto
  <2>3. OnlyRows
    BY <2>2 DEF OnlyRows, rows, history, NothingLost, NothingMinted, Minted
  <2>4. WorkerTypeOK'
    BY <1>1, <2>2 DEF WorkerTypeOK, WorkerPC, rows, queues, history, faults
  <2>5. Placed' /\ JobsNameSteps'
    BY <1>1, <2>1, <2>2 DEF EngineBase, Placed, WorkerTypeOK, queues, JobsNameSteps
  <2>6. RowsKnown' /\ RowsEarned'
    <3>1. \A v \in Workers : (pc[v] # "idle" => Minted(at[v]))'
      BY <1>1, <2>1, <2>2 DEF EngineBase, Honest, RowsKnown, WorkerTypeOK, Minted, rows
    <3>2. \A j \in Jobs : HasRow(job[j])'
      BY <1>1, <2>2 DEF EngineBase, Honest, RowsKnown, HasRow, Minted, rows, queues
    <3>3. \A v \in Workers : pc'[v] = "result" => pc[v] = "result"
      BY <1>1, <2>2 DEF WorkerTypeOK
    <3>4. RowsEarned'
      BY <1>1, <2>2, <3>3 DEF EngineBase, Honest, RowsEarned, rows, history
    <3> QED BY <3>1, <3>2, <3>4 DEF RowsKnown
  <2>7. EngineBase'
    BY <1>1, <2>3, <2>4, <2>5, <2>6, RunWaits
  <2>8. ChildTypeOK'
    <3>1. cwakes' \in [Children -> Nat]
      <4>1. cwakes[begun[w]] + 1 \in Nat /\ cwakes \in [Children -> Nat]
        BY <2>1 DEF FamilyBase, ChildTypeOK
      <4> QED BY <2>2, <4>1
    <3> QED BY <2>2, <3>1 DEF FamilyBase, ChildTypeOK
  <2>9. ASSUME NEW c \in Children PROVE HonestChild(c)'
    <3>1. PICK s : s = parentStep[c]
      OBVIOUS
    <3>2. /\ cstatus[c] = "none" => cpc[c] = "idle" /\ cwakes[c] = 0 /\ cready[c] = 0
                                     /\ c # begun[w]
          /\ cstatus[c] # "none" => Minted(s)
          /\ cpc[c] = "result" => effects[s] > 0
      BY <2>1, <3>1 DEF FamilyBase, HonestChild
    <3>3. c # begun[w] => cwakes'[c] = cwakes[c]
      BY <2>2 DEF FamilyBase, ChildTypeOK
    <3> QED BY <2>2, <3>1, <3>2, <3>3 DEF HonestChild, Minted, rows, history
  <2>10. \A v \in Workers : HonestStarter(v)'
    <3>1. \A v \in Workers : v = w \/ (begun'[v] = begun[v] /\ pc'[v] = pc[v] /\ at'[v] = at[v])
      BY <1>1, <2>2 DEF FamilyBase, ChildTypeOK, WorkerTypeOK
    <3>2. HonestStarter(w)'
      BY <2>2 DEF HonestStarter, FamilyBase, ChildTypeOK
    <3> QED BY <2>2, <3>1, <3>2, StarterWaits
  <2> QED BY <2>3, <2>7, <2>8, <2>9, <2>10 DEF FamilyBase
<1> QED BY <1>2, <1>3

\* A step of child c as far as the family goes.
LEMMA OneChildMoves ==
  ASSUME FamilyBase, OnlyRows, NEW c \in Children, EngineBase', ChildTypeOK', HonestChild(c)',
         UNCHANGED <<pc, at, begun, parentStep>>, cstatus[c] # "none" => cstatus'[c] # "none",
         \A d \in Children \ {c} : /\ cstatus'[d] = cstatus[d] /\ cpc'[d] = cpc[d]
                                  /\ cwakes'[d] = cwakes[d] /\ cready'[d] = cready[d]
  PROVE  FamilyBase'
<1>1. \A d \in Children : HonestChild(d)'
  BY ChildWaits DEF OnlyRows
<1>2. \A w \in Workers : HonestStarter(w)'
  BY StarterWaits
<1> QED BY <1>1, <1>2 DEF FamilyBase

\* What children do, and what is done to them.
LEMMA ChildrenKeepFamily ==
  ASSUME FamilyBase, NEW c \in Children, ChildStep(c) \/ ResumeChild(c) \/ ChildDies(c)
  PROVE  FamilyBase' /\ OnlyRows
<1>1. WorkerTypeOK /\ EngineBase /\ ChildTypeOK
  BY TypeParts DEF FamilyBase, EngineBase
<1>2. \A s \in Steps : status[s] = "succeeded" => effects[s] > 0
  BY <1>1 DEF EngineBase, Honest, RowsEarned
<1>3. HonestChild(c)
  BY DEF FamilyBase
<1>4. ASSUME UNCHANGED vars, UNCHANGED <<parentStep, begun>>, ChildTypeOK',
             \A d \in Children \ {c} : /\ cstatus'[d] = cstatus[d] /\ cpc'[d] = cpc[d]
                                      /\ cwakes'[d] = cwakes[d] /\ cready'[d] = cready[d],
             cstatus[c] # "none", cstatus'[c] # "none", cpc'[c] = "result" => cpc[c] = "result"
      PROVE  FamilyBase' /\ OnlyRows
  <2>1. OnlyRows /\ UNCHANGED <<status, effects, pc, at>>
    BY <1>4 DEF OnlyRows, vars, workerVars, workerState, engineVars, rows, history,
       NothingLost,
                NothingMinted, Minted
  <2>2. EngineBase'
    BY <1>1, <1>4, EngineKeeps
  <2>3. HonestChild(c)'
    BY <1>3, <1>4, <2>1 DEF HonestChild, Minted
  <2> QED BY <1>4, <2>1, <2>2, <2>3, OneChildMoves
<1>5. CASE BeginChild(c) \/ EnterChild(c)
  <2>1. cstatus[c] # "none"
    BY <1>3, <1>5 DEF BeginChild, EnterChild, HonestChild, ChildTypeOK
  <2>2. cwakes' \in [Children -> Nat] /\ cready' \in [Children -> Nat]
    <3>1. CASE BeginChild(c)
      <4>1. cwakes[c] - 1 \in Nat /\ cready[c] + 1 \in Nat
        BY <1>1, <3>1 DEF BeginChild, ChildTypeOK
      <4> QED BY <1>1, <3>1, <4>1 DEF BeginChild, ChildTypeOK
    <3>2. CASE EnterChild(c)
      <4>1. cready[c] - 1 \in Nat
        BY <1>1, <3>2 DEF EnterChild, ChildTypeOK
      <4> QED BY <1>1, <3>2, <4>1 DEF EnterChild, ChildTypeOK
    <3> QED BY <1>5, <3>1, <3>2
  <2>3. cpc'[c] \in {"body", cpc[c]} /\ UNCHANGED <<vars, cstatus, parentStep, begun>>
    BY <1>1, <1>5 DEF BeginChild, EnterChild, ChildTypeOK, ChildGoto
  <2>4. ChildTypeOK'
    BY <1>1, <1>5, <2>2 DEF BeginChild, EnterChild, ChildTypeOK, ChildGoto
  <2>5. \A d \in Children \ {c} : /\ cstatus'[d] = cstatus[d] /\ cpc'[d] = cpc[d]
                                  /\ cwakes'[d] = cwakes[d] /\ cready'[d] = cready[d]
    BY <1>1, <1>5 DEF BeginChild, EnterChild, ChildTypeOK, ChildGoto
  <2>6. CASE cpc'[c] = "body"
    BY <1>4, <2>1, <2>3, <2>4, <2>5, <2>6
  <2>7. CASE cpc'[c] = cpc[c]
    BY <1>4, <2>1, <2>3, <2>4, <2>5, <2>7
  <2> QED BY <2>3, <2>6, <2>7
<1>6. CASE ChildCompletes(c)
  <2>1. PICK s \in Steps : s = parentStep[c] /\ Minted(s)
    BY <1>3, <1>6 DEF ChildCompletes, HonestChild, Minted
  <2>2. /\ effects' \in [Steps -> Nat] /\ effects'[s] > 0
        /\ \A t \in Steps : effects[t] > 0 => effects'[t] > 0
    <3>1. effects \in [Steps -> Nat] /\ effects' = [effects EXCEPT ![s] = effects[s] + 1]
      BY <1>1, <1>6, <2>1 DEF ChildCompletes, WorkerTypeOK
    <3>2. effects[s] + 1 \in Nat /\ effects[s] + 1 > 0
      BY <3>1
    <3>3. effects' \in [Steps -> Nat]
      BY <3>1, <3>2
    <3> QED BY <3>1, <3>2, <3>3
  <2>3. OnlyRows
    BY <1>6, <2>2 DEF ChildCompletes, OnlyRows, rows, engineVars, NothingLost,
       NothingMinted, Minted
  <2>4. WorkerTypeOK'
    BY <1>1, <1>6, <2>2 DEF ChildCompletes, WorkerTypeOK, rows, queues, workerState, faults
  <2>5. Placed' /\ JobsNameSteps' /\ RowsKnown' /\ RowsEarned'
    BY <1>1, <1>2, <1>6, <2>2, <2>3, WorkersWait
       DEF ChildCompletes, OnlyRows, rows, queues, workerState
  <2>6. EngineBase'
    BY <1>1, <2>3, <2>4, <2>5, RunWaits
  <2>7. ChildTypeOK' /\ cstatus'[c] = "completed" /\ cpc'[c] = "result"
    BY <1>1, <1>6 DEF ChildCompletes, ChildTypeOK, ChildGoto, SetChild, RunStatus
  <2>8. HonestChild(c)'
    BY <1>6, <2>1, <2>2, <2>3, <2>7
       DEF ChildCompletes, HonestChild, Minted, rows
  <2> QED BY <1>1, <1>6, <2>3, <2>6, <2>7, <2>8, OneChildMoves
          DEF ChildCompletes, ChildTypeOK, ChildGoto, SetChild, workerState
<1>7. CASE ChildFails(c)
  <2>1. ChildTypeOK' /\ cstatus'[c] = "failed" /\ cpc'[c] = "error" /\ cstatus[c] # "none"
    BY <1>1, <1>3, <1>7 DEF ChildFails, ChildTypeOK, ChildGoto, SetChild, RunStatus,
       HonestChild
  <2> QED BY <1>1, <1>4, <1>7, <2>1 DEF ChildFails, ChildTypeOK, ChildGoto, SetChild
<1>8. CASE ChildSuspends(c)
  <2>1. ChildTypeOK' /\ cstatus'[c] = "suspended" /\ cpc'[c] = "over" /\ cstatus[c] # "none"
    BY <1>1, <1>8 DEF ChildSuspends, ChildTypeOK, ChildGoto, SetChild, RunStatus
  <2> QED BY <1>1, <1>4, <1>8, <2>1 DEF ChildSuspends, ChildTypeOK, ChildGoto, SetChild
<1>9. CASE NotifyParent(c)
  <2>1. PICK s \in Steps, v \in {"succeeded", "failed"} :
          /\ s = parentStep[c] /\ Minted(s) /\ SetStatus(s, v)
          /\ v = "succeeded" => effects[s] > 0
    BY <1>3, <1>9 DEF NotifyParent, HonestChild, Minted, onChildWorkflowCompleted,
       onChildWorkflowFailed
  <2>2. /\ \A t : Minted(t)' <=> Minted(t)
        /\ status'[s] = v /\ \A t \in Steps \ {s} : status'[t] = status[t]
    BY <1>1, <2>1, RowWrite
  <2>3. OnlyRows
    BY <1>9, <2>2 DEF NotifyParent, OnlyRows, NothingLost, NothingMinted, engineVars,
       history
  <2>4. WorkerTypeOK'
    BY <1>1, <1>9, <2>1 DEF NotifyParent, SetStatus, StepStatus, WorkerTypeOK, queues,
                            workerState, history, faults
  <2>5. Placed' /\ JobsNameSteps' /\ RowsKnown' /\ RowsEarned'
    <3>1. \A t \in Steps : status'[t] = "succeeded" => effects'[t] > 0
      BY <1>2, <1>9, <2>1, <2>2 DEF NotifyParent, history
    <3> QED BY <1>1, <1>9, <2>3, <3>1, WorkersWait DEF NotifyParent, OnlyRows, queues,
               workerState
  <2>6. EngineBase'
    BY <1>1, <2>3, <2>4, <2>5, RunWaits
  <2>7. ChildTypeOK' /\ cpc'[c] = "wake" /\ cstatus' = cstatus /\ cstatus[c] # "none"
    BY <1>1, <1>3, <1>9 DEF NotifyParent, ChildTypeOK, ChildGoto, HonestChild
  <2>8. HonestChild(c)'
    BY <1>9, <2>1, <2>2, <2>7 DEF NotifyParent, HonestChild, Minted
  <2> QED BY <1>1, <1>9, <2>3, <2>6, <2>7, <2>8, OneChildMoves
          DEF NotifyParent, ChildTypeOK, ChildGoto, workerState
<1>10. CASE WakeParent(c)
  <2>1. OnlyRows
    BY <1>10 DEF WakeParent, OnlyRows, rows, history, engineVars, NothingLost,
       NothingMinted, Minted
  <2>2. wakes' \in [1..OrchAttempts -> Nat]
    BY <1>1, <1>10, WakesTypes DEF WakeParent, resumeWorkflow, WorkerTypeOK
  <2>3. WorkerTypeOK'
    BY <1>1, <1>10, <2>2 DEF WakeParent, WorkerTypeOK, rows, workerState, history, faults
  <2>4. Placed' /\ JobsNameSteps' /\ RowsKnown' /\ RowsEarned'
    BY <1>1, <1>2, <1>10, <2>1, WorkersWait DEF WakeParent, OnlyRows, rows, workerState,
       history
  <2>5. EngineBase'
    BY <1>1, <2>1, <2>3, <2>4, RunWaits
  <2>6. ChildTypeOK' /\ cpc'[c] = "over" /\ cstatus' = cstatus /\ cstatus[c] # "none"
    BY <1>1, <1>3, <1>10 DEF WakeParent, ChildTypeOK, ChildGoto, HonestChild
  <2>7. HonestChild(c)'
    BY <1>3, <1>10, <2>6 DEF WakeParent, HonestChild, Minted, rows
  <2> QED BY <1>1, <1>10, <2>1, <2>5, <2>6, <2>7, OneChildMoves
          DEF WakeParent, ChildTypeOK, ChildGoto, workerState
<1>11. CASE ResumeChild(c)
  <2>1. cwakes' \in [Children -> Nat] /\ childResumes' \in [Children -> 0..MaxChildResumes]
    <3>1. cwakes[c] + 1 \in Nat /\ childResumes[c] + 1 \in 0..MaxChildResumes
      BY <1>1, <1>11, ChildAssumption DEF ResumeChild, ChildTypeOK
    <3> QED BY <1>1, <1>11, <3>1 DEF ResumeChild, ChildTypeOK
  <2>2. ChildTypeOK' /\ cstatus[c] # "none" /\ cstatus' = cstatus /\ cpc' = cpc
    BY <1>1, <1>11, <2>1 DEF ResumeChild, ChildTypeOK
  <2> QED BY <1>1, <1>4, <1>11, <2>2 DEF ResumeChild, ChildTypeOK
<1>12. CASE ChildDies(c)
  <2>1. /\ childDeaths' \in 0..MaxChildDeaths /\ unheard' \in Nat
        /\ UNCHANGED <<rows, queues, workerState, history, guarded, crashes, redelivered,
                       refused, late, missing, engineVars, cstatus, parentStep, cready,
                       begun, childResumes>>
    BY <1>1, <1>12, ChildAssumption DEF ChildDies, ChildTypeOK, WorkerTypeOK
  <2>2. OnlyRows
    BY <2>1 DEF OnlyRows, rows, history, NothingLost, NothingMinted, Minted
  <2>3. WorkerTypeOK'
    BY <1>1, <2>1 DEF WorkerTypeOK, rows, queues, workerState, history
  <2>4. Placed' /\ JobsNameSteps' /\ RowsKnown' /\ RowsEarned'
    BY <1>1, <1>2, <2>1, <2>2, WorkersWait DEF OnlyRows, rows, queues, workerState, history
  <2>5. EngineBase'
    BY <1>1, <2>2, <2>3, <2>4, RunWaits
  <2>6. cwakes' \in [Children -> Nat]
    <3>1. cwakes[c] + 1 \in Nat
      BY <1>1 DEF ChildTypeOK
    <3> QED BY <1>1, <1>12, <3>1 DEF ChildDies, ChildTypeOK
  <2>7. ChildTypeOK' /\ cpc'[c] = "idle" /\ cstatus[c] # "none"
    BY <1>1, <1>3, <1>12, <2>1, <2>6 DEF ChildDies, ChildTypeOK, ChildGoto, HonestChild
  <2>8. HonestChild(c)'
    BY <1>3, <2>1, <2>7 DEF HonestChild, Minted, rows
  <2> QED BY <1>1, <1>12, <2>1, <2>2, <2>5, <2>7, <2>8, OneChildMoves
          DEF ChildDies, ChildTypeOK, ChildGoto, workerState
<1>13. CASE ChildRests(c)
  <2>1. ChildTypeOK' /\ cpc'[c] = "idle" /\ cstatus[c] # "none" /\ cstatus' = cstatus
    BY <1>1, <1>3, <1>13 DEF ChildRests, ChildTypeOK, ChildGoto, HonestChild
  <2> QED BY <1>1, <1>4, <1>13, <2>1 DEF ChildRests, ChildTypeOK, ChildGoto
<1> QED BY <1>5, <1>6, <1>7, <1>8, <1>9, <1>10, <1>11, <1>12, <1>13 DEF ChildStep

--------------------------------------------------------------------------------
\* Whatever happens in the family, it stays honest and nothing is lost; and what
\* is not a step of the run itself touches no more than its rows and queues.
LEMMA FamilyKeeps ==
  ASSUME FamilyBase, [FamilyNext]_familyVars
  PROVE  FamilyBase' /\ NothingLost /\ ([Next]_vars \/ OnlyRows)
<1>1. ChildTypeOK /\ WorkerTypeOK
  BY TypeParts DEF FamilyBase, EngineBase
<1>2. ASSUME Next, UNCHANGED childVars,
             UNCHANGED workerState \/ \E w \in Workers : pc[w] = "idle" /\
               \A v \in Workers \ {w} : pc'[v] = pc[v] /\ at'[v] = at[v]
      PROVE  FamilyBase' /\ NothingLost
  <2>1. \A w \in Workers : pc[w] = "idle" => begun[w] = None
    BY DEF FamilyBase, HonestStarter, StartsChild
  <2> QED BY <1>1, <1>2, <2>1, RunKeepsFamily DEF ChildTypeOK, childVars, workerState
<1>3. ASSUME NEW p \in Passes, BeginReplay(p) \/ PassStep(p) \/ Die(p), UNCHANGED childVars
      PROVE  FamilyBase' /\ NothingLost /\ Next
  <2>1. UNCHANGED workerState
    BY <1>3 DEF BeginReplay, PassStep, Die, ReadSteps, CheckSettled, EnterBody, Reach,
       Dispatch,
       DispatchThrows, MarkScheduled, Park, Begin, BodyEnds, StoreResult, StoreError,
       RetryPending, Rearm, SuspendMissing, OpenSuspension, RecordSuspension, SuspendRunItself,
       FailRun, FailAgain, FailDispatch, Complete, workerVars
  <2>2. Next
    BY <1>3 DEF Next
  <2> QED BY <1>2, <1>3, <2>1, <2>2
<1>4. ASSUME NEW w \in Workers, NEW j \in Jobs, DeliverStep(w, j), UNCHANGED childVars
      PROVE  FamilyBase' /\ NothingLost /\ Next
  <2>1. pc[w] = "idle" /\ \A v \in Workers \ {w} : pc'[v] = pc[v] /\ at'[v] = at[v]
    BY <1>1, <1>4 DEF DeliverStep, Deliver, Goto, WorkerTypeOK
  <2>2. Next
    BY <1>4 DEF Next
  <2> QED BY <1>2, <1>4, <2>1, <2>2
<1>5. ASSUME (\E j \in Jobs : Redeliver(j) /\ UNCHANGED engineVars)
             \/ (\E s \in Steps : SleepDone(s) \/ SleepResume(s)) \/ Sweep \/ UserResume,
             UNCHANGED childVars
      PROVE  FamilyBase' /\ NothingLost /\ Next
  <2>1. UNCHANGED workerState
    BY <1>5 DEF Redeliver, SleepDone, SleepResume, Sweep, UserResume
  <2>2. Next
    BY <1>5 DEF Next
  <2> QED BY <1>2, <1>5, <2>1, <2>2
<1>6. ASSUME NEW w \in Workers, ~StartsChild(w), WorkerStep(w), UNCHANGED childVars
      PROVE  FamilyBase' /\ NothingLost /\ Next
  <2>1. \A v \in Workers \ {w} : pc'[v] = pc[v] /\ at'[v] = at[v]
    BY <1>1, <1>6 DEF WorkerStep, Handle, LoadOwned, LoadClaimable, ClaimWon, ClaimLost,
       MarkRunning, NewAttempt, EnterFunction, RpcReturns, RpcThrows, RpcNotFound, WriteResult,
       Resume, ResumeThrows, WriteError, LastResume, WriteMissing, SuspendRun, JobCompletes,
       JobFails, Leave, Goto,
       workerState, WorkerTypeOK
  <2>2. begun[w] = None
    BY <1>6 DEF FamilyBase, HonestStarter
  <2>3. Next
    BY <1>6 DEF Next
  <2> QED BY <1>1, <1>6, <2>1, <2>2, <2>3, RunKeepsFamily DEF ChildTypeOK, childVars
<1>7. ASSUME NEW w \in Workers, Crash(w), begun' = [begun EXCEPT ![w] = None],
             UNCHANGED <<engineVars, cstatus, parentStep, cwakes, cpc, cready, childResumes,
                         childDeaths>>
      PROVE  FamilyBase' /\ NothingLost /\ Next
  <2>1. \A v \in Workers \ {w} : pc'[v] = pc[v] /\ at'[v] = at[v]
    BY <1>1, <1>7 DEF Crash, Leave, Goto, WorkerTypeOK
  <2>2. /\ begun' \in [Workers -> Children \cup {None}]
        /\ begun'[w] = None /\ \A v \in Workers \ {w} : begun'[v] = begun[v]
    BY <1>1, <1>7 DEF ChildTypeOK
  <2>3. Next
    BY <1>7 DEF Next
  <2> QED BY <1>7, <2>1, <2>2, <2>3, RunKeepsFamily
<1>8. ASSUME NEW w \in Workers, CreateChild(w) \/ WakeChild(w)
      PROVE  FamilyBase' /\ NothingLost /\ OnlyRows
  BY <1>8, StartersKeepFamily DEF OnlyRows
<1>9. ASSUME NEW c \in Children, ChildStep(c) \/ ResumeChild(c) \/ ChildDies(c)
      PROVE  FamilyBase' /\ NothingLost /\ OnlyRows
  BY <1>9, ChildrenKeepFamily DEF OnlyRows
<1>10. ASSUME UNCHANGED familyVars
       PROVE  FamilyBase' /\ NothingLost /\ UNCHANGED vars
  <2>1. UNCHANGED vars /\ UNCHANGED childVars /\ UNCHANGED workerState
    BY <1>10 DEF familyVars, vars, workerVars
  <2>2. EngineBase' /\ NothingLost
    BY <2>1, EngineKeeps DEF FamilyBase
  <2>3. \A c \in Children : HonestChild(c)'
    BY <2>1, <2>2, ChildWaits DEF childVars
  <2>4. \A w \in Workers : HonestStarter(w)'
    BY <2>1, StarterWaits DEF childVars, workerState
  <2> QED BY <1>1, <2>1, <2>2, <2>3, <2>4 DEF FamilyBase, ChildTypeOK, childVars
<1> QED BY <1>3, <1>4, <1>5, <1>6, <1>7, <1>8, <1>9, <1>10 DEF FamilyNext, FamilyWorkerStep

LEMMA FamilyStarts ==
  ASSUME FamilyInit
  PROVE  FamilyBase
<1>1. EngineBase
  BY EngineStarts DEF FamilyInit
<1>2. ChildTypeOK
  BY ChildAssumption DEF FamilyInit, ChildTypeOK
<1>3. \A w \in Workers : HonestStarter(w)
  BY DEF FamilyInit, HonestStarter
<1>4. \A c \in Children : HonestChild(c)
  BY DEF FamilyInit, HonestChild
<1> QED BY <1>1, <1>2, <1>3, <1>4 DEF FamilyBase

\* Types of a run and its children, and honesty: a child's outcome never reaches
\* a parent step that has no row, nor says succeeded before the child's body has
\* returned, whoever dies on the way.
THEOREM FamilyTypeCorrect == FamilySpec => [](FamilyTypeOK /\ \A c \in Children : HonestChild(c))
<1>1. FamilyInit => FamilyBase
  BY FamilyStarts
<1>2. FamilyBase /\ [FamilyNext]_familyVars => FamilyBase'
  BY FamilyKeeps
<1>3. FamilyBase => FamilyTypeOK /\ \A c \in Children : HonestChild(c)
  BY FamilyTypes DEF FamilyBase, EngineBase
<1> QED BY <1>1, <1>2, <1>3, PTL DEF FamilySpec, FamilySteps

--------------------------------------------------------------------------------
FamilyInv == FamilyBase /\ EngineInv

\* Every step of the family keeps what every step of the run does.
LEMMA FamilyInvStep ==
  ASSUME FamilyInv, [FamilyNext]_familyVars
  PROVE  FamilyInv'
<1>1. FamilyBase' /\ NothingLost /\ ([Next]_vars \/ OnlyRows)
  BY FamilyKeeps DEF FamilyInv
<1>2. CASE [Next]_vars
  BY <1>1, <1>2, EngineInvStep DEF FamilyInv
<1>3. CASE OnlyRows
  <2>1. UNCHANGED <<contextShared, ppc, passVars, contextVars>>
    BY <1>3 DEF OnlyRows, engineVars, budgetVars, passVars
  <2>2. SUFFICES ASSUME ~contextShared PROVE InOrder'
    BY <1>1, <2>1 DEF FamilyInv, FamilyBase, EngineInv
  <2>3. InOrder /\ Apart'
    BY <2>1, <2>2 DEF FamilyInv, EngineInv, InOrder, Apart, Alone, Ctx
  <2>4. \A p \in Passes : InPlace(p)'
    BY <1>1, <1>3, <2>1, <2>3, PassStaysInPlace, TypeParts
       DEF FamilyInv, FamilyBase, EngineBase, InOrder, passVars, contextVars
  <2>5. StepsRunInOrder' /\ ReplaysAgreeOnKeys'
    BY <1>3, <2>3, OrderStands DEF OnlyRows, InOrder
  <2>6. CompletedMeansDone'
    BY <1>3, <2>3, CompletedStands DEF OnlyRows, InOrder
  <2> QED BY <2>3, <2>4, <2>5, <2>6 DEF InOrder
<1> QED BY <1>1, <1>2, <1>3

\* In a run that starts children, whatever the children and their deaths do to
\* the rows of its sub-workflow steps, the steps still run in order, the run says
\* completed only when it has done everything, and its replays agree on the keys,
\* until two replays meet in one process.
THEOREM FamilyRunsInOrder ==
  FamilySteps => [](~contextShared =>
                      StepsRunInOrder /\ CompletedMeansDone /\ ReplaysAgreeOnKeys)
<1>1. FamilyInit => FamilyInv
  BY FamilyStarts, EngineInvStarts DEF FamilyInv, FamilyInit
<1>2. FamilyInv /\ [FamilyNext]_familyVars => FamilyInv'
  BY FamilyInvStep
<1>3. FamilyInv => (~contextShared =>
                      StepsRunInOrder /\ CompletedMeansDone /\ ReplaysAgreeOnKeys)
  BY DEF FamilyInv, EngineInv, InOrder
<1> QED BY <1>1, <1>2, <1>3, PTL DEF FamilySteps

================================================================================
