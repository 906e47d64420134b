----------------------------- MODULE GraphRunProofs -----------------------------
(***************************************************************************)
(* Theorems about GraphRun, for every set of graphs, any number of passes, *)
(* retries and faults, and both settings of RpcMayBeMissing.               *)
(*                                                                         *)
(* Base says what the rows, the step queue and the actors that queue nodes *)
(* know of each other; Past says that what a pass has read of the rows is  *)
(* still true when it acts on it, which is what a run without a lock has   *)
(* to rest on.                                                             *)
(***************************************************************************)
EXTENDS GraphRun, FiniteSetTheorems, TLAPS

Row == [status : StepStatus, from : Predecessors]

--------------------------------------------------------------------------------
(* The inductive invariant.                                                    *)

\* What the row of an instance says of the worker that may be at it.
AtRow(i) ==
  /\ row[i].status = "absent" => epc[i] = "idle" /\ job[i] = 0 /\ attempt[i] = 1
  /\ row[i].status = "pending" =>
       epc[i] = "idle" /\ attempt[i] = 1 /\ job[i] \in {0, MaxAttempts(i)}
  /\ row[i].status = "running" =>
       epc[i] \in {"exec", "result", "insertHandler", "queueHandler", "error",
                   "suspend", "missing"}
  /\ row[i].status = "succeeded" =>
       epc[i] \in {"wake", "idle"} \/ (epc[i] = "error" /\ refused > 0)
  /\ row[i].status = "failed" => epc[i] \in {"idle", "lastWake", "suspendAgain"}

\* The attempts its job has left and those that were made add up.
Attempts(i) ==
  /\ epc[i] # "idle" => job[i] + attempt[i] = MaxAttempts(i) + 1
  /\ epc[i] = "lastWake" => attempt[i] = MaxAttempts(i)
  /\ epc[i] = "idle" /\ row[i].status = "failed" =>
       job[i] = 0 \/ job[i] + attempt[i] = MaxAttempts(i)
  /\ epc[i] = "idle" /\ row[i].status = "succeeded" => job[i] = 0

\* Whoever inserted an instance is the only one to queue it.
Unqueued(i) == row[i].status = "pending" /\ job[i] = 0
Reserved == \A a \in Actors : firing[a] # None =>
  /\ Unqueued(firing[a])
  /\ \A b \in Actors \ {a} : firing[b] # firing[a]

AtQueue == /\ spc = "queue" => firing[Start] # None
           /\ \A p \in Passes : ppc[p] = "queue" => firing[p] # None
           /\ \A i \in Instances : epc[i] = "queueHandler" => firing[i] # None

Base == /\ TypeOK
        /\ \A i \in Instances : AtRow(i) /\ Attempts(i)
        /\ Reserved /\ AtQueue

\* A node out of attempts: it stays so, for its job is gone.
Exhausted(i) == row[i].status = "failed" /\ attempt[i] = MaxAttempts(i)
Culprit == conflicts \/ refused > 0 \/ \E i \in Instances : Exhausted(i)
Blame == \A p \in Passes : ppc[p] \in {"throw", "fail"} => Culprit

--------------------------------------------------------------------------------
(* Lemmas about the constants and the rows.                                    *)

LEMMA InstanceParts ==
  /\ \A i \in Instances : i[1] \in Nodes /\ i[2] \in 0..MaxOrdinal /\ i = <<i[1], i[2]>>
  /\ \A n \in Nodes, k \in 0..MaxOrdinal :
       <<n, k>> \in Instances /\ <<n, k>>[1] = n /\ <<n, k>>[2] = k
  /\ \A n \in Nodes : <<n, 0>> \in Instances
  /\ \A n, k, m, l : <<n, k>> = <<m, l>> => n = m /\ k = l
  /\ MaxOrdinal \in Nat
BY OrdinalAssumption DEF Instances

LEMMA ActorParts ==
  /\ None \notin Instances /\ Start \notin Instances
  /\ Passes \subseteq Actors /\ Instances \subseteq Actors /\ Start \in Actors
  /\ \A p \in Passes : p \notin Instances /\ p # Start
  /\ Start \in Predecessors /\ Instances \subseteq Predecessors
BY ValuesAssumption, ActorsAssumption DEF Actors, Instances, Predecessors

LEMMA GraphParts ==
  ASSUME TypeOK
  PROVE  /\ validateGraphReferences(graph)
         /\ \A i \in Instances : MaxAttempts(i) \in Nat /\ MaxAttempts(i) >= 1
<1>1. validateGraphReferences(graph)
  BY GraphsAssumption DEF TypeOK
<1>2. graph.retries \in [Nodes -> Nat]
  BY <1>1 DEF validateGraphReferences
<1> QED BY <1>1, <1>2, InstanceParts DEF MaxAttempts

\* What SetStatus leaves of a row.
LEMMA RowSet ==
  ASSUME row \in [Instances -> Row], NEW i \in Instances, NEW v \in StepStatus, SetStatus(i, v)
  PROVE  /\ row' \in [Instances -> Row]
         /\ row'[i].status = v /\ row'[i].from = row[i].from
         /\ \A j \in Instances : j # i => row'[j] = row[j]
BY DEF SetStatus, Row

LEMMA RowPut ==
  ASSUME row \in [Instances -> Row], NEW i \in Instances, NEW f \in Predecessors,
         row' = [row EXCEPT ![i] = Pending(f)]
  PROVE  /\ row' \in [Instances -> Row]
         /\ row'[i].status = "pending" /\ row'[i].from = f
         /\ \A j \in Instances : j # i => row'[j] = row[j]
BY DEF Pending, Row, StepStatus

--------------------------------------------------------------------------------
(* The actors that queue nodes.                                                *)

LEMMA ReserveInsert ==
  ASSUME Base, NEW a \in Actors, NEW x \in Instances, NEW f \in Predecessors,
         Inserts(a, x, f), UNCHANGED job
  PROVE  Reserved' /\ firing' \in [Actors -> Instances \cup {None}] /\ firing'[a] # None
<1>1. row \in [Instances -> Row] /\ firing \in [Actors -> Instances \cup {None}]
  BY DEF Base, TypeOK, Row
<1>2. row'[x].status = "pending" /\ \A j \in Instances : j # x => row'[j] = row[j]
  BY <1>1, RowPut DEF Inserts
<1>3. firing' \in [Actors -> Instances \cup {None}] /\ firing'[a] = x /\ x # None
  BY <1>1, ActorParts DEF Inserts
<1>4. \A b \in Actors : b # a => firing'[b] = firing[b]
  BY <1>1 DEF Inserts
<1>5. row[x].status = "absent" /\ job[x] = 0
  BY DEF Inserts, Base, AtRow
<1>6. \A b \in Actors : firing[b] # x
  BY <1>5, ActorParts DEF Base, Reserved, Unqueued
<1>7. Reserved
  BY DEF Base
<1> QED BY <1>1, <1>2, <1>3, <1>4, <1>5, <1>6, <1>7 DEF Reserved, Unqueued

LEMMA ReserveDrop ==
  ASSUME Base, NEW a \in Actors,
         firing' = [firing EXCEPT ![a] = None],
         \A i \in Instances : i # firing[a] =>
           UNCHANGED <<row[i], job[i]>>
  PROVE  Reserved' /\ firing' \in [Actors -> Instances \cup {None}]
<1>1. firing \in [Actors -> Instances \cup {None}]
  BY DEF Base, TypeOK
<1>2. firing' \in [Actors -> Instances \cup {None}] /\ firing'[a] = None
  BY <1>1
<1>3. \A b \in Actors : b # a => firing'[b] = firing[b]
  BY <1>1
<1>4. Reserved
  BY DEF Base
<1>5. \A b \in Actors : firing'[b] # None =>
        b # a /\ firing[b] # firing[a] /\ firing[b] \in Instances
  BY <1>1, <1>2, <1>3, <1>4 DEF Reserved
<1>6. \A b \in Actors : firing'[b] # None =>
        row'[firing[b]] = row[firing[b]] /\ job'[firing[b]] = job[firing[b]]
  BY <1>5
<1> QED BY <1>2, <1>3, <1>4, <1>5, <1>6 DEF Reserved, Unqueued

\* An inserted instance stays inserted.
LEMMA ReserveKeep ==
  ASSUME Base, UNCHANGED firing,
         \A i \in Instances : Unqueued(i) => Unqueued(i)'
  PROVE  Reserved'
BY DEF Base, TypeOK, Reserved

--------------------------------------------------------------------------------
(* The workers.                                                                *)

\* What a worker does to its own instance, and all it does.
OwnOnly(i) ==
  /\ row[i].status # "absent" /\ ~Unqueued(i)
  /\ row' \in [Instances -> Row] /\ {attempt', job', effects'} \subseteq [Instances -> Nat]
  /\ epc' \in [Instances -> WorkerPC] /\ handlers' \in [Instances -> SUBSET Nodes]
  /\ runStatus' \in RunStatus /\ wakes' \in [1..OrchAttempts -> Nat]
  /\ refused' \in Nat /\ refused' >= refused /\ DOMAIN branch' = Instances
  /\ \A j \in Instances : branch'[j] \in DOMAIN graph.next[j[1]] \cup {NoBranch}
  /\ UNCHANGED <<graph, passVars, starterVars, firing, conflicts, deaths, resumes>>
  /\ \A j \in Instances : j # i => UNCHANGED <<row[j], attempt[j], job[j], epc[j]>>
  /\ attempt'[i] \in 1..MaxAttempts(i) /\ job'[i] <= MaxAttempts(i)
  /\ epc'[i] # "queueHandler"

LEMMA WorkerKeeps ==
  ASSUME Base, NEW i \in Instances, OwnOnly(i), AtRow(i)', Attempts(i)'
  PROVE  Base'
<1> USE DEF OwnOnly
<1>1. \A j \in Instances : MaxAttempts(j)' = MaxAttempts(j)
  BY DEF MaxAttempts
<1>2. TypeOK'
  <2>1. \A j \in Instances : attempt'[j] \in 1..MaxAttempts(j) /\ job'[j] <= MaxAttempts(j)
    BY DEF Base, TypeOK
  <2> QED BY <1>1, <2>1 DEF Base, TypeOK, Row, passVars, starterVars
<1>3. ASSUME NEW j \in Instances, j # i PROVE AtRow(j)' /\ Attempts(j)'
  <2>1. refused \in Nat /\ AtRow(j) /\ Attempts(j)
    BY DEF Base, TypeOK
  <2> QED BY <1>1, <1>3, <2>1 DEF AtRow, Attempts
<1>4. Reserved'
  BY ReserveKeep DEF Unqueued
<1>5. AtQueue'
  BY DEF Base, AtQueue, passVars, starterVars
<1> QED BY <1>2, <1>3, <1>4, <1>5 DEF Base

\* What is known of an instance and its worker.
WorkerFacts(i) ==
  /\ row \in [Instances -> Row] /\ epc \in [Instances -> WorkerPC]
  /\ attempt \in [Instances -> Nat] /\ job \in [Instances -> Nat]
  /\ effects \in [Instances -> Nat] /\ handlers \in [Instances -> SUBSET Nodes]
  /\ runStatus \in RunStatus /\ wakes \in [1..OrchAttempts -> Nat]
  /\ refused \in Nat /\ DOMAIN branch = Instances
  /\ \A j \in Instances : branch[j] \in DOMAIN graph.next[j[1]] \cup {NoBranch}
  /\ attempt[i] \in Nat /\ attempt[i] >= 1 /\ attempt[i] <= MaxAttempts(i)
  /\ MaxAttempts(i) \in Nat /\ (graph' = graph => MaxAttempts(i)' = MaxAttempts(i))
  /\ job[i] \in Nat /\ job[i] <= MaxAttempts(i)
  /\ AtRow(i) /\ Attempts(i)
  /\ graph.onError \in [Nodes -> SUBSET Nodes] /\ i[1] \in Nodes

LEMMA WorkerTypes == ASSUME Base, NEW i \in Instances PROVE WorkerFacts(i)
<1>1. MaxAttempts(i) \in Nat /\ (graph' = graph => MaxAttempts(i)' = MaxAttempts(i))
  BY GraphParts DEF Base, MaxAttempts
<1>2. graph.onError \in [Nodes -> SUBSET Nodes] /\ i[1] \in Nodes
  BY GraphParts, InstanceParts DEF Base, validateGraphReferences
<1> QED BY <1>1, <1>2 DEF Base, TypeOK, Row, WorkerFacts

LEMMA ResumeTypes ==
  ASSUME wakes \in [1..OrchAttempts -> Nat], resumeWorkflow
  PROVE  wakes' \in [1..OrchAttempts -> Nat]
<1>1. OrchAttempts \in 1..OrchAttempts
  BY AttemptsAssumption
<1> QED BY <1>1 DEF resumeWorkflow

LEMMA WorkerBaseStep ==
  ASSUME Base, NEW i \in Instances,
         \/ Claim(i) \/ Returns(i) \/ Throws(i) \/ NotFound(i) \/ SuspendRun(i)
         \/ StoreMissing(i) \/ StoreResult(i) \/ Wake(i) \/ StoreError(i) \/ LastWake(i)
  PROVE  Base'
<1>0. WorkerFacts(i)
  BY WorkerTypes
<1> USE <1>0 DEF WorkerFacts
<1>1. CASE Claim(i)
  <2>1. row[i].status \in {"pending", "failed"} /\ epc[i] = "idle" /\ job[i] > 0
    BY <1>1 DEF Claim
  <2>2. /\ row' \in [Instances -> Row] /\ row'[i].status = "running"
        /\ \A j \in Instances : j # i => row'[j] = row[j]
    BY <1>1, RowSet DEF Claim, StepStatus
  <2>3. /\ attempt' \in [Instances -> Nat]
        /\ attempt'[i] = attempt[i] + (IF row[i].status = "failed" THEN 1 ELSE 0)
        /\ \A j \in Instances : j # i => attempt'[j] = attempt[j]
    BY <1>1 DEF Claim
  <2>4. epc' = [epc EXCEPT ![i] = "exec"] /\ "exec" \in WorkerPC
    BY <1>1 DEF Claim, WorkerGoto, WorkerPC
  <2>6. attempt'[i] + job[i] = MaxAttempts(i) + 1
    BY <2>1, <2>3 DEF AtRow, Attempts
  <2>7. UNCHANGED <<job, graph>> /\ attempt'[i] \in Nat /\ epc'[i] = "exec"
    BY <1>1, <2>3, <2>4 DEF Claim
  <2>8. AtRow(i)' /\ Attempts(i)' /\ attempt'[i] <= MaxAttempts(i)
    BY <2>1, <2>2, <2>6, <2>7 DEF AtRow, Attempts
  <2>9. OwnOnly(i)
    BY <1>1, <2>1, <2>2, <2>3, <2>4, <2>7, <2>8
       DEF Claim, Unqueued, faultVars, OwnOnly
  <2> QED BY <2>9, <2>8, WorkerKeeps
<1>2. CASE Returns(i)
  <2>1. /\ row[i].status = "running" /\ epc[i] = "exec" /\ UNCHANGED <<row, attempt, job>>
    BY <1>2 DEF Returns, AtRow, Row, StepStatus
  <2>2. epc' = [epc EXCEPT ![i] = "result"] /\ "result" \in WorkerPC
    BY <1>2 DEF Returns, WorkerGoto, WorkerPC
  <2>3. effects' \in [Instances -> Nat]
    BY <1>2 DEF Returns
  <2>4. DOMAIN branch' = Instances /\
        \A j \in Instances : branch'[j] \in DOMAIN graph.next[j[1]] \cup {NoBranch}
    BY <1>2 DEF Returns, Choices
  <2>5. AtRow(i)' /\ Attempts(i)'
    BY <1>2, <2>1, <2>2 DEF AtRow, Attempts, Returns
  <2>9. OwnOnly(i)
    BY <1>2, <2>1, <2>2, <2>3, <2>4, <2>5
       DEF Returns, Unqueued, faultVars, OwnOnly
  <2> QED BY <2>9, <2>5, WorkerKeeps
<1>3. CASE Throws(i)
  <2>1. /\ row[i].status = "running" /\ epc[i] = "exec" /\ UNCHANGED <<row, attempt, job>>
    BY <1>3 DEF Throws, AtRow, Row, StepStatus
  <2>2. PICK l \in {"error", "insertHandler"} : epc' = [epc EXCEPT ![i] = l]
    BY <1>3 DEF Throws, WorkerGoto
  <2>3. handlers' \in [Instances -> SUBSET Nodes]
    BY <1>3 DEF Throws
  <2>4. AtRow(i)' /\ Attempts(i)'
    BY <1>3, <2>1, <2>2 DEF AtRow, Attempts, Throws
  <2>9. OwnOnly(i)
    BY <1>3, <2>1, <2>2, <2>3, <2>4
       DEF Throws, Unqueued, faultVars, WorkerPC, OwnOnly
  <2> QED BY <2>9, <2>4, WorkerKeeps
<1>4. CASE NotFound(i)
  <2>1. /\ row[i].status = "running" /\ epc[i] = "exec" /\ UNCHANGED <<row, attempt, job>>
    BY <1>4 DEF NotFound, AtRow, Row, StepStatus
  <2>2. epc' = [epc EXCEPT ![i] = "suspend"]
    BY <1>4 DEF NotFound, WorkerGoto
  <2>3. AtRow(i)' /\ Attempts(i)'
    BY <1>4, <2>1, <2>2 DEF AtRow, Attempts, NotFound
  <2>9. OwnOnly(i)
    BY <1>4, <2>1, <2>2, <2>3
       DEF NotFound, Unqueued, faultVars, WorkerPC, OwnOnly
  <2> QED BY <2>9, <2>3, WorkerKeeps
<1>5. CASE SuspendRun(i)
  <2>1. row[i].status = (IF epc[i] = "suspend" THEN "running" ELSE "failed")
        /\ epc[i] \in {"suspend", "suspendAgain"} /\ UNCHANGED <<row, attempt>>
    BY <1>5 DEF SuspendRun, AtRow, Row, StepStatus
  <2>2. epc' = [epc EXCEPT ![i] = IF epc[i] = "suspend" THEN "missing" ELSE "idle"]
    BY <1>5 DEF SuspendRun, WorkerGoto
  <2>3. job' = IF epc[i] = "suspend" THEN job ELSE [job EXCEPT ![i] = 0]
    BY <1>5 DEF SuspendRun
  <2>4. AtRow(i)' /\ Attempts(i)'
    BY <1>5, <2>1, <2>2, <2>3 DEF AtRow, Attempts, SuspendRun
  <2>9. OwnOnly(i)
    BY <1>5, <2>1, <2>2, <2>3, <2>4
       DEF SuspendRun, Unqueued, faultVars, WorkerPC, RunStatus, OwnOnly
  <2> QED BY <2>9, <2>4, WorkerKeeps
<1>6. CASE StoreMissing(i)
  <2>1. row[i].status = "running" /\ epc[i] = "missing"
    BY <1>6 DEF StoreMissing, AtRow, Row, StepStatus
  <2>2. /\ row' \in [Instances -> Row] /\ row'[i].status = "failed"
        /\ \A j \in Instances : j # i => row'[j] = row[j]
    BY <1>6, RowSet DEF StoreMissing, StepStatus
  <2>3. epc' = [epc EXCEPT ![i] = "suspendAgain"]
    BY <1>6 DEF StoreMissing, WorkerGoto
  <2>4. AtRow(i)' /\ Attempts(i)'
    BY <1>6, <2>1, <2>2, <2>3 DEF AtRow, Attempts, StoreMissing
  <2>9. OwnOnly(i)
    BY <1>6, <2>1, <2>2, <2>3, <2>4
       DEF StoreMissing, Unqueued, faultVars, WorkerPC, OwnOnly
  <2> QED BY <2>9, <2>4, WorkerKeeps
<1>7. CASE StoreResult(i)
  <2>1. row[i].status = "running" /\ epc[i] = "result"
    BY <1>7 DEF StoreResult, AtRow, Row, StepStatus
  <2>2. /\ row' \in [Instances -> Row] /\ row'[i].status = "succeeded"
        /\ \A j \in Instances : j # i => row'[j] = row[j]
    BY <1>7, RowSet DEF StoreResult, StepStatus
  <2>3. epc' = [epc EXCEPT ![i] = "wake"]
    BY <1>7 DEF StoreResult, WorkerGoto
  <2>4. AtRow(i)' /\ Attempts(i)'
    BY <1>7, <2>1, <2>2, <2>3 DEF AtRow, Attempts, StoreResult
  <2>9. OwnOnly(i)
    BY <1>7, <2>1, <2>2, <2>3, <2>4
       DEF StoreResult, Unqueued, faultVars, WorkerPC, OwnOnly
  <2> QED BY <2>9, <2>4, WorkerKeeps
<1>8. CASE Wake(i)
  <2>1. row[i].status = "succeeded" /\ epc[i] = "wake"
    BY <1>8 DEF Wake, AtRow, Row, StepStatus
  <2>2. UNCHANGED <<graph, runStatus, row, attempt, branch, handlers, effects, passVars,
                    starterVars, firing, conflicts, deaths, resumes>>
    BY <1>8 DEF Wake
  <2>3. wakes' \in [1..OrchAttempts -> Nat] /\ refused' \in Nat /\ refused' >= refused
    BY <1>8, ResumeTypes DEF Wake, Refuses
  <2>4. \/ epc' = [epc EXCEPT ![i] = "idle"] /\ job' = [job EXCEPT ![i] = 0]
        \/ epc' = [epc EXCEPT ![i] = "error"] /\ job' = job /\ refused' > 0
    BY <1>8 DEF Wake, WorkerGoto, Refuses
  <2>5. AtRow(i)' /\ Attempts(i)'
    BY <2>1, <2>2, <2>3, <2>4 DEF AtRow, Attempts
  <2>6. job' \in [Instances -> Nat] /\ job'[i] <= MaxAttempts(i)
        /\ epc' \in [Instances -> WorkerPC] /\ epc'[i] # "queueHandler"
        /\ \A j \in Instances : j # i => job'[j] = job[j] /\ epc'[j] = epc[j]
    <3>1. "idle" \in WorkerPC /\ "error" \in WorkerPC
      BY DEF WorkerPC
    <3>2. CASE epc' = [epc EXCEPT ![i] = "idle"] /\ job' = [job EXCEPT ![i] = 0]
      BY <3>1, <3>2
    <3>3. CASE epc' = [epc EXCEPT ![i] = "error"] /\ job' = job
      BY <3>1, <3>3
    <3> QED BY <2>4, <3>2, <3>3
  <2>9. OwnOnly(i)
    BY <2>1, <2>2, <2>3, <2>6 DEF Unqueued, OwnOnly
  <2> QED BY <2>9, <2>5, WorkerKeeps
<1>9. CASE StoreError(i)
  <2>1. row[i].status \in {"running", "succeeded"} /\ epc[i] = "error"
    BY <1>9 DEF StoreError, AtRow, Row, StepStatus
  <2>2. /\ row' \in [Instances -> Row] /\ row'[i].status = "failed"
        /\ \A j \in Instances : j # i => row'[j] = row[j]
    BY <1>9, RowSet DEF StoreError, StepStatus
  <2>3. job[i] - 1 \in Nat /\ job[i] + attempt[i] = MaxAttempts(i) + 1
    BY <2>1 DEF Attempts
  <2>4. \/ /\ attempt[i] = MaxAttempts(i)
           /\ epc' = [epc EXCEPT ![i] = "lastWake"] /\ job' = job
        \/ /\ attempt[i] < MaxAttempts(i)
           /\ epc' = [epc EXCEPT ![i] = "idle"] /\ job' = [job EXCEPT ![i] = job[i] - 1]
    BY <1>9 DEF StoreError, WorkerGoto
  <2>5. UNCHANGED <<graph, runStatus, wakes, attempt, branch, handlers, effects, passVars,
                    starterVars, firing, refused, conflicts, deaths, resumes>>
    BY <1>9 DEF StoreError, faultVars
  <2>6. AtRow(i)' /\ Attempts(i)'
    <3>1. \/ epc'[i] = "lastWake" /\ attempt[i] = MaxAttempts(i) /\ job'[i] = job[i]
          \/ epc'[i] = "idle" /\ job'[i] = job[i] - 1
      BY <2>4
    <3>2. AtRow(i)'
      BY <2>2, <2>5, <3>1 DEF AtRow
    <3>3. Attempts(i)'
      <4>1. MaxAttempts(i)' = MaxAttempts(i) /\ attempt'[i] = attempt[i]
        BY <2>5
      <4>2. epc'[i] = "lastWake" => job'[i] + attempt'[i] = MaxAttempts(i)' + 1
        BY <2>3, <3>1, <4>1
      <4>3. epc'[i] = "idle" => job'[i] + attempt'[i] = MaxAttempts(i)'
        <5>1. \A a, b, c \in Nat : a + b = c + 1 => (a - 1) + b = c
          OBVIOUS
        <5>2. job[i] \in Nat /\ attempt[i] \in Nat /\ MaxAttempts(i) \in Nat
          OBVIOUS
        <5>3. (job[i] - 1) + attempt[i] = MaxAttempts(i)
          <6> HIDE DEF WorkerFacts
          <6> QED BY <2>3, <5>1, <5>2
        <5> QED BY <3>1, <4>1, <5>3
      <4> QED BY <2>2, <3>1, <4>1, <4>2, <4>3 DEF Attempts
    <3> QED BY <3>2, <3>3
  <2>7. job' \in [Instances -> Nat] /\ job'[i] <= MaxAttempts(i)
        /\ \A j \in Instances : j # i => job'[j] = job[j] /\ epc'[j] = epc[j]
    BY <2>3, <2>4
  <2>9. OwnOnly(i)
    BY <2>1, <2>2, <2>4, <2>5, <2>7 DEF Unqueued, WorkerPC, OwnOnly
  <2> QED BY <2>9, <2>6, WorkerKeeps
<1>10. CASE LastWake(i)
  <2>1. row[i].status = "failed" /\ epc[i] = "lastWake"
    BY <1>10 DEF LastWake, AtRow, Row, StepStatus
  <2>0. UNCHANGED <<graph, runStatus, row, attempt, branch, handlers, effects, passVars,
                    starterVars, firing, conflicts, deaths, resumes>>
    BY <1>10 DEF LastWake
  <2>2. wakes' \in [1..OrchAttempts -> Nat] /\ refused' \in Nat /\ refused' >= refused
    BY <1>10, ResumeTypes DEF LastWake, TryResume, Refuses
  <2>3. job[i] - 1 = 0
    BY <2>1 DEF Attempts
  <2>4. epc' = [epc EXCEPT ![i] = "idle"] /\ job' = [job EXCEPT ![i] = job[i] - 1]
    BY <1>10 DEF LastWake, WorkerGoto
  <2>7. epc'[i] = "idle" /\ job'[i] = 0
    BY <2>3, <2>4
  <2>5. AtRow(i)' /\ Attempts(i)'
    <3>1. AtRow(i)'
      BY <2>0, <2>1, <2>7 DEF AtRow
    <3>2. Attempts(i)'
      BY <2>0, <2>1, <2>7 DEF Attempts
    <3> QED BY <3>1, <3>2
  <2>6. job' \in [Instances -> Nat] /\ job'[i] <= MaxAttempts(i)
        /\ \A j \in Instances : j # i => job'[j] = job[j] /\ epc'[j] = epc[j]
    BY <2>3, <2>4
  <2>9. OwnOnly(i)
    BY <2>0, <2>1, <2>2, <2>4, <2>6, <2>7 DEF Unqueued, WorkerPC, OwnOnly
  <2> QED BY <2>9, <2>5, WorkerKeeps
<1> QED BY <1>1, <1>2, <1>3, <1>4, <1>5, <1>6, <1>7, <1>8, <1>9, <1>10

--------------------------------------------------------------------------------
(* Inserting and queueing, by whichever actor.                                 *)

\* A worker that queues handlers goes on; the step it executes keeps running.
HandlersMove == \A j \in Instances :
  \/ epc'[j] = epc[j]
  \/ /\ row[j].status = "running" /\ epc[j] # "idle"
     /\ epc'[j] \in {"queueHandler", "error", "insertHandler"}

LEMMA RowsInsert ==
  ASSUME Base, NEW a \in Actors, NEW x \in Instances, NEW f \in Predecessors,
         Inserts(a, x, f), UNCHANGED <<graph, attempt, job, refused>>, HandlersMove
  PROVE  row' \in [Instances -> Row] /\ \A j \in Instances : AtRow(j)' /\ Attempts(j)'
<1>1. /\ row' \in [Instances -> Row] /\ row'[x].status = "pending"
      /\ \A j \in Instances : j # x => row'[j] = row[j]
  BY RowPut DEF Inserts, Base, TypeOK, Row
<1>2. row[x].status = "absent"
  BY DEF Inserts
<1>3. ASSUME NEW j \in Instances PROVE AtRow(j)' /\ Attempts(j)'
  <2>1. AtRow(j) /\ Attempts(j) /\ MaxAttempts(j)' = MaxAttempts(j)
    BY DEF Base, MaxAttempts
  <2>2. epc'[j] = epc[j] \/ (/\ row[j].status = "running" /\ epc[j] # "idle"
                            /\ epc'[j] \in {"queueHandler", "error", "insertHandler"})
    BY DEF HandlersMove
  <2>3. CASE j = x
    BY <1>1, <1>2, <2>1, <2>2, <2>3 DEF AtRow, Attempts
  <2>4. CASE j # x
    BY <1>1, <2>1, <2>2, <2>4 DEF AtRow, Attempts
  <2> QED BY <2>3, <2>4
<1> QED BY <1>1, <1>3

LEMMA RowsQueue ==
  ASSUME Base, NEW a \in Actors, firing[a] \in Instances,
         Queues(a) \/ QueueRefuses(a), UNCHANGED <<graph, attempt, row>>, HandlersMove
  PROVE  /\ job' \in [Instances -> Nat] /\ refused' \in Nat
         /\ refused > 0 => refused' > 0
         /\ \A j \in Instances : job'[j] <= MaxAttempts(j) /\ AtRow(j)' /\ Attempts(j)'
         /\ Reserved' /\ firing' \in [Actors -> Instances \cup {None}]
         /\ firing'[a] = None /\ \A b \in Actors : b # a => firing'[b] = firing[b]
<1> DEFINE x == firing[a]
<1>0. firing \in [Actors -> Instances \cup {None}] /\ job \in [Instances -> Nat]
      /\ refused \in Nat /\ \A j \in Instances : job[j] <= MaxAttempts(j)
  BY DEF Base, TypeOK
<1>1. Unqueued(x)
  BY ActorParts DEF Base, Reserved
<1>2. \A j \in Instances : MaxAttempts(j) \in Nat
  BY GraphParts DEF Base
<1>3. refused' \in Nat /\ (refused > 0 => refused' > 0)
  BY <1>0 DEF Queues, QueueRefuses, Refuses
<1>4. firing' = [firing EXCEPT ![a] = None]
  BY DEF Queues, QueueRefuses
<1>5. job' \in [Instances -> Nat] /\ job'[x] \in {0, MaxAttempts(x)}
      /\ \A j \in Instances : j # x => job'[j] = job[j]
  <2>1. CASE Queues(a)
    BY <1>0, <1>2, <2>1 DEF Queues
  <2>2. CASE QueueRefuses(a)
    BY <1>0, <1>1, <2>2 DEF QueueRefuses, Unqueued
  <2> QED BY <2>1, <2>2
<1>6. \A j \in Instances : job'[j] <= MaxAttempts(j)
  BY <1>0, <1>2, <1>5
<1>7. Reserved' /\ firing' \in [Actors -> Instances \cup {None}]
  BY <1>4, <1>5, ReserveDrop
<1>8. ASSUME NEW j \in Instances PROVE AtRow(j)' /\ Attempts(j)'
  <2>1. AtRow(j) /\ Attempts(j) /\ MaxAttempts(j)' = MaxAttempts(j)
    BY DEF Base, MaxAttempts
  <2>2. epc'[j] = epc[j] \/ (/\ row[j].status = "running" /\ epc[j] # "idle"
                            /\ epc'[j] \in {"queueHandler", "error", "insertHandler"})
    BY DEF HandlersMove
  <2>3. CASE j = x
    BY <1>1, <1>3, <1>5, <2>1, <2>2, <2>3 DEF AtRow, Attempts, Unqueued
  <2>4. CASE j # x
    BY <1>3, <1>5, <2>1, <2>2, <2>4 DEF AtRow, Attempts
  <2> QED BY <2>3, <2>4
<1>9. firing'[a] = None /\ \A b \in Actors : b # a => firing'[b] = firing[b]
  BY <1>0, <1>4
<1> QED BY <1>3, <1>5, <1>6, <1>7, <1>8, <1>9

LEMMA HandlerBaseStep ==
  ASSUME Base, NEW i \in Instances, InsertHandler(i) \/ QueueHandler(i)
  PROVE  Base'
<1>0. WorkerFacts(i)
  BY WorkerTypes
<1>1. CASE InsertHandler(i)
  <2>1. PICK n \in handlers[i] :
          \/ /\ Inserts(i, <<n, 0>>, Start)
             /\ handlers' = [handlers EXCEPT ![i] = @ \ {n}]
             /\ WorkerGoto(i, "queueHandler")
          \/ /\ Conflicts(<<n, 0>>)
             /\ handlers' = [handlers EXCEPT ![i] = {}]
             /\ WorkerGoto(i, "error")
    BY <1>1 DEF InsertHandler
  <2>2. <<n, 0>> \in Instances /\ epc[i] = "insertHandler" /\ row[i].status = "running"
    BY <1>0, <1>1, <2>1, InstanceParts DEF InsertHandler, WorkerFacts, AtRow, Row,
       StepStatus
  <2>3. /\ UNCHANGED <<graph, runStatus, wakes, attempt, branch, job, effects, passVars,
                       starterVars, refused, resumes, deaths>>
        /\ \A j \in Instances : MaxAttempts(j)' = MaxAttempts(j)
    BY <1>1 DEF InsertHandler, MaxAttempts
  <2>4. handlers' \in [Instances -> SUBSET Nodes]
    BY ZenonT(40), <1>0, <2>1 DEF WorkerFacts
  <2>5. ASSUME Inserts(i, <<n, 0>>, Start), WorkerGoto(i, "queueHandler") PROVE Base'
    <3>1. epc' \in [Instances -> WorkerPC] /\ HandlersMove
          /\ \A j \in Instances : j # i => epc'[j] = epc[j]
      BY <1>0, <2>2, <2>5 DEF WorkerFacts, WorkerGoto, WorkerPC, HandlersMove
    <3>2. row' \in [Instances -> Row] /\ \A j \in Instances : AtRow(j)' /\ Attempts(j)'
      BY <2>2, <2>3, <2>5, <3>1, RowsInsert, ActorParts
    <3>3. /\ Reserved' /\ firing' \in [Actors -> Instances \cup {None}] /\ firing'[i] # None
      BY <2>2, <2>3, <2>5, ReserveInsert, ActorParts
    <3>4. \A b \in Actors : b # i => firing'[b] = firing[b]
      BY <2>5 DEF Inserts, Base, TypeOK
    <3>5. AtQueue'
      BY <2>3, <3>1, <3>3, <3>4, ActorParts DEF Base, AtQueue, passVars, starterVars
    <3>6. TypeOK'
      BY <2>3, <2>4, <2>5, <3>1, <3>2, <3>3 DEF Base, TypeOK, Row, passVars,
         starterVars, Inserts
    <3> QED BY <3>2, <3>3, <3>5, <3>6 DEF Base
  <2>6. ASSUME Conflicts(<<n, 0>>), WorkerGoto(i, "error") PROVE Base'
    <3>1. /\ epc' \in [Instances -> WorkerPC] /\ epc'[i] = "error"
          /\ \A j \in Instances : j # i => epc'[j] = epc[j]
      BY <1>0, <2>6 DEF WorkerFacts, WorkerGoto, WorkerPC
    <3>2. UNCHANGED <<row, firing>> /\ conflicts' = TRUE
      BY <2>6 DEF Conflicts
    <3>3. ASSUME NEW j \in Instances PROVE AtRow(j)' /\ Attempts(j)'
      <4>1. AtRow(j) /\ Attempts(j)
        BY DEF Base
      <4> QED BY <2>2, <2>3, <3>1, <3>2, <4>1 DEF AtRow, Attempts
    <3>4. Reserved'
      BY <2>3, <3>2, ReserveKeep DEF Unqueued
    <3>5. AtQueue'
      BY <2>3, <3>1, <3>2 DEF Base, AtQueue, passVars, starterVars
    <3>6. TypeOK'
      BY <2>3, <2>4, <3>1, <3>2 DEF Base, TypeOK, passVars, starterVars
    <3> QED BY <3>3, <3>4, <3>5, <3>6 DEF Base
  <2> QED BY <2>1, <2>5, <2>6
<1>2. CASE QueueHandler(i)
  <2>1. PICK l \in {"error", "insertHandler"} : WorkerGoto(i, l)
    BY <1>2 DEF QueueHandler
  <2>2. epc[i] = "queueHandler" /\ row[i].status = "running"
    BY <1>0, <1>2 DEF QueueHandler, WorkerFacts, AtRow, Row, StepStatus
  <2>3. /\ UNCHANGED <<graph, runStatus, wakes, row, attempt, branch, effects,
                       passVars, starterVars, conflicts, resumes, deaths>>
        /\ \A j \in Instances : MaxAttempts(j)' = MaxAttempts(j)
    BY <1>2 DEF QueueHandler, MaxAttempts
  <2>4. handlers' \in [Instances -> SUBSET Nodes]
    BY <1>0, <1>2 DEF QueueHandler, WorkerFacts
  <2>5. Queues(i) \/ QueueRefuses(i)
    BY <1>2 DEF QueueHandler
  <2>6. /\ epc' \in [Instances -> WorkerPC] /\ epc'[i] = l
        /\ \A j \in Instances : j # i => epc'[j] = epc[j]
    BY <1>0, <2>1 DEF WorkerFacts, WorkerGoto, WorkerPC
  <2>7. HandlersMove
    BY <2>2, <2>6 DEF HandlersMove
  <2>8. firing[i] \in Instances /\ i \in Actors
    BY <2>2, ActorParts DEF Base, AtQueue, TypeOK
  <2>9. /\ job' \in [Instances -> Nat] /\ refused' \in Nat
        /\ \A j \in Instances : job'[j] <= MaxAttempts(j) /\ AtRow(j)' /\ Attempts(j)'
        /\ Reserved' /\ firing' \in [Actors -> Instances \cup {None}]
        /\ firing'[i] = None /\ \A b \in Actors : b # i => firing'[b] = firing[b]
    BY <2>3, <2>5, <2>7, <2>8, RowsQueue
  <2>10. AtQueue'
    BY <2>3, <2>6, <2>9, ActorParts DEF Base, AtQueue, passVars, starterVars
  <2>11. TypeOK'
    BY <2>3, <2>4, <2>6, <2>9 DEF Base, TypeOK, passVars, starterVars
  <2> QED BY <2>9, <2>10, <2>11 DEF Base
<1> QED BY <1>1, <1>2

--------------------------------------------------------------------------------
(* What the plan asks for.                                                     *)

LEMMA EdgeParts ==
  ASSUME NEW g, NEW rs, NEW kn, NEW e \in Edges(g, rs, kn)
  PROVE  /\ e = Edge(e.from, e.node, e.target)
         /\ \/ e.from = Start /\ e.node = None /\ e.target \in g.entries
            \/ \E i \in Instances :
                 /\ rs[i].status = "succeeded" /\ ~isFanned(g, i[1])
                 /\ e.from = i /\ e.node = i[1] /\ e.target \in resolveNext(g, i[1], kn[i])
            \/ \E n \in CompletedLogical(g, rs) :
                 /\ isFanned(g, n) /\ e.from = <<n>> /\ e.node = n
                 /\ e.target \in resolveNext(g, n, NoBranch)
<1>1. CASE e \in {Edge(Start, None, t) : t \in g.entries}
  BY <1>1 DEF Edge
<1>2. ASSUME NEW i \in Instances, rs[i].status = "succeeded", ~isFanned(g, i[1]),
             e \in {Edge(i, i[1], t) : t \in resolveNext(g, i[1], kn[i])}
      PROVE  /\ e = Edge(e.from, e.node, e.target) /\ e.from = i /\ e.node = i[1]
             /\ e.target \in resolveNext(g, i[1], kn[i])
  BY <1>2 DEF Edge
<1>3. ASSUME NEW n \in CompletedLogical(g, rs), isFanned(g, n),
             e \in {Edge(<<n>>, n, t) : t \in resolveNext(g, n, NoBranch)}
      PROVE  /\ e = Edge(e.from, e.node, e.target) /\ e.from = <<n>> /\ e.node = n
             /\ e.target \in resolveNext(g, n, NoBranch)
  BY <1>3 DEF Edge
<1> DEFINE FromPlain == {{Edge(i, i[1], t) : t \in resolveNext(g, i[1], kn[i])} :
                         i \in {j \in Instances : /\ rs[j].status = "succeeded"
                                                  /\ ~isFanned(g, j[1])}}
           FromFans == {{Edge(<<n>>, n, t) : t \in resolveNext(g, n, NoBranch)} :
                        n \in {m \in CompletedLogical(g, rs) : isFanned(g, m)}}
<1>4. \/ e \in {Edge(Start, None, t) : t \in g.entries}
      \/ e \in UNION FromPlain \/ e \in UNION FromFans
  BY DEF Edges
<1>5. CASE e \in UNION FromPlain
  <2>1. PICK S \in FromPlain : e \in S
    BY <1>5
  <2>2. PICK i \in {j \in Instances : rs[j].status = "succeeded" /\ ~isFanned(g, j[1])} :
          S = {Edge(i, i[1], t) : t \in resolveNext(g, i[1], kn[i])}
    BY <2>1
  <2> QED BY <1>2, <2>1, <2>2
<1>6. CASE e \in UNION FromFans
  <2>1. PICK S \in FromFans : e \in S
    BY <1>6
  <2>2. PICK n \in {m \in CompletedLogical(g, rs) : isFanned(g, m)} :
          S = {Edge(<<n>>, n, t) : t \in resolveNext(g, n, NoBranch)}
    BY <2>1
  <2> QED BY <1>3, <2>1, <2>2
<1> QED BY <1>1, <1>4, <1>5, <1>6

LEMMA EdgeTypes ==
  ASSUME NEW g, validateGraphReferences(g), NEW rs, NEW kn, NEW e \in Edges(g, rs, kn)
  PROVE  e.target \in Nodes /\ e.from \in Predecessors
<1>1. \A n \in Nodes : \A b : resolveNext(g, n, b) \subseteq Nodes
  BY DEF validateGraphReferences, resolveNext
<1>2. g.entries \subseteq Nodes /\ CompletedLogical(g, rs) \subseteq Nodes
  BY DEF validateGraphReferences, CompletedLogical
<1>3. Start \in Predecessors /\ Instances \subseteq Predecessors
      /\ \A n \in Nodes : <<n>> \in Predecessors
  BY DEF Predecessors
<1>4. CASE e.from = Start /\ e.target \in g.entries
  BY <1>2, <1>3, <1>4
<1>5. ASSUME NEW i \in Instances, e.from = i, e.target \in resolveNext(g, i[1], kn[i])
      PROVE  e.target \in Nodes /\ e.from \in Predecessors
  BY <1>1, <1>3, <1>5, InstanceParts
<1>6. ASSUME NEW n \in CompletedLogical(g, rs), e.from = <<n>>,
             e.target \in resolveNext(g, n, NoBranch)
      PROVE  e.target \in Nodes /\ e.from \in Predecessors
  BY <1>1, <1>2, <1>3, <1>6
<1> QED BY <1>4, <1>5, <1>6, EdgeParts

\* A firing is that of an edge whose target has all it depends on.
LEMMA FireParts ==
  ASSUME NEW g, NEW rs, NEW kn, NEW f \in ToFire(g, rs, kn)
  PROVE  \E e \in Edges(g, rs, kn) :
           /\ areDependenciesSatisfied(g, rs, e.target)
           /\ f \in FireByEdge(g, rs, e)
           /\ f.from = e.from /\ f.instance[1] = e.target
<1>1. PICK e \in Edges(g, rs, kn) :
        areDependenciesSatisfied(g, rs, e.target) /\ f \in FireByEdge(g, rs, e)
  BY DEF ToFire
<1>2. f.from = e.from /\ f.instance[1] = e.target
  BY <1>1 DEF FireByEdge
<1> QED BY <1>1, <1>2

--------------------------------------------------------------------------------
(* The starter, the passes, and the run resumed.                               *)

\* Steps that touch neither rows nor jobs nor workers.
LEMMA RowsStay ==
  ASSUME Base, UNCHANGED <<graph, row, attempt, job, epc>>, refused > 0 => refused' > 0
  PROVE  \A j \in Instances : AtRow(j)' /\ Attempts(j)'
<1> SUFFICES ASSUME NEW j \in Instances PROVE AtRow(j)' /\ Attempts(j)'
  OBVIOUS
<1>1. AtRow(j) /\ Attempts(j)
  BY DEF Base
<1> QED BY <1>1 DEF AtRow, Attempts, MaxAttempts

LEMMA StarterBaseStep ==
  ASSUME Base, StartInsert \/ StartQueue \/ StarterDies PROVE Base'
<1>1. CASE StartInsert
  <2>1. PICK i \in todo :
          \/ Inserts(Start, i, Start) /\ spc' = "queue" /\ todo' = todo \ {i}
          \/ Conflicts(i) /\ spc' = "done" /\ todo' = {}
    BY <1>1 DEF StartInsert
  <2>2. UNCHANGED <<graph, runStatus, wakes, attempt, branch, job, epc, handlers,
                    effects, passVars, refused, resumes, deaths>>
        /\ \A j \in Instances : MaxAttempts(j)' = MaxAttempts(j)
    BY <1>1 DEF StartInsert, MaxAttempts
  <2>3. i \in Instances
    BY DEF Base, TypeOK
  <2>4. ASSUME Inserts(Start, i, Start), spc' = "queue", todo' = todo \ {i} PROVE Base'
    <3>1. HandlersMove
      BY <2>2 DEF HandlersMove
    <3>2. row' \in [Instances -> Row] /\ \A j \in Instances : AtRow(j)' /\ Attempts(j)'
      BY <2>2, <2>3, <2>4, <3>1, RowsInsert, ActorParts
    <3>3. /\ Reserved' /\ firing' \in [Actors -> Instances \cup {None}]
          /\ firing'[Start] # None
      BY <2>2, <2>3, <2>4, ReserveInsert, ActorParts
    <3>4. \A b \in Actors : b # Start => firing'[b] = firing[b]
      BY <2>4 DEF Inserts, Base, TypeOK
    <3>5. AtQueue'
      BY <2>2, <2>4, <3>3, <3>4, ActorParts DEF Base, AtQueue, passVars
    <3>6. TypeOK'
      BY <2>2, <2>4, <3>2, <3>3 DEF Base, TypeOK, Row, passVars, Inserts
    <3> QED BY <3>2, <3>3, <3>5, <3>6 DEF Base
  <2>5. ASSUME Conflicts(i), spc' = "done", todo' = {} PROVE Base'
    <3>1. UNCHANGED <<row, firing>> /\ conflicts' = TRUE
      BY <2>5 DEF Conflicts
    <3>2. \A j \in Instances : AtRow(j)' /\ Attempts(j)'
      BY <2>2, <3>1, RowsStay
    <3>3. Reserved'
      BY <2>2, <3>1, ReserveKeep DEF Unqueued
    <3>4. AtQueue'
      BY <2>2, <2>5, <3>1 DEF Base, AtQueue, passVars
    <3>5. TypeOK'
      BY <2>2, <2>5, <3>1 DEF Base, TypeOK, passVars
    <3> QED BY <3>2, <3>3, <3>4, <3>5 DEF Base
  <2> QED BY <2>1, <2>4, <2>5
<1>2. CASE StartQueue
  <2>1. Queues(Start) \/ QueueRefuses(Start)
    BY <1>2 DEF StartQueue
  <2>2. /\ UNCHANGED <<graph, runStatus, wakes, row, attempt, branch, epc, handlers,
                       effects, passVars, conflicts, resumes, deaths>>
        /\ \A j \in Instances : MaxAttempts(j)' = MaxAttempts(j)
    BY <1>2 DEF StartQueue, MaxAttempts
  <2>3. spc' \in {"insert", "done"} /\ todo' \subseteq todo
    BY <1>2 DEF StartQueue
  <2>4. firing[Start] \in Instances /\ Start \in Actors
    BY <1>2, ActorParts DEF StartQueue, Base, AtQueue, TypeOK
  <2>5. HandlersMove
    BY <2>2 DEF HandlersMove
  <2>6. /\ job' \in [Instances -> Nat] /\ refused' \in Nat
        /\ \A j \in Instances : job'[j] <= MaxAttempts(j) /\ AtRow(j)' /\ Attempts(j)'
        /\ Reserved' /\ firing' \in [Actors -> Instances \cup {None}]
        /\ \A b \in Actors : b # Start => firing'[b] = firing[b]
    BY <2>1, <2>2, <2>4, <2>5, RowsQueue
  <2>7. AtQueue'
    BY <2>2, <2>3, <2>6, ActorParts DEF Base, AtQueue, passVars
  <2>8. TypeOK'
    BY <2>2, <2>3, <2>6 DEF Base, TypeOK, passVars
  <2> QED BY <2>6, <2>7, <2>8 DEF Base
<1>3. CASE StarterDies
  <2>1. /\ UNCHANGED <<graph, runStatus, wakes, row, attempt, branch, job, epc, handlers,
                       effects, passVars, conflicts, refused, resumes>>
        /\ \A j \in Instances : MaxAttempts(j)' = MaxAttempts(j)
    BY <1>3 DEF StarterDies, workerVars, MaxAttempts
  <2>2. /\ spc' = "done" /\ todo' = {} /\ deaths' = deaths + 1
        /\ firing' = [firing EXCEPT ![Start] = None]
    BY <1>3 DEF StarterDies
  <2>3. \A j \in Instances : AtRow(j)' /\ Attempts(j)'
    BY <2>1, RowsStay
  <2>4. Reserved' /\ firing' \in [Actors -> Instances \cup {None}]
    BY <2>1, <2>2, ReserveDrop, ActorParts
  <2>5. \A b \in Actors : b # Start => firing'[b] = firing[b]
    BY <2>2 DEF Base, TypeOK
  <2>6. AtQueue'
    BY <2>1, <2>2, <2>5, ActorParts DEF Base, AtQueue, passVars
  <2>7. TypeOK'
    BY <2>1, <2>2, <2>4 DEF Base, TypeOK, passVars
  <2> QED BY <2>3, <2>4, <2>6, <2>7 DEF Base
<1> QED BY <1>1, <1>2, <1>3

\* Steps of a pass that only read, or write the run.
LEMMA PassKeeps ==
  ASSUME Base, UNCHANGED <<graph, workerVars, firing, starterVars>>,
         {refused', deaths', resumes'} \subseteq Nat, conflicts' \in BOOLEAN, refused' >= refused,
         runStatus' \in RunStatus, wakes' \in [1..OrchAttempts -> Nat],
         ppc' \in [Passes -> PassPC], left' \in [Passes -> 0..OrchAttempts],
         DOMAIN known' = Passes, rows' \in [Passes -> [Instances -> Row]],
         \A p \in Passes : ppc'[p] = "queue" => ppc[p] = "queue"
  PROVE  Base'
<1>1. UNCHANGED <<row, attempt, branch, job, epc, handlers, effects, spc, todo>>
  BY DEF workerVars, starterVars
<1>2. refused > 0 => refused' > 0
  BY DEF Base, TypeOK
<1>3. \A j \in Instances : AtRow(j)' /\ Attempts(j)'
  BY <1>1, <1>2, RowsStay
<1>4. Reserved'
  BY <1>1, ReserveKeep DEF Unqueued
<1>5. AtQueue'
  BY <1>1 DEF Base, AtQueue
<1>6. \A j \in Instances : MaxAttempts(j)' = MaxAttempts(j)
  BY DEF MaxAttempts
<1>7. TypeOK'
  BY <1>1, <1>6 DEF Base, TypeOK, Row
<1> QED BY <1>3, <1>4, <1>5, <1>7 DEF Base

LEMMA LeavesTypes ==
  ASSUME Base, NEW p \in Passes, Leaves(p)
  PROVE  /\ ppc' \in [Passes -> PassPC] /\ left' \in [Passes -> 0..OrchAttempts]
         /\ DOMAIN known' = Passes /\ rows' \in [Passes -> [Instances -> Row]]
         /\ ppc'[p] = "idle" /\ \A q \in Passes : q # p => ppc'[q] = ppc[q]
<1>1. NoRows \in [Instances -> Row]
  BY ActorParts DEF NoRows, NoRow, Row, StepStatus
<1>2. 0 \in 0..OrchAttempts /\ "idle" \in PassPC
  BY AttemptsAssumption DEF PassPC
<1>3. /\ ppc \in [Passes -> PassPC] /\ left \in [Passes -> 0..OrchAttempts]
      /\ DOMAIN known = Passes /\ rows \in [Passes -> [Instances -> Row]]
  BY DEF Base, TypeOK, Row
<1> QED BY <1>1, <1>2, <1>3 DEF Leaves, PassGoto

LEMMA PassBaseStep ==
  ASSUME Base, NEW p \in Passes,
         \/ BeginPass(p) \/ ReadState(p) \/ FailRun(p) \/ ReadRun(p) \/ PlanTransitions(p)
         \/ CompleteRun(p) \/ ThrowPass(p)
  PROVE  Base'
<1>0. /\ ppc \in [Passes -> PassPC] /\ left \in [Passes -> 0..OrchAttempts]
      /\ DOMAIN known = Passes /\ rows \in [Passes -> [Instances -> Row]]
      /\ row \in [Instances -> Row] /\ runStatus \in RunStatus
      /\ wakes \in [1..OrchAttempts -> Nat] /\ conflicts \in BOOLEAN
      /\ {refused, deaths, resumes} \subseteq Nat
  BY DEF Base, TypeOK, Row
<1>1. CASE BeginPass(p)
  <2>1. PICK k \in 1..OrchAttempts :
          /\ wakes[k] > 0 /\ wakes' = [wakes EXCEPT ![k] = @ - 1]
          /\ IF isRunSettled(runStatus) THEN UNCHANGED <<ppc, left>>
             ELSE PassGoto(p, "state") /\ left' = [left EXCEPT ![p] = k]
    BY <1>1 DEF BeginPass
  <2>2. wakes' \in [1..OrchAttempts -> Nat]
    BY <1>0, <2>1
  <2>3. k \in 0..OrchAttempts
    BY AttemptsAssumption
  <2>4. ppc' \in [Passes -> PassPC] /\ left' \in [Passes -> 0..OrchAttempts]
        /\ \A q \in Passes : ppc'[q] = "queue" => ppc[q] = "queue"
    BY <1>0, <2>1, <2>3 DEF PassGoto, PassPC
  <2> QED BY <1>0, <1>1, <2>2, <2>4, PassKeeps DEF BeginPass, faultVars
<1>2. CASE ReadState(p)
  <2>1. PICK l \in {"fail", "run"} : ppc' = [ppc EXCEPT ![p] = l]
    BY <1>2 DEF ReadState, PassGoto
  <2>2. ppc' \in [Passes -> PassPC] /\ DOMAIN known' = Passes
        /\ \A q \in Passes : ppc'[q] = "queue" => ppc[q] = "queue"
    BY <1>0, <1>2, <2>1 DEF ReadState, PassPC
  <2> QED BY <1>0, <1>2, <2>2, PassKeeps DEF ReadState, faultVars
<1>3. CASE FailRun(p) \/ CompleteRun(p)
  <2>1. Leaves(p) /\ UNCHANGED <<graph, wakes, workerVars, starterVars, faultVars, firing>>
        /\ runStatus' \in RunStatus
    BY <1>3 DEF FailRun, CompleteRun, PassLeave, RunStatus
  <2> QED BY <1>0, <2>1, LeavesTypes, PassKeeps DEF faultVars
<1>4. CASE ReadRun(p)
  <2>1. CASE PassLeave(p)
    BY <1>0, <1>4, <2>1, LeavesTypes, PassKeeps DEF ReadRun, PassLeave, faultVars
  <2>2. CASE PassGoto(p, "plan") /\ UNCHANGED <<left, known, rows, firing>>
    BY <1>0, <1>4, <2>2, PassKeeps DEF ReadRun, PassGoto, PassPC, faultVars
  <2> QED BY <1>4, <2>1, <2>2 DEF ReadRun
<1>5. CASE PlanTransitions(p)
  <2>0. UNCHANGED <<graph, runStatus, wakes, workerVars, starterVars, faultVars>>
    BY <1>5 DEF PlanTransitions
  <2>1. CASE PassLeave(p)
    BY <1>0, <2>0, <2>1, LeavesTypes, PassKeeps DEF PassLeave, faultVars
  <2>2. ASSUME PassGoto(p, "complete") \/ PassGoto(p, "insert"),
               UNCHANGED <<left, known, firing>>, rows' \in {rows, [rows EXCEPT ![p] = row]}
        PROVE  Base'
    <3>1. ppc' \in [Passes -> PassPC] /\ rows' \in [Passes -> [Instances -> Row]]
          /\ \A q \in Passes : ppc'[q] = "queue" => ppc[q] = "queue"
      BY <1>0, <2>2 DEF PassGoto, PassPC
    <3> QED BY <1>0, <2>0, <2>2, <3>1, PassKeeps DEF faultVars
  <2> QED BY <1>5, <2>1, <2>2 DEF PlanTransitions
<1>6. CASE ThrowPass(p)
  <2>1. wakes' \in [1..OrchAttempts -> Nat]
    BY <1>0, <1>6, AttemptsAssumption DEF ThrowPass
  <2>2. Leaves(p) /\ UNCHANGED <<graph, workerVars, starterVars, faultVars, firing>>
        /\ runStatus' \in RunStatus
    BY <1>6 DEF ThrowPass, PassLeave, RunStatus
  <2> QED BY <1>0, <2>1, <2>2, LeavesTypes, PassKeeps DEF faultVars
<1> QED BY <1>1, <1>2, <1>3, <1>4, <1>5, <1>6

LEMMA QueueNodeBaseStep ==
  ASSUME Base, NEW p \in Passes, InsertNode(p) \/ QueueNode(p) \/ PassDies(p)
  PROVE  Base'
<1>0. /\ ppc \in [Passes -> PassPC] /\ left \in [Passes -> 0..OrchAttempts]
      /\ DOMAIN known = Passes /\ rows \in [Passes -> [Instances -> Row]]
      /\ row \in [Instances -> Row] /\ p \in Actors
      /\ wakes \in [1..OrchAttempts -> Nat]
  BY ActorParts DEF Base, TypeOK, Row
<1>1. CASE InsertNode(p)
  <2>1. PICK f \in ToFire(graph, rows[p], known[p]) :
          /\ f.instance \in Instances
          /\ \/ /\ Inserts(p, f.instance, f.from)
                /\ rows' = [rows EXCEPT ![p][f.instance] = Pending(f.from)]
                /\ PassGoto(p, "queue")
             \/ Conflicts(f.instance) /\ PassGoto(p, "throw") /\ UNCHANGED rows
    BY <1>1 DEF InsertNode
  <2>2. f.from \in Predecessors
    BY FireParts, EdgeTypes, GraphParts DEF Base
  <2>3. UNCHANGED <<graph, runStatus, wakes, attempt, branch, job, epc, handlers, effects,
                    left, known, starterVars, refused, resumes, deaths>>
        /\ \A j \in Instances : MaxAttempts(j)' = MaxAttempts(j)
    BY <1>1 DEF InsertNode, MaxAttempts
  <2>4. ASSUME Inserts(p, f.instance, f.from), PassGoto(p, "queue"),
               rows' = [rows EXCEPT ![p][f.instance] = Pending(f.from)]
        PROVE  Base'
    <3>1. HandlersMove
      BY <2>3 DEF HandlersMove
    <3>2. row' \in [Instances -> Row] /\ \A j \in Instances : AtRow(j)' /\ Attempts(j)'
      BY <1>0, <2>1, <2>2, <2>3, <2>4, <3>1, RowsInsert
    <3>3. /\ Reserved' /\ firing' \in [Actors -> Instances \cup {None}] /\ firing'[p] # None
      BY <1>0, <2>1, <2>2, <2>3, <2>4, ReserveInsert
    <3>4. \A b \in Actors : b # p => firing'[b] = firing[b]
      BY <2>4 DEF Inserts, Base, TypeOK
    <3>5. ppc' \in [Passes -> PassPC] /\ \A q \in Passes : q # p => ppc'[q] = ppc[q]
      BY <1>0, <2>4 DEF PassGoto, PassPC
    <3>6. AtQueue'
      BY <2>3, <3>3, <3>4, <3>5, ActorParts DEF Base, AtQueue, starterVars
    <3>7. rows' \in [Passes -> [Instances -> Row]]
      <4>1. Pending(f.from) \in Row
        BY <2>2 DEF Pending, Row, StepStatus
      <4> QED BY <1>0, <2>1, <2>4, <4>1
    <3>8. TypeOK'
      BY <2>3, <2>4, <3>2, <3>3, <3>5, <3>7 DEF Base, TypeOK, Row, starterVars, Inserts
    <3> QED BY <3>2, <3>3, <3>6, <3>8 DEF Base
  <2>5. ASSUME Conflicts(f.instance), PassGoto(p, "throw"), UNCHANGED rows PROVE Base'
    <3>1. UNCHANGED <<row, firing>> /\ conflicts' = TRUE
      BY <2>5 DEF Conflicts
    <3>2. ppc' \in [Passes -> PassPC] /\ \A q \in Passes : ppc'[q] = "queue" => ppc[q] = "queue"
      BY <1>0, <2>5 DEF PassGoto, PassPC
    <3>3. {refused, deaths, resumes} \subseteq Nat /\ runStatus \in RunStatus
      BY DEF Base, TypeOK
    <3> QED BY <1>0, <2>3, <2>5, <3>1, <3>2, <3>3, PassKeeps DEF workerVars
  <2> QED BY <2>1, <2>4, <2>5
<1>2. CASE QueueNode(p)
  <2>1. /\ UNCHANGED <<graph, runStatus, wakes, row, attempt, branch, epc, handlers,
                       effects, starterVars, conflicts, resumes, deaths>>
        /\ \A j \in Instances : MaxAttempts(j)' = MaxAttempts(j)
    BY <1>2 DEF QueueNode, MaxAttempts
  <2>2. Queues(p) \/ QueueRefuses(p)
    BY <1>2 DEF QueueNode
  <2>3. firing[p] \in Instances
    BY <1>0, <1>2 DEF QueueNode, Base, AtQueue, TypeOK
  <2>4. HandlersMove
    BY <2>1 DEF HandlersMove
  <2>5. /\ job' \in [Instances -> Nat] /\ refused' \in Nat
        /\ \A j \in Instances : job'[j] <= MaxAttempts(j) /\ AtRow(j)' /\ Attempts(j)'
        /\ Reserved' /\ firing' \in [Actors -> Instances \cup {None}]
        /\ \A b \in Actors : b # p => firing'[b] = firing[b]
    BY <1>0, <2>1, <2>2, <2>3, <2>4, RowsQueue
  <2>6. /\ ppc' \in [Passes -> PassPC] /\ left' \in [Passes -> 0..OrchAttempts]
        /\ DOMAIN known' = Passes /\ rows' \in [Passes -> [Instances -> Row]]
        /\ ppc'[p] # "queue" /\ \A q \in Passes : q # p => ppc'[q] = ppc[q]
    <3>1. CASE Leaves(p)
      BY <3>1, LeavesTypes
    <3>2. CASE (PassGoto(p, "insert") \/ PassGoto(p, "throw")) /\ UNCHANGED <<left, known, rows>>
      BY <1>0, <3>2 DEF PassGoto, PassPC
    <3> QED BY <1>2, <3>1, <3>2 DEF QueueNode
  <2>7. AtQueue'
    BY <2>1, <2>5, <2>6, ActorParts DEF Base, AtQueue, starterVars
  <2>8. TypeOK'
    BY <2>1, <2>5, <2>6 DEF Base, TypeOK, Row, starterVars
  <2> QED BY <2>5, <2>7, <2>8 DEF Base
<1>3. CASE PassDies(p)
  <2>1. /\ UNCHANGED <<graph, runStatus, row, attempt, branch, job, epc, handlers,
                       effects, starterVars, conflicts, refused, resumes>>
        /\ \A j \in Instances : MaxAttempts(j)' = MaxAttempts(j)
    BY <1>3 DEF PassDies, workerVars, MaxAttempts
  <2>2. /\ Leaves(p) /\ firing' = [firing EXCEPT ![p] = None]
        /\ deaths' = deaths + 1 /\ wakes' = [wakes EXCEPT ![left[p]] = @ + 1]
    BY <1>3 DEF PassDies
  <2>3. \A j \in Instances : AtRow(j)' /\ Attempts(j)'
    BY <2>1, RowsStay
  <2>4. Reserved' /\ firing' \in [Actors -> Instances \cup {None}]
    BY <1>0, <2>1, <2>2, ReserveDrop
  <2>5. \A b \in Actors : b # p => firing'[b] = firing[b]
    BY <2>2 DEF Base, TypeOK
  <2>6. wakes' \in [1..OrchAttempts -> Nat]
    <3>1. CASE left[p] \in 1..OrchAttempts
      <4>1. wakes[left[p]] + 1 \in Nat
        BY <1>0, <3>1
      <4> QED BY <1>0, <2>2, <4>1
    <3>2. CASE left[p] \notin 1..OrchAttempts
      BY <1>0, <2>2, <3>2
    <3> QED BY <3>1, <3>2
  <2>7. AtQueue'
    BY <2>1, <2>2, <2>5, ActorParts, LeavesTypes DEF Base, AtQueue, starterVars
  <2>8. TypeOK'
    BY <2>1, <2>2, <2>4, <2>6, LeavesTypes DEF Base, TypeOK, Row, starterVars
  <2> QED BY <2>3, <2>4, <2>7, <2>8 DEF Base
<1> QED BY <1>1, <1>2, <1>3

LEMMA ResumeBaseStep == ASSUME Base, Resume PROVE Base'
<1>1. wakes' \in [1..OrchAttempts -> Nat]
  BY ResumeTypes DEF Resume, Base, TypeOK
<1>2. /\ {refused, deaths, resumes'} \subseteq Nat /\ runStatus \in RunStatus
      /\ ppc \in [Passes -> PassPC] /\ left \in [Passes -> 0..OrchAttempts]
      /\ DOMAIN known = Passes /\ rows \in [Passes -> [Instances -> Row]]
      /\ conflicts \in BOOLEAN
  BY DEF Base, TypeOK, Row, Resume
<1> QED BY <1>1, <1>2, PassKeeps DEF Resume, passVars

LEMMA BaseStep == ASSUME Base, [Next]_vars PROVE Base'
<1>1. ASSUME NEW i \in Instances, WorkerStep(i) PROVE Base'
  BY <1>1, WorkerBaseStep, HandlerBaseStep DEF WorkerStep
<1>2. ASSUME NEW p \in Passes, PassStep(p) \/ PassDies(p) PROVE Base'
  BY <1>2, PassBaseStep, QueueNodeBaseStep DEF PassStep
<1>3. CASE StartInsert \/ StartQueue \/ StarterDies \/ Resume
  BY <1>3, StarterBaseStep, ResumeBaseStep
<1>4. CASE UNCHANGED vars
  <2>1. /\ {refused, deaths, resumes} \subseteq Nat /\ runStatus \in RunStatus
        /\ ppc \in [Passes -> PassPC] /\ left \in [Passes -> 0..OrchAttempts]
        /\ DOMAIN known = Passes /\ rows \in [Passes -> [Instances -> Row]]
        /\ conflicts \in BOOLEAN /\ wakes \in [1..OrchAttempts -> Nat]
    BY DEF Base, TypeOK, Row
  <2> QED BY <1>4, <2>1, PassKeeps DEF vars, passVars, faultVars
<1> QED BY <1>1, <1>2, <1>3, <1>4 DEF Next

--------------------------------------------------------------------------------
(* What no step takes back.                                                    *)

Grows ==
  /\ graph' = graph /\ (refused' = 0 => refused = 0) /\ (conflicts => conflicts')
  /\ \A i \in Instances :
       /\ row[i].status # "absent" => row'[i].status # "absent" /\ row'[i].from = row[i].from
       /\ effects[i] > 0 => effects'[i] > 0
       /\ refused' = 0 /\ row[i].status = "succeeded" =>
            row'[i].status = "succeeded" /\ branch'[i] = branch[i]
       /\ Exhausted(i) => Exhausted(i)'

LEMMA GrowsOn ==
  ASSUME Base, UNCHANGED <<graph, attempt, branch, effects>>, refused' \in Nat,
         refused' >= refused, conflicts => conflicts',
         \A j \in Instances : row[j].status # "absent" => row'[j] = row[j]
  PROVE  Grows
<1>1. \A i \in Instances : effects[i] > 0 => effects'[i] > 0
  OBVIOUS
<1>2. refused' = 0 => refused = 0
  BY DEF Base, TypeOK
<1>3. \A i \in Instances : Exhausted(i) => Exhausted(i)'
  BY DEF Exhausted, MaxAttempts
<1> QED BY <1>1, <1>2, <1>3 DEF Grows

LEMMA InsertGrows ==
  ASSUME Base, NEW a \in Actors, NEW x \in Instances, NEW f \in Predecessors,
         Inserts(a, x, f), UNCHANGED <<graph, attempt, branch, effects, refused>>
  PROVE  Grows
<1>1. \A j \in Instances : row[j].status # "absent" => row'[j] = row[j]
  BY RowPut DEF Inserts, Base, TypeOK, Row
<1>2. refused' \in Nat /\ refused' >= refused
  BY DEF Base, TypeOK
<1> QED BY <1>1, <1>2, GrowsOn DEF Inserts

\* A worker that writes its row.
LEMMA WriteGrows ==
  ASSUME Base, NEW i \in Instances,
         Claim(i) \/ StoreResult(i) \/ StoreError(i) \/ StoreMissing(i)
  PROVE  Grows
<1>0. WorkerFacts(i)
  BY WorkerTypes
<1>1. UNCHANGED <<graph, branch, effects, refused, conflicts>>
  BY DEF Claim, StoreResult, StoreError, StoreMissing, faultVars
<1>2. PICK v \in {"running", "succeeded", "failed"} : SetStatus(i, v)
  BY DEF Claim, StoreResult, StoreError, StoreMissing
<1>3. /\ row'[i].status = v /\ row'[i].from = row[i].from
      /\ \A j \in Instances : j # i => row'[j] = row[j]
  BY <1>0, <1>2, RowSet DEF WorkerFacts, StepStatus
<1>4. \A j \in Instances : j # i => attempt'[j] = attempt[j]
  BY <1>0 DEF WorkerFacts, Claim, StoreResult, StoreError, StoreMissing
<1>5. row[i].status = "succeeded" => refused > 0
  <2>1. CASE Claim(i)
    BY <2>1 DEF Claim
  <2>2. CASE StoreResult(i) \/ StoreError(i) \/ StoreMissing(i)
    BY <1>0, <2>2 DEF WorkerFacts, AtRow, StoreResult, StoreError, StoreMissing
  <2> QED BY <2>1, <2>2
<1>6. ~Exhausted(i)
  <2>1. CASE Claim(i)
    <3>1. Exhausted(i) => job[i] = 0 \/ job[i] + attempt[i] = attempt[i]
      BY <1>0, <2>1 DEF WorkerFacts, Attempts, Exhausted, Claim
    <3>2. job[i] > 0 /\ job[i] \in Nat /\ attempt[i] \in Nat
      BY <1>0, <2>1 DEF Claim, WorkerFacts
    <3> QED BY <3>1, <3>2
  <2>2. CASE StoreResult(i) \/ StoreError(i) \/ StoreMissing(i)
    BY <1>0, <2>2 DEF WorkerFacts, AtRow, StoreResult, StoreError, StoreMissing, Exhausted
  <2> QED BY <2>1, <2>2
<1>7. ASSUME NEW j \in Instances
      PROVE  /\ row[j].status # "absent" =>
                  row'[j].status # "absent" /\ row'[j].from = row[j].from
             /\ effects[j] > 0 => effects'[j] > 0
             /\ refused' = 0 /\ row[j].status = "succeeded" =>
                  row'[j].status = "succeeded" /\ branch'[j] = branch[j]
             /\ Exhausted(j) => Exhausted(j)'
  <2>1. refused \in Nat
    BY <1>0 DEF WorkerFacts
  <2>2. CASE j = i
    BY <1>1, <1>3, <1>5, <1>6, <2>1, <2>2
  <2>3. CASE j # i
    BY <1>1, <1>3, <1>4, <2>3 DEF Exhausted, MaxAttempts
  <2> QED BY <2>2, <2>3
<1> QED BY <1>1, <1>7 DEF Grows

LEMMA ReturnGrows == ASSUME Base, NEW i \in Instances, Returns(i) PROVE Grows
<1>0. WorkerFacts(i) /\ row[i].status = "running"
  BY ZenonT(40), WorkerTypes DEF WorkerFacts, AtRow, Returns, Row, StepStatus
<1>1. UNCHANGED <<graph, row, attempt, refused, conflicts>>
  BY DEF Returns, faultVars
<1>2. \A j \in Instances : effects[j] > 0 => effects'[j] > 0
  BY <1>0 DEF Returns, WorkerFacts
<1>3. \A j \in Instances : j # i => branch'[j] = branch[j]
  BY <1>0 DEF Returns, WorkerFacts
<1> QED BY <1>0, <1>1, <1>2, <1>3 DEF Grows, Exhausted, MaxAttempts

LEMMA GrowsStep == ASSUME Base, [Next]_vars PROVE Grows
<1>0. refused \in Nat /\ Start \in Actors /\ Start \in Predecessors
      /\ Passes \subseteq Actors /\ Instances \subseteq Actors
      /\ \A n \in Nodes : <<n, 0>> \in Instances
  BY ActorParts, InstanceParts DEF Base, TypeOK
<1>1. ASSUME NEW i \in Instances, Throws(i) \/ NotFound(i) \/ SuspendRun(i) PROVE Grows
  BY <1>0, <1>1, GrowsOn DEF Throws, NotFound, SuspendRun, faultVars
<1>2. ASSUME NEW i \in Instances, Wake(i) \/ LastWake(i) PROVE Grows
  <2>1. refused' \in Nat /\ refused' >= refused
    BY <1>0, <1>2 DEF Wake, LastWake, TryResume, Refuses
  <2> QED BY <1>2, <2>1, GrowsOn DEF Wake, LastWake
<1>3. ASSUME NEW i \in Instances, InsertHandler(i) PROVE Grows
  <2>1. PICK n \in handlers[i] : Inserts(i, <<n, 0>>, Start) \/ Conflicts(<<n, 0>>)
    BY <1>3 DEF InsertHandler
  <2>2. n \in Nodes
    BY DEF Base, TypeOK
  <2>3. CASE Inserts(i, <<n, 0>>, Start)
    BY <1>0, <1>3, <2>2, <2>3, InsertGrows DEF InsertHandler
  <2>4. CASE Conflicts(<<n, 0>>)
    BY <1>0, <1>3, <2>4, GrowsOn DEF InsertHandler, Conflicts
  <2> QED BY <2>1, <2>3, <2>4
<1>4. ASSUME NEW a \in Actors, Queues(a) \/ QueueRefuses(a),
             UNCHANGED <<graph, row, attempt, branch, effects, conflicts>> PROVE Grows
  <2>1. refused' \in Nat /\ refused' >= refused
    BY <1>0, <1>4 DEF Queues, QueueRefuses, Refuses
  <2> QED BY <1>4, <2>1, GrowsOn
<1>5. ASSUME NEW i \in Instances, WorkerStep(i) PROVE Grows
  <2>1. CASE QueueHandler(i)
    BY <1>0, <1>4, <2>1 DEF QueueHandler
  <2> QED BY <1>1, <1>2, <1>3, <1>5, <2>1, WriteGrows, ReturnGrows DEF WorkerStep
<1>6. CASE StartInsert
  <2>1. PICK i \in todo : Inserts(Start, i, Start) \/ Conflicts(i)
    BY <1>6 DEF StartInsert
  <2>2. i \in Instances
    BY DEF Base, TypeOK
  <2>3. CASE Inserts(Start, i, Start)
    BY <1>0, <1>6, <2>2, <2>3, InsertGrows DEF StartInsert
  <2>4. CASE Conflicts(i)
    BY <1>0, <1>6, <2>4, GrowsOn DEF StartInsert, Conflicts
  <2> QED BY <2>1, <2>3, <2>4
<1>7. CASE StartQueue
  BY <1>0, <1>4, <1>7 DEF StartQueue
<1>8. ASSUME NEW p \in Passes, InsertNode(p) PROVE Grows
  <2>1. PICK f \in ToFire(graph, rows[p], known[p]) :
          f.instance \in Instances /\ (Inserts(p, f.instance, f.from) \/ Conflicts(f.instance))
    BY <1>8 DEF InsertNode
  <2>2. f.from \in Predecessors
    BY FireParts, EdgeTypes, GraphParts DEF Base
  <2>3. CASE Inserts(p, f.instance, f.from)
    BY <1>0, <1>8, <2>1, <2>2, <2>3, InsertGrows DEF InsertNode
  <2>4. CASE Conflicts(f.instance)
    BY <1>0, <1>8, <2>4, GrowsOn DEF InsertNode, Conflicts
  <2> QED BY <2>1, <2>3, <2>4
<1>9. ASSUME NEW p \in Passes, QueueNode(p) PROVE Grows
  BY <1>0, <1>4, <1>9 DEF QueueNode
<1>10. ASSUME UNCHANGED <<graph, workerVars, conflicts, refused>> PROVE Grows
  BY <1>0, <1>10, GrowsOn DEF workerVars
<1>11. ASSUME NEW p \in Passes, PassStep(p) \/ PassDies(p) PROVE Grows
  BY <1>8, <1>9, <1>10, <1>11 DEF PassStep, PassDies, BeginPass, ReadState, FailRun,
     ReadRun,
     PlanTransitions, CompleteRun, ThrowPass, faultVars
<1>12. CASE StarterDies \/ Resume \/ UNCHANGED vars
  BY <1>10, <1>12 DEF StarterDies, Resume, vars, faultVars
<1> QED BY <1>5, <1>6, <1>7, <1>11, <1>12 DEF Next

--------------------------------------------------------------------------------
(* A failed run has a culprit.                                                 *)

LEMMA CulpritStays == ASSUME Base, Base', Grows, Culprit PROVE Culprit'
<1>1. refused \in Nat /\ refused' \in Nat
  BY DEF Base, TypeOK
<1>2. CASE conflicts \/ refused > 0
  BY <1>1, <1>2 DEF Grows, Culprit
<1>3. CASE \E i \in Instances : Exhausted(i)
  BY <1>3 DEF Grows, Culprit
<1> QED BY <1>2, <1>3 DEF Culprit

LEMMA BlameStep ==
  ASSUME Base, Base', Grows, Blame, FailureIsEarned, [Next]_vars
  PROVE  Blame' /\ FailureIsEarned'
<1>0. /\ Culprit => Culprit'
      /\ FailureIsEarned <=> (runStatus = "failed" => Culprit)
      /\ FailureIsEarned' <=> (runStatus' = "failed" => Culprit')
      /\ ppc \in [Passes -> PassPC] /\ refused \in Nat
  BY CulpritStays DEF FailureIsEarned, Culprit, Exhausted, Base, TypeOK
<1>1. ASSUME \A p \in Passes : ppc'[p] \in {"throw", "fail"} =>
               ppc[p] \in {"throw", "fail"} \/ Culprit',
             runStatus' = "failed" => runStatus = "failed" \/ Culprit
      PROVE  Blame' /\ FailureIsEarned'
  BY <1>0, <1>1 DEF Blame
<1>2. ASSUME NEW i \in Instances, WorkerStep(i) PROVE Blame' /\ FailureIsEarned'
  <2>1. ppc' = ppc /\ (runStatus' = runStatus \/ runStatus' = "suspended")
    BY <1>2 DEF WorkerStep, Claim, Returns, Throws, NotFound, SuspendRun, StoreMissing,
       InsertHandler, QueueHandler, StoreResult, Wake, StoreError, LastWake, passVars
  <2> QED BY <1>1, <2>1
<1>3. CASE StartInsert \/ StartQueue \/ StarterDies \/ Resume \/ UNCHANGED vars
  <2>1. ppc' = ppc /\ runStatus' = runStatus
    BY <1>3 DEF StartInsert, StartQueue, StarterDies, Resume, vars, passVars
  <2> QED BY <1>1, <2>1
<1>4. ASSUME NEW p \in Passes, NEW l \in PassPC, PassGoto(p, l),
             l \in {"throw", "fail"} => Culprit',
             runStatus' = "failed" => runStatus = "failed" \/ Culprit
      PROVE  Blame' /\ FailureIsEarned'
  <2>1. ppc'[p] = l /\ \A q \in Passes : q # p => ppc'[q] = ppc[q]
    BY <1>0, <1>4 DEF PassGoto
  <2> QED BY <1>1, <1>4, <2>1
<1>5. ASSUME NEW p \in Passes, PassStep(p) \/ PassDies(p) PROVE Blame' /\ FailureIsEarned'
  <2>0. {"idle", "state", "run", "plan", "insert", "queue", "complete", "fail", "throw"}
          \subseteq PassPC
    BY DEF PassPC
  <2>1. CASE BeginPass(p)
    <3>1. CASE UNCHANGED ppc
      BY <1>1, <2>1, <3>1 DEF BeginPass
    <3>2. CASE PassGoto(p, "state")
      BY <1>4, <2>0, <2>1, <3>2 DEF BeginPass
    <3> QED BY <2>1, <3>1, <3>2 DEF BeginPass
  <2>2. CASE ReadState(p)
    <3>1. CASE ExhaustedNodes # {}
      <4>1. PICK i \in Instances : row[i].status = "failed" /\ attempt[i] >= MaxAttempts(i)
        BY <3>1 DEF ExhaustedNodes
      <4>2. attempt[i] \in 1..MaxAttempts(i) /\ MaxAttempts(i) \in Nat
        BY GraphParts DEF Base, TypeOK
      <4>3. Exhausted(i)
        BY <4>1, <4>2 DEF Exhausted
      <4>4. Culprit'
        BY <1>0, <4>3 DEF Culprit
      <4> QED BY <1>4, <2>0, <2>2, <4>4, <3>1 DEF ReadState
    <3>2. CASE ExhaustedNodes = {}
      BY <1>4, <2>0, <2>2, <3>2 DEF ReadState
    <3> QED BY <3>1, <3>2
  <2>3. CASE FailRun(p) \/ ThrowPass(p)
    <3>1. Culprit /\ PassGoto(p, "idle")
      BY <2>3 DEF FailRun, ThrowPass, PassLeave, Leaves, Blame
    <3> QED BY <1>4, <2>0, <3>1
  <2>4. CASE CompleteRun(p)
    BY <1>4, <2>0, <2>4 DEF CompleteRun, PassLeave, Leaves
  <2>5. CASE ReadRun(p)
    BY <1>4, <2>0, <2>5 DEF ReadRun, PassLeave, Leaves
  <2>6. CASE PlanTransitions(p)
    BY <1>4, <2>0, <2>6 DEF PlanTransitions, PassLeave, Leaves
  <2>7. CASE InsertNode(p)
    <3>1. CASE PassGoto(p, "queue")
      BY <1>4, <2>0, <2>7, <3>1 DEF InsertNode
    <3>2. CASE PassGoto(p, "throw") /\ conflicts' = TRUE
      <4>1. Culprit'
        BY <3>2 DEF Culprit
      <4> QED BY <1>4, <2>0, <2>7, <3>2, <4>1 DEF InsertNode
    <3> QED BY <2>7, <3>1, <3>2 DEF InsertNode, Conflicts
  <2>8. CASE QueueNode(p)
    <3>1. CASE PassGoto(p, "insert") \/ PassGoto(p, "idle")
      BY <1>4, <2>0, <2>8, <3>1 DEF QueueNode
    <3>2. CASE PassGoto(p, "throw") /\ QueueRefuses(p)
      <4>1. Culprit'
        BY <1>0, <3>2 DEF Culprit, QueueRefuses, Refuses
      <4> QED BY <1>4, <2>0, <2>8, <3>2, <4>1 DEF QueueNode
    <3> QED BY <2>8, <3>1, <3>2 DEF QueueNode, Leaves
  <2>9. CASE PassDies(p)
    BY <1>4, <2>0, <2>9 DEF PassDies, Leaves
  <2> QED BY <1>5, <2>1, <2>2, <2>3, <2>4, <2>5, <2>6, <2>7, <2>8, <2>9 DEF PassStep
<1> QED BY <1>2, <1>3, <1>5 DEF Next

--------------------------------------------------------------------------------
(* The beginning.                                                              *)

\* An entry node is fired item by item if it is a forEach, else once.
LEMMA EntryParts ==
  ASSUME NEW g, validateGraphReferences(g), NEW i \in EntryInstances(g)
  PROVE  /\ i \in Instances /\ i[1] \in g.entries /\ g.deps[i[1]] = {}
         /\ isFanned(g, i[1]) => i[2] < g.width[i[1]]
         /\ ~isFanned(g, i[1]) \/ i[1] \in g.sequential => i[2] = 0
<1> DEFINE Of(n) == LET items == ItemsToFire(g, NoRows, n)
                    IN  IF isFanned(g, n) THEN {<<n, k>> : k \in items} ELSE {<<n, 0>>}
<1>1. PICK n \in {m \in g.entries : g.deps[m] = {}} : i \in Of(n)
  BY DEF EntryInstances
<1>2. n \in Nodes /\ g.width[n] \in Nat
  BY DEF validateGraphReferences
<1>3. CASE ~isFanned(g, n)
  BY <1>1, <1>2, <1>3, InstanceParts
<1>4. CASE isFanned(g, n)
  <2>1. PICK k \in ItemsToFire(g, NoRows, n) : i = <<n, k>>
    BY <1>1, <1>4
  <2>2. k \in Missing(g, NoRows, n)
    BY DEF ItemsToFire
  <2>3. k \in 0..MaxOrdinal /\ k < g.width[n]
    BY <2>2 DEF Missing
  <2>4. i \in Instances /\ i[1] = n /\ i[2] = k
    BY <1>2, <2>1, <2>3, InstanceParts
  <2>5. ASSUME n \in g.sequential PROVE k = 0
    <3>1. \A j \in Missing(g, NoRows, n) : k <= j
      BY <2>5 DEF ItemsToFire
    <3>2. 0 \in 0..MaxOrdinal /\ 0 < g.width[n]
      BY <1>2, <2>3, InstanceParts
    <3>3. 0 \in Missing(g, NoRows, n)
      BY <1>2, <3>2, InstanceParts DEF Missing, Present, NoRows, NoRow
    <3> QED BY <2>3, <3>1, <3>3
  <2> QED BY <1>1, <1>4, <2>3, <2>4, <2>5
<1> QED BY <1>3, <1>4

LEMMA BaseInit == Init => Base /\ Blame /\ FailureIsEarned
<1> SUFFICES ASSUME Init PROVE Base /\ Blame /\ FailureIsEarned
  OBVIOUS
<1> USE DEF Init
<1>1. validateGraphReferences(graph) /\ graph.retries \in [Nodes -> Nat]
  BY GraphsAssumption DEF validateGraphReferences
<1>2. \A i \in Instances : MaxAttempts(i) \in Nat /\ MaxAttempts(i) >= 1
  BY <1>1, InstanceParts DEF MaxAttempts
<1>3. row \in [Instances -> Row] /\ rows \in [Passes -> [Instances -> Row]]
      /\ \A i \in Instances : row[i].status = "absent"
  BY ActorParts DEF NoRows, NoRow, Row, StepStatus
<1>4. todo \subseteq Instances
  BY <1>1, EntryParts
<1>5. \A i \in Instances : AtRow(i) /\ Attempts(i)
  BY <1>2, <1>3 DEF AtRow, Attempts
<1>6. TypeOK
  <2>1. \A i \in Instances : attempt[i] \in 1..MaxAttempts(i) /\ job[i] <= MaxAttempts(i)
    BY <1>2
  <2>2. wakes \in [1..OrchAttempts -> Nat] /\ left \in [Passes -> 0..OrchAttempts]
    BY AttemptsAssumption
  <2>3. /\ firing \in [Actors -> Instances \cup {None}]
        /\ epc \in [Instances -> WorkerPC] /\ ppc \in [Passes -> PassPC]
        /\ {attempt, job} \subseteq [Instances -> Nat] /\ effects \in [Instances -> Nat]
        /\ handlers \in [Instances -> SUBSET Nodes] /\ DOMAIN known = Passes
        /\ DOMAIN branch = Instances
        /\ \A i \in Instances : branch[i] \in DOMAIN graph.next[i[1]] \cup {NoBranch}
    BY DEF WorkerPC, PassPC
  <2>4. conflicts \in BOOLEAN
    OBVIOUS
  <2>5. /\ runStatus \in RunStatus /\ graph \in Graphs
        /\ {refused, deaths, resumes} \subseteq Nat /\ spc \in {"insert", "queue", "done"}
    BY DEF RunStatus
  <2> HIDE DEF Init
  <2> QED BY <1>3, <1>4, <2>1, <2>2, <2>3, <2>4, <2>5 DEF TypeOK, Row
<1>7. Reserved /\ AtQueue
  BY DEF Reserved, AtQueue
<1>8. Blame /\ FailureIsEarned
  BY DEF Blame, FailureIsEarned
<1> QED BY <1>5, <1>6, <1>7, <1>8 DEF Base

LEMMA BaseAlways == Spec => []Base
BY BaseInit, BaseStep, PTL DEF Spec

\* Every variable keeps its type, and the attempts a job has left stay within
\* those its node has, whatever passes and workers do to each other.
THEOREM TypeCorrect == Spec => []TypeOK
<1>1. Base => TypeOK
  BY DEF Base
<1> QED BY <1>1, BaseAlways, PTL

\* A graph run is failed only for a node out of attempts, or by an insert that
\* met another actor's row or a queue that refused a job: never for a node whose
\* job still comes back.
THEOREM FailureEarned == Spec => []FailureIsEarned
<1>1. Base /\ Blame /\ FailureIsEarned /\ [Next]_vars => (Blame /\ FailureIsEarned)'
  BY BaseStep, GrowsStep, BlameStep
<1> QED BY <1>1, BaseInit, BaseAlways, PTL DEF Spec

--------------------------------------------------------------------------------
(* What passes rest on: what has happened stays so.                            *)

\* A plain node's revisits, and the items of a sequential forEach, come in turn.
InLine(n) == ~isFanned(graph, n) \/ n \in graph.sequential
NoGaps(rs) == \A n \in Nodes : InLine(n) =>
  \A k \in Present(rs, n), j \in 0..MaxOrdinal : j < k => j \in Present(rs, n)
\* A handler that is a forEach is started once, whatever its width.
WithinWidth == \A i \in Fired :
  isFanned(graph, i[1]) => i[2] = 0 \/ i[2] < graph.width[i[1]]

\* A step that succeeded did its work, and so did one about to say so.
Earned(i) == row[i].status = "succeeded" \/ epc[i] = "result" => effects[i] > 0
HandlersKnown == \A i \in Instances : handlers[i] \subseteq graph.onError[i[1]]
\* What the starter has still to insert may run at once, and first.
Ready == \A i \in todo :
  /\ i[1] \in graph.entries /\ graph.deps[i[1]] = {}
  /\ isFanned(graph, i[1]) => i[2] < graph.width[i[1]]
  /\ InLine(i[1]) => i[2] = 0

\* What led to node n by way of f, kept while no wake is refused.
Tried(n) == \E j \in Fired : n \in graph.onError[j[1]]
Led(n, f) ==
  \/ f = Start /\ (n \in graph.entries \/ Tried(n))
  \/ f \in Instances /\ row[f].status = "succeeded" /\ effects[f] > 0
     /\ Leads(f[1], branch[f], n)
  \/ \E m \in Nodes : f = <<m>> /\ isFanned(graph, m) /\ Executed(m) /\ Leads(m, NoBranch, n)
AllLed == refused = 0 => \A i \in Fired : Led(i[1], row[i].from)

\* What a pass has read is still true.
Snapshot(p) ==
  /\ NoGaps(rows[p])
  /\ \A i \in Instances : rows[p][i].status # "absent" =>
       /\ row[i].status # "absent" /\ row[i].from = rows[p][i].from
       /\ rows[p][i].status = "succeeded" =>
            effects[i] > 0 /\ (refused = 0 => row[i].status = "succeeded")
  /\ \A i \in Instances : known[p][i] # NoBranch /\ refused = 0 =>
       row[i].status = "succeeded" /\ branch[i] = known[p][i]

Ordered == /\ NoGaps(row) /\ WithinWidth /\ AllLed
           /\ JoinsWait /\ NodeOncePerForwardEdge /\ ItemsInTurn
Past == /\ \A i \in Instances : Earned(i)
        /\ HandlersKnown /\ Ready /\ Ordered
        /\ \A p \in Passes : Snapshot(p)

LEMMA PastParts ==
  ASSUME Base, Past
  PROVE  Ordered /\ HandlersKnown /\ Ready
         /\ (\A i \in Instances : Earned(i)) /\ \A p \in Passes : Snapshot(p)
BY DEF Past

--------------------------------------------------------------------------------
(* Sets of ordinals.                                                           *)

LEMMA OrdinalSets ==
  ASSUME NEW S \in SUBSET (0..MaxOrdinal)
  PROVE  IsFiniteSet(S) /\ Cardinality(S) \in Nat
<1>1. IsFiniteSet(0..MaxOrdinal)
  BY FS_Interval, OrdinalAssumption
<1>2. IsFiniteSet(S)
  BY <1>1, FS_Subset
<1> QED BY <1>2, FS_CardinalityType

\* A set of ordinals without gaps is the ordinals below its cardinality: where
\* the next revisit goes.
LEMMA GaplessSet ==
  ASSUME NEW S \in SUBSET (0..MaxOrdinal),
         \A k \in S, j \in 0..MaxOrdinal : j < k => j \in S
  PROVE  \A k \in 0..MaxOrdinal : k \in S <=> k < Cardinality(S)
<1> DEFINE c == Cardinality(S)
<1>0. IsFiniteSet(S) /\ c \in Nat /\ MaxOrdinal \in Nat
  BY OrdinalSets, OrdinalAssumption
<1>1. \A n \in Nat : Cardinality(0..(n - 1)) = n /\ IsFiniteSet(0..(n - 1))
  BY FS_Interval
<1>2. ASSUME NEW k \in S PROVE k < c
  <2>1. k \in Nat /\ k <= MaxOrdinal
    BY <1>0
  <2>2. 0..((k + 1) - 1) \subseteq S
    BY <1>0, <2>1
  <2>3. Cardinality(0..((k + 1) - 1)) <= c
    BY <1>0, <2>2, FS_Subset
  <2>4. Cardinality(0..((k + 1) - 1)) = k + 1
    BY <1>1, <2>1
  <2> QED BY <1>0, <2>1, <2>3, <2>4
<1>3. S \subseteq 0..(c - 1)
  BY <1>0, <1>2
<1>4. S = 0..(c - 1)
  BY <1>0, <1>1, <1>3, FS_Subset
<1> QED BY <1>0, <1>4

\* As many items as there are, none of them beyond the last, are all of them.
LEMMA FullSet ==
  ASSUME NEW S \in SUBSET (0..MaxOrdinal), NEW w \in Nat, Cardinality(S) >= w,
         \A k \in S : k < w
  PROVE  \A k \in 0..MaxOrdinal : k < w => k \in S
<1>0. IsFiniteSet(S) /\ Cardinality(S) \in Nat /\ MaxOrdinal \in Nat
  BY OrdinalSets, OrdinalAssumption
<1>1. Cardinality(0..(w - 1)) = w /\ IsFiniteSet(0..(w - 1))
  BY FS_Interval
<1>2. S \subseteq 0..(w - 1)
  BY <1>0
<1>3. Cardinality(S) <= Cardinality(0..(w - 1))
  BY <1>1, <1>2, FS_Subset
<1>4. Cardinality(S) = Cardinality(0..(w - 1))
  BY <1>0, <1>1, <1>3
<1>5. S = 0..(w - 1)
  BY <1>1, <1>2, <1>4, FS_Subset
<1> QED BY <1>5

--------------------------------------------------------------------------------
(* What holds of the past is kept.                                             *)

LEMMA ExecutedStays ==
  ASSUME Base, Grows, NEW n \in Nodes, Executed(n) PROVE Executed(n)'
<1>1. \A k \in 0..MaxOrdinal : effects[<<n, k>>] > 0 => effects'[<<n, k>>] > 0
  BY InstanceParts DEF Grows
<1>2. graph' = graph
  BY DEF Grows
<1> QED BY <1>1, <1>2 DEF Executed, isFanned

LEMMA FiredStays ==
  ASSUME Base, Grows
  PROVE  /\ \A i \in Fired : i \in Fired' /\ row'[i].from = row[i].from /\ i \in Instances
         /\ Handlers' = Handlers /\ graph' = graph
         /\ \A n : InLine(n)' = InLine(n)
         /\ \A n, k : k \in Present(row, n) /\ n \in Nodes => k \in Present(row', n)
BY InstanceParts DEF Grows, Fired, Handlers, InLine, isFanned, Present

LEMMA LedStays ==
  ASSUME Base, Grows, refused' = 0, NEW n \in Nodes, NEW f \in Predecessors, Led(n, f)
  PROVE  Led(n, f)'
<1>1. graph' = graph
  BY DEF Grows
<1>2. CASE f = Start /\ (n \in graph.entries \/ Tried(n))
  BY <1>1, <1>2, FiredStays DEF Tried, Led
<1>3. CASE f \in Instances /\ row[f].status = "succeeded" /\ effects[f] > 0
           /\ Leads(f[1], branch[f], n)
  <2>1. row'[f].status = "succeeded" /\ branch'[f] = branch[f] /\ effects'[f] > 0
    BY <1>3 DEF Grows
  <2>2. Leads(f[1], branch[f], n)'
    BY <1>1, <1>3, <2>1 DEF Leads
  <2> QED BY <1>3, <2>1, <2>2 DEF Led
<1>4. CASE \E m \in Nodes : f = <<m>> /\ isFanned(graph, m) /\ Executed(m)
                            /\ Leads(m, NoBranch, n)
  BY <1>1, <1>4, ExecutedStays DEF Leads, Led
<1> QED BY <1>2, <1>3, <1>4 DEF Led

LEMMA SnapshotStays ==
  ASSUME Base, Base', Grows, NEW p \in Passes, Snapshot(p),
         UNCHANGED <<rows[p], known[p]>>
  PROVE  Snapshot(p)'
<1>1. NoGaps(rows[p])'
  BY DEF Snapshot, NoGaps, Grows, InLine
<1>2. ASSUME NEW i \in Instances
      PROVE  /\ rows[p][i].status # "absent" =>
                  /\ row'[i].status # "absent" /\ row'[i].from = rows[p][i].from
                  /\ rows[p][i].status = "succeeded" =>
                       effects'[i] > 0 /\ (refused' = 0 => row'[i].status = "succeeded")
             /\ known[p][i] # NoBranch /\ refused' = 0 =>
                  row'[i].status = "succeeded" /\ branch'[i] = known[p][i]
  BY DEF Snapshot, Grows
<1> QED BY <1>1, <1>2 DEF Snapshot

--------------------------------------------------------------------------------
(* A step that inserts at most one instance, with good reason.                 *)

\* What must be true of instance x when it is inserted as a successor of f.
Justified(x, f) ==
  /\ x[1] \notin Handlers => \A n \in graph.deps[x[1]] : Executed(n)
  /\ refused = 0 => Led(x[1], f)
  /\ InLine(x[1]) => \A j \in 0..MaxOrdinal : j < x[2] => j \in Present(row, x[1])
  /\ isFanned(graph, x[1]) => x[2] = 0 \/ x[2] < graph.width[x[1]]
  /\ ~isFanned(graph, x[1]) =>
       /\ x[2] > 0 => f # Start /\ closesCycle(graph, f[1], x[1])
       /\ \A k \in Present(row, x[1]) : row[<<x[1], k>>].from # f
  /\ x[1] \in graph.sequential =>
       \A j \in 0..MaxOrdinal : j < x[2] => effects[<<x[1], j>>] > 0

\* At most x is inserted, and then it is justified.
OnlyInserts(x, f) ==
  /\ \A i \in Instances : row[i].status = "absent" /\ i # x => row'[i].status = "absent"
  /\ x \in Instances /\ row[x].status = "absent" /\ row'[x].status # "absent" =>
       f \in Predecessors /\ row'[x].from = f /\ Justified(x, f)

\* The instance inserted, if there is one.
LEMMA NewlyFired ==
  ASSUME Base, Grows, NEW x, NEW f, OnlyInserts(x, f), NEW i \in Fired', i \notin Fired
  PROVE  i = x /\ x \in Instances /\ f \in Predecessors /\ row'[x].from = f /\ Justified(x, f)
         /\ row[x].status = "absent" /\ x[1] \in Nodes /\ x[2] \in 0..MaxOrdinal
BY InstanceParts DEF Fired, OnlyInserts

LEMMA PresentFired ==
  /\ \A n \in Nodes, k \in 0..MaxOrdinal : k \in Present(row, n) <=> <<n, k>> \in Fired
  /\ \A n \in Nodes, k \in 0..MaxOrdinal : k \in Present(row', n) <=> <<n, k>> \in Fired'
  /\ \A i \in Fired : i[2] \in Present(row, i[1]) /\ i \in Instances
  /\ \A i \in Fired' : i[2] \in Present(row', i[1]) /\ i \in Instances
BY InstanceParts DEF Present, Fired

LEMMA OrderedStep ==
  ASSUME Base, Base', Grows, Ordered, NEW x, NEW f, OnlyInserts(x, f)
  PROVE  Ordered'
<1>0. /\ graph' = graph /\ Handlers' = Handlers /\ \A n : InLine(n)' = InLine(n)
      /\ \A i \in Fired : i \in Fired' /\ row'[i].from = row[i].from
      /\ Nodes' = Nodes
  BY FiredStays
<1>1. NoGaps(row)'
  <2> SUFFICES ASSUME NEW n \in Nodes, InLine(n), NEW k \in Present(row', n),
                      NEW j \in 0..MaxOrdinal, j < k
               PROVE  j \in Present(row', n)
    BY <1>0 DEF NoGaps
  <2>1. k \in 0..MaxOrdinal
    BY DEF Present
  <2>2. CASE k \in Present(row, n)
    BY <2>2, FiredStays DEF Ordered, NoGaps
  <2>3. CASE k \notin Present(row, n)
    <3>1. <<n, k>> \in Fired' /\ <<n, k>> \notin Fired
      BY <2>1, <2>3, PresentFired
    <3>2. x = <<n, k>> /\ Justified(x, f)
      BY <3>1, NewlyFired
    <3>3. x[1] = n /\ x[2] = k
      BY <2>1, <3>2, InstanceParts
    <3> QED BY <3>2, <3>3, FiredStays DEF Justified
  <2> QED BY <2>2, <2>3
<1>2. WithinWidth'
  <2> SUFFICES ASSUME NEW i \in Fired', isFanned(graph, i[1])
               PROVE  i[2] = 0 \/ i[2] < graph.width[i[1]]
    BY <1>0 DEF WithinWidth
  <2>1. CASE i \in Fired
    BY <2>1 DEF Ordered, WithinWidth
  <2>2. CASE i \notin Fired
    BY <2>2, NewlyFired DEF Justified
  <2> QED BY <2>1, <2>2
<1>3. AllLed'
  <2> SUFFICES ASSUME refused' = 0, NEW i \in Fired' PROVE Led(i[1], row[i].from)'
    BY DEF AllLed
  <2>1. refused = 0 /\ i \in Instances /\ i[1] \in Nodes
    BY InstanceParts DEF Grows, Fired
  <2>2. CASE i \in Fired
    <3>1. Led(i[1], row[i].from) /\ row[i].from \in Predecessors
      BY <2>1, <2>2 DEF Ordered, AllLed, Base, TypeOK
    <3>2. ASSUME NEW h \in Predecessors, Led(i[1], h) PROVE Led(i[1], h)'
      BY <2>1, <3>2, LedStays
    <3>3. PICK h \in Predecessors : h = row[i].from
      BY <3>1
    <3>4. Led(i[1], h)' /\ row'[i].from = h
      BY <1>0, <2>2, <3>1, <3>2, <3>3
    <3> QED BY <3>4 DEF Led
  <2>3. CASE i \notin Fired
    <3>1. i = x /\ f \in Predecessors /\ row'[i].from = f /\ Led(i[1], f)
      BY <2>1, <2>3, NewlyFired DEF Justified
    <3>2. Led(i[1], f)'
      BY <2>1, <3>1, LedStays
    <3> QED BY <3>1, <3>2 DEF Led
  <2> QED BY <2>2, <2>3
<1>4. JoinsWait'
  <2> SUFFICES ASSUME NEW i \in Fired', i[1] \notin Handlers, NEW n \in graph.deps[i[1]]
               PROVE  Executed(n)'
    BY <1>0 DEF JoinsWait
  <2>1. i[1] \in Nodes /\ n \in Nodes
    BY GraphParts, InstanceParts DEF Fired, Base, validateGraphReferences
  <2>2. CASE i \in Fired
    BY <2>1, <2>2, ExecutedStays DEF Ordered, JoinsWait
  <2>3. CASE i \notin Fired
    BY <2>1, <2>3, NewlyFired, ExecutedStays DEF Justified
  <2> QED BY <2>2, <2>3
<1>5. NodeOncePerForwardEdge'
  <2> SUFFICES ASSUME NEW i \in Fired', NEW j \in Fired', i[1] = j[1], i # j,
                      ~isFanned(graph, i[1])
               PROVE  /\ row'[i].from # row'[j].from
                      /\ i[2] > 0 => row'[i].from # Start
                                     /\ closesCycle(graph, row'[i].from[1], i[1])
    BY <1>0 DEF NodeOncePerForwardEdge
  <2>1. /\ i \in Instances /\ j \in Instances /\ i[1] \in Nodes
        /\ i = <<i[1], i[2]>> /\ j = <<i[1], j[2]>>
        /\ {i[2], j[2]} \subseteq 0..MaxOrdinal
    BY InstanceParts DEF Fired
  <2>2. CASE i \in Fired /\ j \in Fired
    BY <1>0, <2>2 DEF Ordered, NodeOncePerForwardEdge
  <2>3. CASE i \notin Fired
    <3>1. i = x /\ row'[i].from = f /\ Justified(i, f)
      BY <2>3, NewlyFired
    <3>2. j \in Fired /\ j[2] \in Present(row, i[1])
      BY <2>1, <2>3, NewlyFired, PresentFired
    <3>3. row'[j].from = row[j].from
      BY <1>0, <3>2
    <3> QED BY <2>1, <3>1, <3>2, <3>3 DEF Justified
  <2>4. CASE i \in Fired /\ j \notin Fired
    <3>1. j = x /\ row'[j].from = f /\ Justified(j, f)
      BY <2>4, NewlyFired
    <3>2. i[2] \in Present(row, j[1]) /\ row'[i].from = row[i].from
      BY <1>0, <2>1, <2>4, PresentFired
    <3>3. row'[i].from # row'[j].from
      BY <2>1, <3>1, <3>2 DEF Justified
    <3>4. ASSUME i[2] > 0
          PROVE  row[i].from # Start /\ closesCycle(graph, row[i].from[1], i[1])
      <4>1. 0 \in 0..MaxOrdinal /\ 0 < i[2]
        BY <2>1, <3>4, InstanceParts
      <4>2. 0 \in Present(row, i[1])
        BY <2>1, <2>4, <4>1, PresentFired DEF Ordered, NoGaps, InLine
      <4>3. <<i[1], 0>> \in Fired /\ <<i[1], 0>>[1] = i[1] /\ <<i[1], 0>> # i
        BY <2>1, <4>1, <4>2, PresentFired, InstanceParts
      <4> QED BY <2>4, <3>4, <4>3 DEF Ordered, NodeOncePerForwardEdge
    <3> QED BY <3>2, <3>3, <3>4
  <2> QED BY <2>2, <2>3, <2>4
<1>6. ItemsInTurn'
  <2> SUFFICES ASSUME NEW i \in Fired', NEW j \in Fired', i[1] = j[1],
                      i[1] \in graph.sequential, i[2] < j[2]
               PROVE  effects'[i] > 0
    BY <1>0 DEF ItemsInTurn
  <2>1. /\ i \in Instances /\ j \in Instances /\ i[1] \in Nodes
        /\ i = <<i[1], i[2]>> /\ j = <<i[1], j[2]>>
        /\ {i[2], j[2]} \subseteq 0..MaxOrdinal
    BY InstanceParts DEF Fired
  <2>2. effects[i] > 0
    <3>1. CASE i \in Fired /\ j \in Fired
      BY <3>1 DEF Ordered, ItemsInTurn
    <3>2. CASE j \notin Fired
      <4>1. Justified(j, f)
        BY <3>2, NewlyFired
      <4> QED BY <2>1, <4>1 DEF Justified
    <3>3. CASE i \notin Fired /\ j \in Fired
      <4>1. i[2] \in Present(row, i[1])
        BY <2>1, <3>3, PresentFired DEF Ordered, NoGaps, InLine
      <4> QED BY <2>1, <3>3, <4>1, PresentFired
    <3> QED BY <3>1, <3>2, <3>3
  <2> QED BY <2>1, <2>2 DEF Grows
<1> QED BY <1>1, <1>2, <1>3, <1>4, <1>5, <1>6 DEF Ordered

--------------------------------------------------------------------------------
(* Every insertion is justified.                                               *)

\* The first instance of a plain node has no other beside it.
LEMMA FirstOfItsNode ==
  ASSUME Ordered, NEW n \in Nodes, ~isFanned(graph, n), NEW c \in 0..MaxOrdinal,
         row[<<n, c>>].status = "absent"
  PROVE  \A k \in Present(row, n) : k < c
<1> SUFFICES ASSUME NEW k \in Present(row, n), ~(k < c) PROVE FALSE
  OBVIOUS
<1>1. k \in 0..MaxOrdinal /\ row[<<n, k>>].status # "absent" /\ InLine(n)
  BY DEF Present, InLine
<1>2. c < k
  BY <1>1, OrdinalAssumption
<1>3. c \in Present(row, n)
  BY <1>1, <1>2 DEF Ordered, NoGaps
<1> QED BY <1>3 DEF Present

LEMMA StartJustified ==
  ASSUME Base, Ordered, Ready, NEW i \in todo, row[i].status = "absent"
  PROVE  Justified(i, Start)
<1>1. /\ i \in Instances /\ i[1] \in Nodes /\ i[2] \in 0..MaxOrdinal /\ i = <<i[1], i[2]>>
      /\ MaxOrdinal \in Nat
  BY InstanceParts DEF Base, TypeOK
<1>2. /\ i[1] \in graph.entries /\ graph.deps[i[1]] = {}
      /\ isFanned(graph, i[1]) => i[2] < graph.width[i[1]]
      /\ InLine(i[1]) => i[2] = 0
  BY DEF Ready
<1>3. graph.sequential \subseteq {n \in Nodes : isFanned(graph, n)}
  BY GraphParts DEF Base, validateGraphReferences
<1>4. Led(i[1], Start)
  BY <1>2 DEF Led
<1>5. ASSUME ~isFanned(graph, i[1]) PROVE i[2] = 0 /\ Present(row, i[1]) = {}
  <2>1. i[2] = 0
    BY <1>2, <1>5 DEF InLine
  <2>2. \A k \in Present(row, i[1]) : k < 0 /\ k \in 0..MaxOrdinal
    BY <1>1, <1>5, <2>1, FirstOfItsNode DEF Present
  <2> QED BY <1>1, <2>1, <2>2
<1>6. i[1] \in graph.sequential => i[2] = 0
  BY <1>2 DEF InLine
<1>7. \A j \in 0..MaxOrdinal : ~(j < 0)
  BY <1>1
<1> QED BY <1>1, <1>2, <1>4, <1>5, <1>6, <1>7 DEF Justified

LEMMA HandlerJustified ==
  ASSUME Base, Ordered, HandlersKnown, NEW i \in Instances, epc[i] = "insertHandler",
         NEW n \in handlers[i], row[<<n, 0>>].status = "absent"
  PROVE  Justified(<<n, 0>>, Start)
<1>1. n \in graph.onError[i[1]] /\ i[1] \in Nodes /\ n \in Nodes
  BY InstanceParts DEF HandlersKnown, Base, TypeOK
<1>2. i \in Fired
  <2>1. AtRow(i) /\ row[i].status # "absent"
    BY DEF Base, AtRow
  <2> QED BY <2>1 DEF Fired
<1>3. n \in Handlers /\ Led(n, Start)
  BY <1>1, <1>2 DEF Handlers, Led, Tried
<1>4. /\ <<n, 0>>[1] = n /\ <<n, 0>>[2] = 0 /\ 0 \in 0..MaxOrdinal
      /\ \A j \in 0..MaxOrdinal : ~(j < 0)
  BY <1>1, InstanceParts
<1>5. ASSUME ~isFanned(graph, n) PROVE Present(row, n) = {}
  <2>1. \A k \in Present(row, n) : k < 0 /\ k \in 0..MaxOrdinal
    BY <1>1, <1>4, <1>5, FirstOfItsNode DEF Present
  <2> QED BY <1>4, <2>1
<1> QED BY <1>3, <1>4, <1>5 DEF Justified

\* A node others may use the result of, to the pass, has been executed: a forEach
\* node with as many succeeded items as it has items has all of them succeeded.
LEMMA CompletedIsExecuted ==
  ASSUME Base, Ordered, NEW p \in Passes, Snapshot(p),
         NEW n \in CompletedLogical(graph, rows[p])
  PROVE  Executed(n)
<1> DEFINE S == Done(rows[p], n)
<1>1. n \in Nodes /\ S \subseteq 0..MaxOrdinal
  BY DEF CompletedLogical, Done
<1>2. ASSUME NEW k \in S PROVE effects[<<n, k>>] > 0 /\ <<n, k>> \in Fired
  <2>1. k \in 0..MaxOrdinal /\ rows[p][<<n, k>>].status = "succeeded" /\ <<n, k>> \in Instances
    BY <1>1, InstanceParts DEF Done
  <2> QED BY <2>1 DEF Snapshot, Fired
<1>3. CASE ~isFanned(graph, n)
  <2>1. S # {}
    BY <1>3 DEF CompletedLogical
  <2> QED BY <1>1, <1>2, <1>3, <2>1 DEF Executed
<1>4. CASE isFanned(graph, n)
  <2>1. Cardinality(S) >= graph.width[n] /\ graph.width[n] \in Nat
    BY <1>1, <1>4, GraphParts DEF CompletedLogical, Base, validateGraphReferences
  <2>2. CASE graph.width[n] = 0
    BY <1>4, <2>2, OrdinalAssumption DEF Executed
  <2>3. CASE graph.width[n] # 0
    <3>1. ASSUME NEW k \in S PROVE k < graph.width[n]
      <4>1. k \in 0..MaxOrdinal /\ <<n, k>>[1] = n /\ <<n, k>>[2] = k
        BY <1>1, InstanceParts
      <4>2. k = 0 \/ k < graph.width[n]
        BY <1>2, <1>4, <4>1 DEF Ordered, WithinWidth
      <4> QED BY <2>1, <2>3, <4>2
    <3>2. \A k \in 0..MaxOrdinal : k < graph.width[n] => k \in S
      BY <1>1, <2>1, <3>1, FullSet
    <3> QED BY <1>2, <1>4, <3>2 DEF Executed
  <2> QED BY <2>2, <2>3
<1> QED BY <1>3, <1>4

\* The branch key it follows is the one the node chose, also if it followed none.
LEMMA KnownBranch ==
  ASSUME Base, NEW p \in Passes, Snapshot(p), refused = 0, NEW i \in Instances,
         known[p][i] \in DOMAIN graph.next[i[1]]
  PROVE  branch[i] = known[p][i]
<1>1. CASE known[p][i] # NoBranch
  BY <1>1 DEF Snapshot
<1>2. CASE known[p][i] = NoBranch
  <2>1. DOMAIN graph.next[i[1]] = {NoBranch}
    BY <1>2, GraphParts, InstanceParts DEF Base, validateGraphReferences
  <2>2. branch[i] \in DOMAIN graph.next[i[1]] \cup {NoBranch}
    BY DEF Base, TypeOK
  <2> QED BY <1>2, <2>1, <2>2
<1> QED BY <1>1, <1>2

\* An edge the plan sees was taken.
LEMMA EdgeLed ==
  ASSUME Base, Ordered, NEW p \in Passes, Snapshot(p), refused = 0,
         NEW e \in Edges(graph, rows[p], known[p])
  PROVE  Led(e.target, e.from)
<1>1. CASE e.from = Start /\ e.target \in graph.entries
  BY <1>1 DEF Led
<1>2. ASSUME NEW i \in Instances, rows[p][i].status = "succeeded", e.from = i,
             e.target \in resolveNext(graph, i[1], known[p][i])
      PROVE  Led(e.target, e.from)
  <2>1. row[i].status = "succeeded" /\ effects[i] > 0
    BY <1>2 DEF Snapshot
  <2>2. /\ known[p][i] \in DOMAIN graph.next[i[1]]
        /\ e.target \in graph.next[i[1]][known[p][i]]
    BY <1>2 DEF resolveNext
  <2>3. branch[i] = known[p][i]
    BY <1>2, <2>2, KnownBranch
  <2> QED BY <1>2, <2>1, <2>2, <2>3 DEF Led, Leads
<1>3. ASSUME NEW n \in CompletedLogical(graph, rows[p]), isFanned(graph, n), e.from = <<n>>,
             e.target \in resolveNext(graph, n, NoBranch)
      PROVE  Led(e.target, e.from)
  <2>1. n \in Nodes /\ Executed(n)
    BY CompletedIsExecuted DEF CompletedLogical
  <2>2. Leads(n, NoBranch, e.target)
    BY <1>3 DEF resolveNext, Leads
  <2> QED BY <1>3, <2>1, <2>2 DEF Led
<1> QED BY <1>1, <1>2, <1>3, EdgeParts

\* A back edge comes from a node, and closes a cycle.
LEMMA BackEdge ==
  ASSUME NEW g, NEW rs, NEW kn, NEW e \in Edges(g, rs, kn), isBackEdge(g, e)
  PROVE  e.from # Start /\ closesCycle(g, e.from[1], e.target)
<1>1. e.node # None /\ closesCycle(g, e.node, e.target)
  BY DEF isBackEdge
<1>2. ASSUME NEW i \in Instances, e.from = i, e.node = i[1]
      PROVE  e.from # Start /\ e.from[1] = e.node
  BY <1>2, ActorParts
<1>3. ASSUME NEW n \in CompletedLogical(g, rs), e.from = <<n>>, e.node = n
      PROVE  e.from # Start /\ e.from[1] = e.node
  BY <1>3, ValuesAssumption DEF CompletedLogical
<1> QED BY <1>1, <1>2, <1>3, EdgeParts

\* What an edge fires: items of a forEach node, or the next instance of a plain one.
LEMMA FireOrdinal ==
  ASSUME NEW g, NEW rs, NEW e, NEW f \in FireByEdge(g, rs, e)
  PROVE  /\ f.from = e.from
         /\ \/ /\ isFanned(g, e.target)
               /\ \E k \in ItemsToFire(g, rs, e.target) : f.instance = <<e.target, k>>
            \/ /\ ~isFanned(g, e.target) /\ ~Spent(g, rs, e)
               /\ f.instance = <<e.target, Cardinality(Present(rs, e.target))>>
<1>1. CASE isFanned(g, e.target)
  BY <1>1 DEF FireByEdge
<1>2. CASE ~isFanned(g, e.target)
  BY <1>2 DEF FireByEdge
<1> QED BY <1>1, <1>2

\* The first missing item, while none is in flight.
LEMMA NextItem ==
  ASSUME NEW g, NEW rs, NEW n \in g.sequential, g.width[n] \in Nat,
         NEW k \in ItemsToFire(g, rs, n), NEW j \in 0..MaxOrdinal, j < k
  PROVE  j \in Present(rs, n) /\ j \in Done(rs, n)
<1>1. /\ Present(rs, n) = Done(rs, n) /\ k \in Missing(g, rs, n)
      /\ \A l \in Missing(g, rs, n) : k <= l
  BY DEF ItemsToFire
<1>2. k \in 0..MaxOrdinal /\ k < g.width[n] /\ MaxOrdinal \in Nat
  BY <1>1, OrdinalAssumption DEF Missing
<1>3. j \notin Missing(g, rs, n) /\ j < g.width[n]
  BY <1>1, <1>2
<1> QED BY <1>1, <1>3 DEF Missing

LEMMA PassJustified ==
  ASSUME Base, Ordered, NEW p \in Passes, Snapshot(p),
         NEW f \in ToFire(graph, rows[p], known[p]), f.instance \in Instances,
         row[f.instance].status = "absent"
  PROVE  /\ Justified(f.instance, f.from) /\ f.from \in Predecessors
         /\ InLine(f.instance[1]) => \A j \in 0..MaxOrdinal :
              j < f.instance[2] => j \in Present(rows[p], f.instance[1])
<1> DEFINE x == f.instance
           n == x[1]
<1>0. validateGraphReferences(graph) /\ n \in Nodes /\ x[2] \in 0..MaxOrdinal
      /\ x = <<n, x[2]>> /\ graph.width[n] \in Nat /\ MaxOrdinal \in Nat
      /\ \A k, m, l : <<n, k>> = <<m, l>> => n = m /\ k = l
  BY GraphParts, InstanceParts DEF Base, validateGraphReferences
<1>1. PICK e \in Edges(graph, rows[p], known[p]) :
        /\ areDependenciesSatisfied(graph, rows[p], e.target)
        /\ f \in FireByEdge(graph, rows[p], e)
        /\ f.from = e.from /\ n = e.target
  BY FireParts
<1>2. f.from \in Predecessors
  BY <1>0, <1>1, EdgeTypes
<1>3. \A m \in graph.deps[n] : Executed(m)
  BY <1>1, CompletedIsExecuted DEF areDependenciesSatisfied
<1>4. refused = 0 => Led(n, f.from)
  BY <1>1, EdgeLed
<1>5. /\ NoGaps(rows[p])
      /\ \A k \in Present(rows[p], n) : k \in Present(row, n)
      /\ \A k \in Done(rows[p], n) : effects[<<n, k>>] > 0
  BY <1>0, InstanceParts DEF Snapshot, Present, Done
<1>6. CASE isFanned(graph, n)
  <2>1. PICK k \in ItemsToFire(graph, rows[p], n) : x = <<n, k>>
    BY <1>1, <1>6, FireOrdinal
  <2>2. x[2] = k /\ k < graph.width[n]
    BY <1>0, <2>1 DEF ItemsToFire, Missing
  <2>3. n \in graph.sequential => \A j \in 0..MaxOrdinal : j < x[2] =>
          j \in Present(rows[p], n) /\ j \in Done(rows[p], n)
    BY <1>0, <2>2, NextItem
  <2>4. InLine(n) => n \in graph.sequential
    BY <1>6 DEF InLine
  <2> QED BY <1>2, <1>3, <1>4, <1>5, <1>6, <2>2, <2>3, <2>4 DEF Justified
<1>7. CASE ~isFanned(graph, n)
  <2> DEFINE P == Present(rows[p], n)
  <2>1. ~Spent(graph, rows[p], e) /\ x = <<n, Cardinality(P)>>
    BY <1>1, <1>7, FireOrdinal
  <2>2. x[2] = Cardinality(P)
    BY <1>0, <2>1
  <2>3. P \in SUBSET (0..MaxOrdinal)
    BY DEF Present
  <2>4. \A k \in P, j \in 0..MaxOrdinal : j < k => j \in P
    BY <1>0, <1>5, <1>7 DEF NoGaps, InLine
  <2>5. \A k \in 0..MaxOrdinal : k \in P <=> k < x[2]
    BY <2>2, <2>3, <2>4, GaplessSet
  <2>6. \A k \in Present(row, n) : k \in P
    <3>1. \A k \in Present(row, n) : k < x[2] /\ k \in 0..MaxOrdinal
      BY <1>0, <1>7, FirstOfItsNode DEF Present
    <3> QED BY <2>5, <3>1
  <2>7. \A k \in P : row[<<n, k>>].from = rows[p][<<n, k>>].from
    BY <1>0, <2>3, InstanceParts DEF Snapshot, Present
  <2>8. P # {} => isBackEdge(graph, e) /\ \A k \in P : rows[p][<<n, k>>].from # f.from
    BY <1>1, <2>1 DEF Spent
  <2>9. \A k \in Present(row, n) : row[<<n, k>>].from # f.from
    BY <2>6, <2>7, <2>8
  <2>10. x[2] > 0 => f.from # Start /\ closesCycle(graph, f.from[1], n)
    <3>1. x[2] > 0 => 0 \in P
      BY <1>0, <2>5
    <3> QED BY <1>1, <2>8, <3>1, BackEdge
  <2>11. n \notin graph.sequential
    BY <1>0, <1>7 DEF validateGraphReferences
  <2>12. \A j \in 0..MaxOrdinal : j < x[2] => j \in P
    BY <2>5
  <2> QED BY <1>2, <1>3, <1>4, <1>5, <1>7, <2>9, <2>10, <2>11, <2>12 DEF Justified
<1> QED BY <1>6, <1>7

--------------------------------------------------------------------------------
(* The past is kept by every step.                                             *)

\* No row appears, and none succeeds but by the worker that has its result.
Calm == \A j \in Instances :
  /\ row[j].status = "absent" => row'[j].status = "absent"
  /\ row'[j].status = "succeeded" => row[j].status = "succeeded" \/ epc[j] = "result"

LEMMA WriteCalm ==
  ASSUME Base, NEW i \in Instances,
         Claim(i) \/ StoreResult(i) \/ StoreError(i) \/ StoreMissing(i)
  PROVE  Calm
<1>0. WorkerFacts(i)
  BY WorkerTypes
<1>1. row[i].status # "absent"
  BY <1>0 DEF WorkerFacts, AtRow, Claim, StoreResult, StoreError, StoreMissing
<1>2. PICK v \in {"running", "succeeded", "failed"} :
        SetStatus(i, v) /\ (v = "succeeded" => epc[i] = "result")
  BY DEF Claim, StoreResult, StoreError, StoreMissing
<1>3. row'[i].status = v /\ \A j \in Instances : j # i => row'[j] = row[j]
  BY <1>0, <1>2, RowSet DEF WorkerFacts, StepStatus
<1> QED BY <1>1, <1>2, <1>3 DEF Calm

\* Every step of a worker but the insertion of a handler.
LEMMA WorkerCalm ==
  ASSUME Base, NEW i \in Instances, WorkerStep(i), ~InsertHandler(i)
  PROVE  Calm
<1>1. CASE Claim(i) \/ StoreResult(i) \/ StoreError(i) \/ StoreMissing(i)
  BY <1>1, WriteCalm
<1>2. ASSUME UNCHANGED row PROVE Calm
  BY <1>2 DEF Calm
<1> QED BY <1>1, <1>2 DEF WorkerStep, Returns, Throws, NotFound, SuspendRun, QueueHandler,
     Wake, LastWake

LEMMA PassCalm ==
  ASSUME NEW p \in Passes, PassStep(p) \/ PassDies(p), ~InsertNode(p) PROVE UNCHANGED row
BY DEF PassStep, PassDies, BeginPass, ReadState, FailRun, ReadRun, PlanTransitions,
   CompleteRun,
   QueueNode, ThrowPass, workerVars

\* What queueGraphNode inserts.
LEMMA InsertAdds ==
  ASSUME Base, NEW a \in Actors, NEW x \in Instances, NEW f \in Predecessors,
         Inserts(a, x, f), Justified(x, f)
  PROVE  /\ OnlyInserts(x, f)
         /\ \A j \in Instances : row'[j].status = "succeeded" => row[j].status = "succeeded"
<1>1. /\ row'[x].status = "pending" /\ row'[x].from = f
      /\ \A j \in Instances : j # x => row'[j] = row[j]
  BY RowPut DEF Inserts, Base, TypeOK, Row
<1> QED BY <1>1 DEF OnlyInserts

LEMMA CalmInsertsNothing == ASSUME Calm PROVE OnlyInserts(Start, Start)
BY ActorParts DEF Calm, OnlyInserts

\* What any step does to the rows.
Inserted == \E x, f : OnlyInserts(x, f)
Succeeding == \A j \in Instances :
  row'[j].status = "succeeded" => row[j].status = "succeeded" \/ epc[j] = "result"

LEMMA RowsStep == ASSUME Base, Past, [Next]_vars PROVE Inserted /\ Succeeding
<1>1. ASSUME Calm PROVE Inserted /\ Succeeding
  BY <1>1, CalmInsertsNothing DEF Calm, Inserted, Succeeding
<1>2. ASSUME NEW a \in Actors, NEW x \in Instances, NEW f \in Predecessors,
             Inserts(a, x, f), Justified(x, f)
      PROVE  Inserted /\ Succeeding
  BY <1>2, InsertAdds DEF Inserted, Succeeding
<1>3. ASSUME UNCHANGED row PROVE Inserted /\ Succeeding
  BY <1>1, <1>3 DEF Calm
<1>4. CASE StartInsert
  <2>1. PICK i \in todo : Inserts(Start, i, Start) \/ Conflicts(i)
    BY <1>4 DEF StartInsert
  <2>2. CASE Conflicts(i)
    BY <1>3, <2>2 DEF Conflicts
  <2>3. CASE Inserts(Start, i, Start)
    <3>1. i \in Instances /\ Justified(i, Start)
      BY <2>3, PastParts, StartJustified DEF Inserts, Base, TypeOK
    <3> QED BY <1>2, <2>3, <3>1, ActorParts
  <2> QED BY <2>1, <2>2, <2>3
<1>5. ASSUME NEW i \in Instances, InsertHandler(i) PROVE Inserted /\ Succeeding
  <2>1. PICK n \in handlers[i] : Inserts(i, <<n, 0>>, Start) \/ Conflicts(<<n, 0>>)
    BY <1>5 DEF InsertHandler
  <2>2. CASE Conflicts(<<n, 0>>)
    BY <1>3, <2>2 DEF Conflicts
  <2>3. CASE Inserts(i, <<n, 0>>, Start)
    <3>1. n \in Nodes
      BY DEF Base, TypeOK
    <3>2. Justified(<<n, 0>>, Start)
      BY <1>5, <2>3, PastParts, HandlerJustified DEF Inserts, InsertHandler
    <3> QED BY <1>2, <2>3, <3>1, <3>2, ActorParts, InstanceParts
  <2> QED BY <2>1, <2>2, <2>3
<1>6. ASSUME NEW p \in Passes, InsertNode(p) PROVE Inserted /\ Succeeding
  <2>1. PICK f \in ToFire(graph, rows[p], known[p]) :
          f.instance \in Instances /\ (Inserts(p, f.instance, f.from) \/ Conflicts(f.instance))
    BY <1>6 DEF InsertNode
  <2>2. CASE Conflicts(f.instance)
    BY <1>3, <2>2 DEF Conflicts
  <2>3. CASE Inserts(p, f.instance, f.from)
    <3>1. Justified(f.instance, f.from) /\ f.from \in Predecessors
      BY <2>1, <2>3, PastParts, PassJustified DEF Inserts
    <3> QED BY <1>2, <2>1, <2>3, <3>1, ActorParts
  <2> QED BY <2>1, <2>2, <2>3
<1>7. ASSUME NEW i \in Instances, WorkerStep(i) PROVE Inserted /\ Succeeding
  BY <1>1, <1>5, <1>7, WorkerCalm
<1>8. ASSUME NEW p \in Passes, PassStep(p) \/ PassDies(p) PROVE Inserted /\ Succeeding
  BY <1>3, <1>6, <1>8, PassCalm
<1>9. CASE StartQueue \/ StarterDies \/ Resume \/ UNCHANGED vars
  BY <1>3, <1>9 DEF StartQueue, StarterDies, Resume, vars, workerVars
<1> QED BY <1>4, <1>7, <1>8, <1>9 DEF Next

LEMMA EarnedStep ==
  ASSUME Base, Base', Grows, Past, [Next]_vars, NEW i \in Instances
  PROVE  Earned(i)'
<1>1. ASSUME epc'[i] = "result" => epc[i] = "result" \/ effects'[i] > 0 PROVE Earned(i)'
  BY <1>1, RowsStep, PastParts DEF Earned, Succeeding, Grows
<1>2. epc \in [Instances -> WorkerPC] /\ effects \in [Instances -> Nat]
  BY DEF Base, TypeOK
<1>3. ASSUME NEW j \in Instances, NEW l, WorkerGoto(j, l), l # "result" PROVE Earned(i)'
  <2>1. epc'[i] = IF i = j THEN l ELSE epc[i]
    BY <1>2, <1>3 DEF WorkerGoto
  <2> QED BY <1>1, <1>3, <2>1
<1>4. ASSUME NEW j \in Instances, Returns(j) PROVE Earned(i)'
  <2>1. CASE i = j
    <3>1. effects'[i] > 0
      BY <1>2, <1>4, <2>1 DEF Returns
    <3> QED BY <1>1, <3>1
  <2>2. CASE i # j
    <3>1. epc'[i] = epc[i]
      BY <1>2, <1>4, <2>2 DEF Returns, WorkerGoto
    <3> QED BY <1>1, <3>1
  <2> QED BY <2>1, <2>2
<1>5. ASSUME NEW j \in Instances, WorkerStep(j), ~Returns(j) PROVE Earned(i)'
  <2>1. \E l \in {"exec", "error", "insertHandler", "queueHandler", "wake", "lastWake", "idle",
                  "suspend", "missing", "suspendAgain"} : WorkerGoto(j, l)
    BY <1>5 DEF WorkerStep, Claim, Throws, NotFound, SuspendRun, StoreMissing,
       InsertHandler,
       QueueHandler, StoreResult, Wake, StoreError, LastWake
  <2> QED BY <1>3, <2>1
<1>6. ASSUME UNCHANGED epc PROVE Earned(i)'
  BY <1>1, <1>6
<1>7. ASSUME NEW p \in Passes, PassStep(p) \/ PassDies(p) PROVE UNCHANGED epc
  BY <1>7 DEF PassStep, PassDies, BeginPass, ReadState, FailRun, ReadRun, PlanTransitions,
     CompleteRun, InsertNode, QueueNode, ThrowPass, workerVars
<1>8. CASE StartInsert \/ StartQueue \/ StarterDies \/ Resume \/ UNCHANGED vars
  BY <1>6, <1>8 DEF StartInsert, StartQueue, StarterDies, Resume, vars, workerVars
<1> QED BY <1>4, <1>5, <1>6, <1>7, <1>8 DEF Next

LEMMA HandlersStep ==
  ASSUME Base, Grows, HandlersKnown, [Next]_vars PROVE HandlersKnown'
<1>0. graph' = graph /\ handlers \in [Instances -> SUBSET Nodes]
  BY DEF Grows, Base, TypeOK
<1>1. ASSUME NEW i \in Instances, NEW S, S \subseteq handlers[i] \/ S = graph.onError[i[1]],
             handlers' = [handlers EXCEPT ![i] = S]
      PROVE  HandlersKnown'
  BY <1>0, <1>1 DEF HandlersKnown
<1>2. ASSUME UNCHANGED handlers PROVE HandlersKnown'
  BY <1>0, <1>2 DEF HandlersKnown
<1>3. ASSUME NEW i \in Instances, Throws(i) PROVE HandlersKnown'
  BY <1>1, <1>3 DEF Throws
<1>4. ASSUME NEW i \in Instances, InsertHandler(i) PROVE HandlersKnown'
  <2>1. PICK n \in handlers[i] : \/ handlers' = [handlers EXCEPT ![i] = handlers[i] \ {n}]
                                 \/ handlers' = [handlers EXCEPT ![i] = {}]
    BY <1>4 DEF InsertHandler
  <2>2. handlers[i] \ {n} \subseteq handlers[i] /\ {} \subseteq handlers[i]
    OBVIOUS
  <2> QED BY <1>1, <2>1, <2>2
<1>5. ASSUME NEW i \in Instances, QueueHandler(i) PROVE HandlersKnown'
  <2>1. UNCHANGED handlers \/ handlers' = [handlers EXCEPT ![i] = {}]
    BY <1>5 DEF QueueHandler
  <2> QED BY <1>1, <1>2, <2>1
<1>6. ASSUME NEW i \in Instances, WorkerStep(i) PROVE HandlersKnown'
  BY <1>2, <1>3, <1>4, <1>5, <1>6 DEF WorkerStep, Claim, Returns, NotFound, SuspendRun,
     StoreMissing, StoreResult, Wake, StoreError, LastWake
<1>7. ASSUME NEW p \in Passes, PassStep(p) \/ PassDies(p) PROVE HandlersKnown'
  BY <1>2, <1>7 DEF PassStep, PassDies, BeginPass, ReadState, FailRun, ReadRun,
     PlanTransitions,
     CompleteRun, InsertNode, QueueNode, ThrowPass, workerVars
<1>8. CASE StartInsert \/ StartQueue \/ StarterDies \/ Resume \/ UNCHANGED vars
  BY <1>2, <1>8 DEF StartInsert, StartQueue, StarterDies, Resume, vars, workerVars
<1> QED BY <1>6, <1>7, <1>8 DEF Next

LEMMA ReadyStep == ASSUME Base, Grows, Ready, [Next]_vars PROVE Ready'
<1>1. \A n : graph' = graph /\ InLine(n)' = InLine(n) /\ isFanned(graph', n) = isFanned(graph, n)
  BY DEF Grows, InLine, isFanned
<1>2. ASSUME todo' \subseteq todo PROVE Ready'
  BY <1>1, <1>2 DEF Ready
<1>3. ASSUME NEW i \in Instances, WorkerStep(i) PROVE UNCHANGED todo
  BY <1>3 DEF WorkerStep, Claim, Throws, NotFound, SuspendRun, StoreMissing, InsertHandler,
     QueueHandler, StoreResult, Wake, StoreError, LastWake, Returns, starterVars
<1>4. ASSUME NEW p \in Passes, PassStep(p) \/ PassDies(p) PROVE UNCHANGED todo
  BY <1>4 DEF PassStep, PassDies, BeginPass, ReadState, FailRun, ReadRun, PlanTransitions,
     CompleteRun, InsertNode, QueueNode, ThrowPass, starterVars
<1>5. CASE StartInsert \/ StartQueue \/ StarterDies \/ Resume \/ UNCHANGED vars
  BY <1>2, <1>5 DEF StartInsert, StartQueue, StarterDies, Resume, vars, starterVars
<1> QED BY <1>2, <1>3, <1>4, <1>5 DEF Next

\* A pass that has read nothing knows nothing wrong.
LEMMA NothingRead ==
  ASSUME NEW p \in Passes, rows'[p] = NoRows, known'[p] = NothingKnown PROVE Snapshot(p)'
<1>1. \A i \in Instances : rows'[p][i].status = "absent" /\ known'[p][i] = NoBranch
  BY DEF NoRows, NoRow, NothingKnown
<1>2. \A n \in Nodes : Present(rows'[p], n) = {}
  BY <1>1, InstanceParts DEF Present
<1> QED BY <1>1, <1>2 DEF Snapshot, NoGaps

\* A pass that reads the rows, and one that adds what it fires.
LEMMA ReadsRows ==
  ASSUME Base, Past, NEW p \in Passes, rows' = [rows EXCEPT ![p] = row],
         UNCHANGED <<graph, row, branch, effects, refused, known>>
  PROVE  Snapshot(p)'
<1>1. rows'[p] = row
  BY DEF Base, TypeOK
<1>2. NoGaps(row)'
  BY <1>1, PastParts DEF Ordered, NoGaps, InLine, isFanned, Present
<1>3. \A i \in Instances : row[i].status = "succeeded" => effects[i] > 0
  BY PastParts DEF Earned
<1>4. Snapshot(p)
  BY PastParts
<1> QED BY <1>1, <1>2, <1>3, <1>4 DEF Snapshot, NoGaps

LEMMA AddsRow ==
  ASSUME Base, Past, NEW p \in Passes, NEW x \in Instances, NEW f \in Predecessors,
         Inserts(p, x, f), UNCHANGED <<graph, known, branch, effects, refused>>,
         rows' = [rows EXCEPT ![p][x] = Pending(f)],
         InLine(x[1]) => \A j \in 0..MaxOrdinal : j < x[2] => j \in Present(rows[p], x[1])
  PROVE  Snapshot(p)'
<1>1. Snapshot(p) /\ row[x].status = "absent" /\ row \in [Instances -> Row]
      /\ rows \in [Passes -> [Instances -> Row]]
  BY PastParts DEF Inserts, Base, TypeOK, Row
<1>3. row'[x].status = "pending" /\ row'[x].from = f
      /\ \A j \in Instances : j # x => row'[j] = row[j]
  BY <1>1, RowPut DEF Inserts
<1>4. /\ rows'[p][x].status = "pending" /\ rows'[p][x].from = f
      /\ \A j \in Instances : j # x => rows'[p][j] = rows[p][j]
  BY <1>1 DEF Pending
<1>5. NoGaps(rows[p])'
  <2> SUFFICES ASSUME NEW n \in Nodes, InLine(n), NEW k \in Present(rows'[p], n),
                      NEW j \in 0..MaxOrdinal, j < k
               PROVE  j \in Present(rows'[p], n)
    BY DEF NoGaps, InLine, isFanned
  <2>1. k \in 0..MaxOrdinal /\ <<n, k>> \in Instances /\ <<n, j>> \in Instances
    BY InstanceParts DEF Present
  <2>2. j \in Present(rows[p], n)
    <3>1. CASE <<n, k>> = x
      <4>1. x[1] = n /\ x[2] = k
        BY <2>1, <3>1, InstanceParts
      <4> QED BY <4>1
    <3>2. CASE <<n, k>> # x
      <4>1. k \in Present(rows[p], n)
        BY <1>4, <2>1, <3>2 DEF Present
      <4> QED BY <1>1, <4>1 DEF Snapshot, NoGaps
    <3> QED BY <3>1, <3>2
  <2> QED BY <1>4, <2>1, <2>2 DEF Present
<1>6. ASSUME NEW i \in Instances, rows'[p][i].status # "absent"
      PROVE  /\ row'[i].status # "absent" /\ row'[i].from = rows'[p][i].from
             /\ rows'[p][i].status = "succeeded" =>
                  effects[i] > 0 /\ (refused = 0 => row'[i].status = "succeeded")
  <2>1. CASE i = x
    BY <1>3, <1>4, <2>1
  <2>2. CASE i # x
    BY <1>1, <1>3, <1>4, <1>6, <2>2 DEF Snapshot
  <2> QED BY <2>1, <2>2
<1>7. \A i \in Instances : known[p][i] # NoBranch /\ refused = 0 =>
        row'[i].status = "succeeded" /\ branch[i] = known[p][i]
  BY <1>1, <1>3 DEF Snapshot
<1> QED BY <1>5, <1>6, <1>7 DEF Snapshot

\* The branches it reads are those of nodes that succeeded.
LEMMA ReadsBranches ==
  ASSUME Base, Base', Past, Grows, NEW p \in Passes, ReadState(p) PROVE Snapshot(p)'
<1>1. UNCHANGED <<graph, row, branch, effects, refused, rows>> /\ Snapshot(p)
  BY PastParts DEF ReadState, workerVars, faultVars
<1>2. known'[p] = [i \in Instances |-> IF row[i].status = "succeeded" THEN branch[i]
                                       ELSE NoBranch]
  BY DEF ReadState, Base, TypeOK
<1> QED BY <1>1, <1>2 DEF Snapshot, NoGaps, InLine, isFanned, Present

LEMMA SnapshotStep ==
  ASSUME Base, Base', Past, Grows, [Next]_vars, NEW p \in Passes PROVE Snapshot(p)'
<1>0. /\ rows \in [Passes -> [Instances -> Row]] /\ DOMAIN known = Passes /\ Snapshot(p)
      /\ DOMAIN known' = Passes
  BY PastParts DEF Base, TypeOK, Row
<1>1. ASSUME UNCHANGED <<rows[p], known[p]>> PROVE Snapshot(p)'
  BY <1>0, <1>1, SnapshotStays
<1>2. ASSUME UNCHANGED <<rows, known>> PROVE Snapshot(p)'
  BY <1>1, <1>2
<1>3. ASSUME NEW q \in Passes, Leaves(q) PROVE Snapshot(p)'
  <2>1. CASE q = p
    <3>1. known' = [known EXCEPT ![p] = NothingKnown] /\ rows' = [rows EXCEPT ![p] = NoRows]
      BY <1>3, <2>1 DEF Leaves
    <3>2. known'[p] = NothingKnown /\ rows'[p] = NoRows
      BY <1>0, <3>1
    <3> QED BY <3>2, NothingRead
  <2>2. CASE q # p
    BY <1>0, <1>1, <1>3, <2>2 DEF Leaves
  <2> QED BY <2>1, <2>2
<1>4. ASSUME NEW q \in Passes, ReadState(q) PROVE Snapshot(p)'
  <2>1. CASE q = p
    BY <1>4, <2>1, ReadsBranches
  <2>2. CASE q # p
    BY <1>0, <1>1, <1>4, <2>2 DEF ReadState
  <2> QED BY <2>1, <2>2
<1>5. ASSUME NEW q \in Passes, PlanTransitions(q) PROVE Snapshot(p)'
  <2>1. CASE rows' = [rows EXCEPT ![q] = row] /\ UNCHANGED known
    <3>1. UNCHANGED <<graph, row, branch, effects, refused>>
      BY <1>5 DEF PlanTransitions, workerVars, faultVars
    <3>2. CASE q = p
      BY <2>1, <3>1, <3>2, ReadsRows
    <3>3. CASE q # p
      BY <1>0, <1>1, <2>1, <3>3
    <3> QED BY <3>2, <3>3
  <2>2. CASE PassLeave(q)
    BY <1>3, <2>2 DEF PassLeave
  <2>3. CASE UNCHANGED <<rows, known>>
    BY <1>2, <2>3
  <2> QED BY <1>5, <2>1, <2>2, <2>3 DEF PlanTransitions
<1>6. ASSUME NEW q \in Passes, InsertNode(q) PROVE Snapshot(p)'
  <2>1. PICK f \in ToFire(graph, rows[q], known[q]) :
          /\ f.instance \in Instances
          /\ \/ /\ Inserts(q, f.instance, f.from)
                /\ rows' = [rows EXCEPT ![q][f.instance] = Pending(f.from)]
             \/ Conflicts(f.instance) /\ UNCHANGED rows
    BY <1>6 DEF InsertNode
  <2>2. UNCHANGED <<graph, known, branch, effects, refused>>
    BY <1>6 DEF InsertNode
  <2>3. CASE UNCHANGED rows
    BY <1>2, <2>2, <2>3
  <2>4. CASE /\ Inserts(q, f.instance, f.from)
             /\ rows' = [rows EXCEPT ![q][f.instance] = Pending(f.from)]
    <3>1. CASE q # p
      BY <1>0, <1>1, <2>2, <2>4, <3>1
    <3>2. CASE q = p
      <4>1. PICK x, h : x = f.instance /\ h = f.from
        OBVIOUS
      <4>2. /\ h \in Predecessors
            /\ InLine(x[1]) =>
                 \A j \in 0..MaxOrdinal : j < x[2] => j \in Present(rows[p], x[1])
        BY <1>0, <2>1, <2>4, <3>2, <4>1, PastParts, PassJustified DEF Inserts
      <4>3. x \in Instances /\ Inserts(p, x, h)
            /\ rows' = [rows EXCEPT ![p][x] = Pending(h)]
        BY <2>1, <2>4, <3>2, <4>1
      <4> QED BY <2>2, <4>2, <4>3, AddsRow
    <3> QED BY <3>1, <3>2
  <2> QED BY <2>1, <2>3, <2>4
<1>7. ASSUME NEW q \in Passes, QueueNode(q) PROVE Snapshot(p)'
  BY <1>2, <1>3, <1>7 DEF QueueNode
<1>8. ASSUME NEW q \in Passes, PassStep(q) \/ PassDies(q) PROVE Snapshot(p)'
  BY <1>2, <1>3, <1>4, <1>5, <1>6, <1>7, <1>8 DEF PassStep, PassDies, BeginPass, FailRun,
     ReadRun, CompleteRun, ThrowPass, PassLeave
<1>9. ASSUME NEW i \in Instances, WorkerStep(i) PROVE UNCHANGED <<rows, known>>
  BY <1>9 DEF WorkerStep, Claim, Throws, NotFound, SuspendRun, StoreMissing, InsertHandler,
     QueueHandler, StoreResult, Wake, StoreError, LastWake, Returns, passVars
<1>10. CASE StartInsert \/ StartQueue \/ StarterDies \/ Resume \/ UNCHANGED vars
  BY <1>2, <1>10 DEF StartInsert, StartQueue, StarterDies, Resume, vars, passVars
<1> QED BY <1>2, <1>8, <1>9, <1>10 DEF Next

LEMMA PastStep == ASSUME Base, Past, [Next]_vars PROVE Past'
<1>1. Base' /\ Grows
  BY BaseStep, GrowsStep
<1>2. \A i \in Instances : Earned(i)'
  BY <1>1, EarnedStep
<1>3. HandlersKnown' /\ Ready'
  BY <1>1, PastParts, HandlersStep, ReadyStep
<1>4. Ordered'
  <2>1. PICK x, f : OnlyInserts(x, f)
    BY RowsStep DEF Inserted
  <2> QED BY <1>1, <2>1, PastParts, OrderedStep
<1>5. \A p \in Passes : Snapshot(p)'
  BY <1>1, SnapshotStep
<1> QED BY <1>2, <1>3, <1>4, <1>5 DEF Past

LEMMA PastInit == Init => Past
<1> SUFFICES ASSUME Init PROVE Past
  OBVIOUS
<1>1. \A i \in Instances : row[i].status = "absent" /\ epc[i] = "idle" /\ handlers[i] = {}
  BY DEF Init, NoRows, NoRow
<1>2. Fired = {} /\ \A n \in Nodes : Present(row, n) = {}
  BY <1>1, InstanceParts DEF Fired, Present
<1>3. Ordered
  BY <1>2 DEF Ordered, NoGaps, WithinWidth, AllLed, JoinsWait, NodeOncePerForwardEdge,
     ItemsInTurn
<1>4. (\A i \in Instances : Earned(i)) /\ HandlersKnown
  BY <1>1 DEF Earned, HandlersKnown
<1>5. Ready
  BY EntryParts, GraphsAssumption DEF Init, Ready, InLine
<1>6. ASSUME NEW p \in Passes PROVE Snapshot(p)
  <2>1. \A i \in Instances : rows[p][i].status = "absent" /\ known[p][i] = NoBranch
    BY DEF Init, NoRows, NoRow, NothingKnown
  <2>2. \A n \in Nodes : Present(rows[p], n) = {}
    BY <2>1, InstanceParts DEF Present
  <2> QED BY <2>1, <2>2 DEF Snapshot, NoGaps
<1> QED BY <1>3, <1>4, <1>5, <1>6 DEF Past

LEMMA OrderedAlways == Spec => []Ordered
<1>1. Base /\ Past /\ [Next]_vars => Past'
  BY PastStep
<1>2. Past => Ordered
  BY DEF Past
<1> QED BY <1>1, <1>2, PastInit, BaseAlways, PTL DEF Spec

--------------------------------------------------------------------------------
(* What holds of every run of every graph.                                     *)

\* A join waits: however many passes plan at once, on rows read some time ago,
\* a node is fired only when all it depends on has been executed, every item of
\* a forEach node included.
THEOREM JoinsAlwaysWait == Spec => []JoinsWait
<1>1. Ordered => JoinsWait
  BY DEF Ordered
<1> QED BY <1>1, OrderedAlways, PTL

\* While no wake is refused, nothing runs that no entry, error or chosen branch
\* led to, though a pass reads the branches and the rows in separate queries.
THEOREM EdgesAreTaken == Spec => []OnlyTakenEdges
<1>1. Base /\ Ordered => OnlyTakenEdges
  <2> SUFFICES ASSUME Base, Ordered, ~(refused > 0), NEW i \in Fired
               PROVE  LET f == row[i].from
                          tried == \E j \in Fired : i[1] \in graph.onError[j[1]]
                      IN  \/ f = Start /\ (i[1] \in graph.entries \/ tried)
                          \/ f \in Instances /\ effects[f] > 0 /\ Leads(f[1], branch[f], i[1])
                          \/ \E n \in Nodes :
                               /\ f = <<n>> /\ isFanned(graph, n) /\ Executed(n)
                               /\ Leads(n, NoBranch, i[1])
    BY DEF OnlyTakenEdges
  <2>1. refused = 0
    BY DEF Base, TypeOK
  <2>2. Led(i[1], row[i].from)
    BY <2>1 DEF Ordered, AllLed
  <2> QED BY <2>2 DEF Led, Tried
<1> QED BY <1>1, BaseAlways, OrderedAlways, PTL

\* Two passes that plan the same node make one instance of it, and each edge
\* that closes a cycle makes at most one more.
THEOREM OncePerEdge == Spec => []NodeOncePerForwardEdge
<1>1. Ordered => NodeOncePerForwardEdge
  BY DEF Ordered
<1> QED BY <1>1, OrderedAlways, PTL

\* The items of a sequential forEach take turns, whoever starts them.
THEOREM ItemsTakeTurns == Spec => []ItemsInTurn
<1>1. Ordered => ItemsInTurn
  BY DEF Ordered
<1> QED BY <1>1, OrderedAlways, PTL

--------------------------------------------------------------------------------
(* A run is completed when all is done.                                        *)

\* What a pass that completes, and a run that is complete, stand on.
Completes == \A p \in Passes :
  ppc[p] = "complete" /\ refused = 0 /\ UpToDate(p) => Finished
Settled == Completes /\ CompletedMeansDone

\* The plan of a pass is the plan of the rows, if its branches are.
LEMMA SamePlan ==
  ASSUME NEW kn, \A i \in Instances : row[i].status = "succeeded" => kn[i] = branch[i]
  PROVE  ToFire(graph, row, kn) = ToFire(graph, row, branch)
         /\ (BlockedWaiting(graph, row, kn) <=> BlockedWaiting(graph, row, branch))
<1>1. {{Edge(i, i[1], t) : t \in resolveNext(graph, i[1], kn[i])} :
         i \in {j \in Instances : row[j].status = "succeeded" /\ ~isFanned(graph, j[1])}}
      = {{Edge(i, i[1], t) : t \in resolveNext(graph, i[1], branch[i])} :
         i \in {j \in Instances : row[j].status = "succeeded" /\ ~isFanned(graph, j[1])}}
  OBVIOUS
<1>2. Edges(graph, row, kn) = Edges(graph, row, branch)
  BY <1>1 DEF Edges
<1> QED BY <1>2 DEF ToFire, BlockedWaiting

LEMMA CompleteIsFinished ==
  ASSUME NEW p \in Passes, IsComplete(row, known[p]), UpToDate(p)
  PROVE  Finished
BY SamePlan DEF IsComplete, UpToDate, HasInFlight, Finished, Fired

\* Edges of the rows and the branches there are.
LEMMA EdgeOf ==
  ASSUME NEW g, NEW rs, NEW kn
  PROVE  /\ \A t \in g.entries : Edge(Start, None, t) \in Edges(g, rs, kn)
         /\ \A i \in Instances : rs[i].status = "succeeded" /\ ~isFanned(g, i[1]) =>
              \A t \in resolveNext(g, i[1], kn[i]) : Edge(i, i[1], t) \in Edges(g, rs, kn)
         /\ \A n \in CompletedLogical(g, rs) : isFanned(g, n) =>
              \A t \in resolveNext(g, n, NoBranch) : Edge(<<n>>, n, t) \in Edges(g, rs, kn)
<1>1. ASSUME NEW i \in Instances, rs[i].status = "succeeded", ~isFanned(g, i[1]),
             NEW t \in resolveNext(g, i[1], kn[i])
      PROVE  Edge(i, i[1], t) \in Edges(g, rs, kn)
  <2> DEFINE S == {Edge(i, i[1], u) : u \in resolveNext(g, i[1], kn[i])}
  <2>1. Edge(i, i[1], t) \in S
    OBVIOUS
  <2>2. S \in {{Edge(j, j[1], u) : u \in resolveNext(g, j[1], kn[j])} :
                j \in {l \in Instances : /\ rs[l].status = "succeeded"
                                         /\ ~isFanned(g, l[1])}}
    BY <1>1
  <2> QED BY <2>1, <2>2 DEF Edges
<1>2. ASSUME NEW n \in CompletedLogical(g, rs), isFanned(g, n),
             NEW t \in resolveNext(g, n, NoBranch)
      PROVE  Edge(<<n>>, n, t) \in Edges(g, rs, kn)
  <2> DEFINE S == {Edge(<<n>>, n, u) : u \in resolveNext(g, n, NoBranch)}
  <2>1. Edge(<<n>>, n, t) \in S
    OBVIOUS
  <2>2. S \in {{Edge(<<m>>, m, u) : u \in resolveNext(g, m, NoBranch)} :
                m \in {l \in CompletedLogical(g, rs) : isFanned(g, l)}}
    BY <1>2
  <2> QED BY <2>1, <2>2 DEF Edges
<1>3. \A t \in g.entries : Edge(Start, None, t) \in Edges(g, rs, kn)
  BY DEF Edges
<1> QED BY <1>1, <1>2, <1>3

\* A width that can be read stays readable while items only get done.
LEMMA WidthStays ==
  ASSUME NEW g, NEW rs, NEW ss, NEW n \in Nodes, validateGraphReferences(g),
         \A m \in Nodes : Done(rs, m) \subseteq Done(ss, m),
         WidthKnown(g, rs, n)
  PROVE  WidthKnown(g, ss, n)
<1> DEFINE Fanned == {m \in Nodes : isFanned(g, m)}
<1>1. SUFFICES ASSUME NEW K \in SUBSET Fanned,
                      \A m \in Fanned : SourceRead(g, ss, m, K) => m \in K
               PROVE  n \in K
  BY DEF WidthKnown
<1>2. \A m \in Fanned : SourceRead(g, rs, m, K) => SourceRead(g, ss, m, K)
  <2>1. \A m \in Fanned : g.source[m] \in Nodes \cup {Trigger}
    BY DEF validateGraphReferences, isFanned
  <2> QED BY <2>1 DEF SourceRead, AllItemsDone
<1> QED BY <1>1, <1>2 DEF WidthKnown

\* What a pass holds completed is completed in the rows too.
LEMMA CompletedStays ==
  ASSUME Base, NEW p \in Passes, Snapshot(p), refused = 0,
         NEW n \in CompletedLogical(graph, rows[p])
  PROVE  n \in CompletedLogical(graph, row)
<1>0. validateGraphReferences(graph) /\ n \in Nodes
  BY GraphParts DEF Base, CompletedLogical
<1>1. ASSUME NEW m \in Nodes
      PROVE  /\ Done(rows[p], m) \subseteq Done(row, m)
             /\ Done(row, m) \in SUBSET (0..MaxOrdinal)
             /\ Done(rows[p], m) \in SUBSET (0..MaxOrdinal)
  BY InstanceParts DEF Snapshot, Done
<1>2. /\ Cardinality(Done(rows[p], n)) <= Cardinality(Done(row, n))
      /\ Cardinality(Done(rows[p], n)) \in Nat /\ Cardinality(Done(row, n)) \in Nat
  BY <1>0, <1>1, OrdinalSets, FS_Subset
<1>3. isFanned(graph, n) => (WidthKnown(graph, rows[p], n) => WidthKnown(graph, row, n))
  BY <1>0, <1>1, WidthStays
<1>4. graph.width[n] \in Nat
  BY <1>0 DEF validateGraphReferences
<1>5. CASE isFanned(graph, n)
  BY <1>0, <1>2, <1>3, <1>4, <1>5 DEF CompletedLogical
<1>6. CASE ~isFanned(graph, n)
  BY <1>0, <1>1, <1>6 DEF CompletedLogical
<1> QED BY <1>5, <1>6

\* So is the edge it follows.
LEMMA EdgeStays ==
  ASSUME Base, NEW p \in Passes, Snapshot(p), refused = 0,
         NEW e \in Edges(graph, rows[p], known[p])
  PROVE  e \in Edges(graph, row, branch)
<1>0. e = Edge(e.from, e.node, e.target)
  BY EdgeParts
<1>1. CASE e.from = Start /\ e.node = None /\ e.target \in graph.entries
  BY <1>0, <1>1, EdgeOf
<1>2. ASSUME NEW i \in Instances, rows[p][i].status = "succeeded", ~isFanned(graph, i[1]),
             e.from = i, e.node = i[1], e.target \in resolveNext(graph, i[1], known[p][i])
      PROVE  e \in Edges(graph, row, branch)
  <2>1. row[i].status = "succeeded"
    BY <1>2 DEF Snapshot
  <2>2. known[p][i] \in DOMAIN graph.next[i[1]]
    BY <1>2 DEF resolveNext
  <2>3. branch[i] = known[p][i]
    BY <1>2, <2>2, KnownBranch
  <2>4. Edge(i, i[1], e.target) \in Edges(graph, row, branch)
    BY <1>2, <2>1, <2>3, EdgeOf
  <2> QED BY <1>0, <1>2, <2>4
<1>3. ASSUME NEW n \in CompletedLogical(graph, rows[p]), isFanned(graph, n), e.from = <<n>>,
             e.node = n, e.target \in resolveNext(graph, n, NoBranch)
      PROVE  e \in Edges(graph, row, branch)
  <2>1. n \in CompletedLogical(graph, row)
    BY CompletedStays
  <2>2. Edge(<<n>>, n, e.target) \in Edges(graph, row, branch)
    BY <1>3, <2>1, EdgeOf
  <2> QED BY <1>0, <1>3, <2>2
<1> QED BY <1>1, <1>2, <1>3, EdgeParts

\* When all that was fired has succeeded, an instance that an edge asks for and
\* nobody has inserted is there to fire.
LEMMA FiresMissing ==
  ASSUME Base, Ordered, \A i \in Fired : row[i].status = "succeeded",
         NEW e \in Edges(graph, row, branch), areDependenciesSatisfied(graph, row, e.target),
         NEW x \in Instances, x[1] = e.target, row[x].status = "absent",
         isFanned(graph, x[1]) =>
           /\ WidthKnown(graph, row, x[1]) /\ x[2] < graph.width[x[1]]
           /\ x[1] \in graph.sequential =>
                \A j \in 0..MaxOrdinal : j < x[2] => j \in Present(row, x[1]),
         ~isFanned(graph, x[1]) => ~Spent(graph, row, e)
  PROVE  ToFire(graph, row, branch) # {}
<1> DEFINE n == x[1]
<1>0. n \in Nodes /\ x[2] \in 0..MaxOrdinal /\ x = <<n, x[2]>> /\ MaxOrdinal \in Nat
  BY InstanceParts
<1>1. FireByEdge(graph, row, e) # {}
  <2>1. CASE ~isFanned(graph, n)
    BY <2>1 DEF FireByEdge
  <2>2. CASE isFanned(graph, n)
    <3>1. x[2] \in Missing(graph, row, n)
      BY <1>0, <2>2 DEF Missing, Present
    <3>2. Present(row, n) = Done(row, n)
      BY <1>0, PresentFired DEF Present, Done
    <3>3. n \in graph.sequential => \A j \in Missing(graph, row, n) : x[2] <= j
      BY <1>0, <2>2 DEF Missing
    <3>4. x[2] \in ItemsToFire(graph, row, n)
      BY <3>1, <3>2, <3>3 DEF ItemsToFire
    <3>5. [instance |-> <<n, x[2]>>, from |-> e.from] \in FireByEdge(graph, row, e)
      BY <2>2, <3>4 DEF FireByEdge
    <3> QED BY <3>5
  <2> QED BY <2>1, <2>2
<1>2. PICK f : f \in FireByEdge(graph, row, e)
  BY <1>1
<1>3. f \in ToFire(graph, row, branch)
  BY <1>2 DEF ToFire
<1> QED BY <1>3

\* A finished run leaves the starter ...
LEMMA StarterFindsNothing ==
  ASSUME Base, Ordered, Ready, Finished, NEW i \in todo
  PROVE  row[i].status # "absent"
<1> SUFFICES ASSUME row[i].status = "absent" PROVE FALSE
  OBVIOUS
<1>1. /\ i \in Instances /\ i[1] \in Nodes /\ i[2] \in 0..MaxOrdinal /\ i = <<i[1], i[2]>>
      /\ MaxOrdinal \in Nat
  BY InstanceParts DEF Base, TypeOK
<1>2. /\ i[1] \in graph.entries /\ graph.deps[i[1]] = {}
      /\ isFanned(graph, i[1]) => i[2] < graph.width[i[1]]
      /\ InLine(i[1]) => i[2] = 0
  BY DEF Ready
<1> DEFINE e == Edge(Start, None, i[1])
<1>3. e \in Edges(graph, row, branch) /\ e.target = i[1]
  BY <1>2, EdgeOf DEF Edge
<1>4. areDependenciesSatisfied(graph, row, i[1])
  BY <1>2 DEF areDependenciesSatisfied
<1>5. isFanned(graph, i[1]) => WidthKnown(graph, row, i[1])
  <2>1. isFanned(graph, i[1]) => graph.source[i[1]] = Trigger
    BY <1>1, <1>2, GraphParts DEF Base, validateGraphReferences, isFanned
  <2> QED BY <1>1, <2>1 DEF WidthKnown, SourceRead
<1>6. ~isFanned(graph, i[1]) => ~Spent(graph, row, e)
  <2> SUFFICES ASSUME ~isFanned(graph, i[1]) PROVE Present(row, i[1]) = {}
    BY <1>3 DEF Spent
  <2>1. i[2] = 0
    BY <1>2 DEF InLine
  <2>2. \A k \in Present(row, i[1]) : k < 0 /\ k \in 0..MaxOrdinal
    BY <1>1, <2>1, FirstOfItsNode DEF Present
  <2> QED BY <1>1, <2>2
<1>7. i[1] \in graph.sequential => \A j \in 0..MaxOrdinal : ~(j < i[2])
  BY <1>1, <1>2 DEF InLine
<1>8. PICK d \in Edges(graph, row, branch) : d = e
  BY <1>3
<1>9. ToFire(graph, row, branch) # {}
  BY <1>1, <1>2, <1>3, <1>4, <1>5, <1>6, <1>7, <1>8, FiresMissing DEF Finished
<1> QED BY <1>9 DEF Finished

\* ... and every pass nothing to insert, however old what it read is.
LEMMA PassFindsNothing ==
  ASSUME Base, Ordered, Finished, refused = 0, NEW p \in Passes, Snapshot(p),
         NEW f \in ToFire(graph, rows[p], known[p]), f.instance \in Instances
  PROVE  row[f.instance].status # "absent"
<1> SUFFICES ASSUME row[f.instance].status = "absent" PROVE FALSE
  OBVIOUS
<1>0. PICK x \in Instances : x = f.instance
  OBVIOUS
<1> DEFINE n == x[1]
<1>1. /\ validateGraphReferences(graph) /\ n \in Nodes /\ x[2] \in 0..MaxOrdinal
      /\ x = <<n, x[2]>> /\ graph.width[n] \in Nat /\ MaxOrdinal \in Nat
      /\ \A k, m, l : <<n, k>> = <<m, l>> => n = m /\ k = l
  BY GraphParts, InstanceParts DEF Base, validateGraphReferences
<1>2. PICK e \in Edges(graph, rows[p], known[p]) :
        /\ areDependenciesSatisfied(graph, rows[p], e.target)
        /\ f \in FireByEdge(graph, rows[p], e)
        /\ f.from = e.from /\ n = e.target
  BY <1>0, FireParts
<1>3. e \in Edges(graph, row, branch)
  BY EdgeStays
<1>4. areDependenciesSatisfied(graph, row, n)
  BY <1>2, CompletedStays DEF areDependenciesSatisfied
<1>5. \A k \in 0..MaxOrdinal : <<n, k>> \in Instances
  BY <1>1, InstanceParts
<1>6. isFanned(graph, n) =>
        /\ WidthKnown(graph, row, n) /\ x[2] < graph.width[n]
        /\ n \in graph.sequential => \A j \in 0..MaxOrdinal : j < x[2] => j \in Present(row, n)
  <2> SUFFICES ASSUME isFanned(graph, n)
               PROVE  /\ WidthKnown(graph, row, n) /\ x[2] < graph.width[n]
                      /\ n \in graph.sequential =>
                           \A j \in 0..MaxOrdinal : j < x[2] => j \in Present(row, n)
    OBVIOUS
  <2>1. PICK k \in ItemsToFire(graph, rows[p], n) : x = <<n, k>>
    BY <1>0, <1>2, FireOrdinal
  <2>2. x[2] = k /\ k < graph.width[n]
    BY <1>1, <2>1 DEF ItemsToFire, Missing
  <2>3. \A j \in Present(rows[p], n) : j \in Present(row, n)
    BY <1>5 DEF Snapshot, Present
  <2>4. WidthKnown(graph, rows[p], n)
    BY <1>2 DEF FireByEdge
  <2>5. WidthKnown(graph, row, n)
    <3>1. \A m \in Nodes : Done(rows[p], m) \subseteq Done(row, m)
      BY InstanceParts DEF Snapshot, Done
    <3> QED BY <1>1, <2>4, <3>1, WidthStays
  <2> QED BY <1>1, <2>2, <2>3, <2>5, NextItem
<1>7. ~isFanned(graph, n) => ~Spent(graph, row, e)
  <2> SUFFICES ASSUME ~isFanned(graph, n) PROVE ~Spent(graph, row, e)
    OBVIOUS
  <2> DEFINE P == Present(rows[p], n)
  <2>1. ~Spent(graph, rows[p], e) /\ x[2] = Cardinality(P)
    BY <1>0, <1>1, <1>2, FireOrdinal
  <2>2. P \in SUBSET (0..MaxOrdinal)
    BY DEF Present
  <2>3. \A k \in P, j \in 0..MaxOrdinal : j < k => j \in P
    BY <1>1 DEF Snapshot, NoGaps, InLine
  <2>4. \A k \in 0..MaxOrdinal : k \in P <=> k < x[2]
    BY <2>1, <2>2, <2>3, GaplessSet
  <2>5. \A k \in Present(row, n) : k < x[2] /\ k \in 0..MaxOrdinal
    BY <1>0, <1>1, FirstOfItsNode DEF Present
  <2>6. \A k \in P : k \in Present(row, n) /\ row[<<n, k>>].from = rows[p][<<n, k>>].from
    BY <1>5, <2>2 DEF Snapshot, Present
  <2>7. Present(row, n) = P
    BY <2>4, <2>5, <2>6
  <2> QED BY <1>2, <2>1, <2>6, <2>7 DEF Spent
<1>8. ToFire(graph, row, branch) # {}
  BY <1>0, <1>2, <1>3, <1>4, <1>6, <1>7, FiresMissing DEF Finished
<1> QED BY <1>8 DEF Finished

LEMMA FinishedStays ==
  ASSUME Base, Past, Finished, refused = 0, [Next]_vars
  PROVE  UNCHANGED <<graph, row, branch>> /\ Finished'
<1>0. Ordered /\ Ready /\ \A p \in Passes : Snapshot(p)
  BY PastParts
<1>1. ASSUME UNCHANGED <<graph, row, branch>> PROVE Finished'
  BY <1>1 DEF Finished, Fired
<1>2. ASSUME NEW i \in Instances, WorkerStep(i) PROVE UNCHANGED <<graph, row, branch>>
  <2>1. row[i].status \in {"absent", "succeeded"}
    BY DEF Finished, Fired
  <2>2. epc[i] \in {"idle", "wake"}
    BY <2>1 DEF Base, AtRow
  <2> QED BY <1>2, <2>1, <2>2 DEF WorkerStep, Claim, Returns, Throws, NotFound, SuspendRun,
       StoreMissing, InsertHandler, QueueHandler, StoreResult, Wake, StoreError, LastWake
<1>3. ASSUME NEW p \in Passes, PassStep(p) \/ PassDies(p)
      PROVE  UNCHANGED <<graph, row, branch>>
  <2>1. CASE InsertNode(p)
    <3>1. PICK f \in ToFire(graph, rows[p], known[p]) :
            f.instance \in Instances /\ (Inserts(p, f.instance, f.from) \/ Conflicts(f.instance))
      BY <2>1 DEF InsertNode
    <3>2. ~Inserts(p, f.instance, f.from)
      BY <1>0, <3>1, PassFindsNothing DEF Inserts
    <3> QED BY <2>1, <3>1, <3>2 DEF InsertNode, Conflicts
  <2> QED BY <1>3, <2>1 DEF PassStep, PassDies, BeginPass, ReadState, FailRun, ReadRun,
       PlanTransitions, CompleteRun, QueueNode, ThrowPass, workerVars
<1>4. ASSUME StartInsert PROVE UNCHANGED <<graph, row, branch>>
  <2>1. PICK i \in todo : Inserts(Start, i, Start) \/ Conflicts(i)
    BY <1>4 DEF StartInsert
  <2>2. ~Inserts(Start, i, Start)
    BY <1>0, StarterFindsNothing DEF Inserts
  <2> QED BY <1>4, <2>1, <2>2 DEF StartInsert, Conflicts
<1>5. ASSUME StartQueue \/ StarterDies \/ Resume \/ UNCHANGED vars
      PROVE  UNCHANGED <<graph, row, branch>>
  BY <1>5 DEF StartQueue, StarterDies, Resume, vars, workerVars
<1>6. UNCHANGED <<graph, row, branch>>
  BY <1>2, <1>3, <1>4, <1>5 DEF Next
<1> QED BY <1>1, <1>6

\* In a graph that does not branch no pass has anything to know.
LEMMA PlainIsUpToDate ==
  ASSUME Base, refused = 0, ~Branching, NEW p \in Passes, Snapshot(p)
  PROVE  UpToDate(p)
<1> SUFFICES ASSUME NEW i \in Instances, row[i].status = "succeeded"
             PROVE  known[p][i] = branch[i]
  BY DEF UpToDate
<1>1. DOMAIN graph.next[i[1]] = {NoBranch}
  BY GraphParts, InstanceParts DEF Base, validateGraphReferences, Branching
<1>2. branch[i] = NoBranch
  BY <1>1 DEF Base, TypeOK
<1> QED BY <1>2 DEF Snapshot

LEMMA CompletesStep ==
  ASSUME Base, Past, Completes, [Next]_vars PROVE Completes'
<1> SUFFICES ASSUME NEW p \in Passes, ppc'[p] = "complete", refused' = 0, UpToDate(p)'
             PROVE  Finished'
  BY DEF Completes
<1>0. /\ Base' /\ Grows /\ refused = 0 /\ ppc \in [Passes -> PassPC]
      /\ rows \in [Passes -> [Instances -> Row]] /\ DOMAIN known = Passes
  BY BaseStep, GrowsStep DEF Base, TypeOK, Grows, Row
<1>1. ASSUME ppc[p] = "complete", UNCHANGED known[p] PROVE Finished'
  <2>1. UpToDate(p)
    BY <1>0, <1>1 DEF UpToDate, Grows
  <2> QED BY <1>0, <1>1, <2>1, FinishedStays DEF Completes
<1>2. ASSUME PlanTransitions(p) PROVE Finished'
  <2>1. ppc' = [ppc EXCEPT ![p] = "complete"] \/ ppc' = [ppc EXCEPT ![p] = "idle"]
        \/ ppc' = [ppc EXCEPT ![p] = "insert"]
    BY <1>2 DEF PlanTransitions, PassLeave, Leaves, PassGoto
  <2>2. IsComplete(row, known[p]) /\ UNCHANGED <<known, graph, row, branch>>
    <3>1. CASE IsComplete(row, known[p])
      BY <1>2, <3>1 DEF PlanTransitions, workerVars
    <3>2. CASE ~IsComplete(row, known[p])
      <4>1. PassGoto(p, "idle") \/ PassGoto(p, "insert")
        BY <1>2, <3>2 DEF PlanTransitions, PassLeave, Leaves
      <4> QED BY <1>0, <4>1 DEF PassGoto
    <3> QED BY <3>1, <3>2
  <2>3. UpToDate(p)
    BY <2>2 DEF UpToDate
  <2>4. Finished
    BY <2>2, <2>3, CompleteIsFinished
  <2> QED BY <1>0, <2>4, FinishedStays
<1>3. ASSUME NEW q \in Passes, PassStep(q) \/ PassDies(q), q # p PROVE Finished'
  <2>1. ppc'[p] = ppc[p] /\ known'[p] = known[p]
    BY <1>0, <1>3 DEF PassStep, PassDies, BeginPass, ReadState, FailRun, ReadRun,
       PlanTransitions, CompleteRun, InsertNode, QueueNode, ThrowPass, PassLeave,
       Leaves, PassGoto
  <2> QED BY <1>1, <2>1
<1>4. ASSUME PassStep(p) \/ PassDies(p), ~PlanTransitions(p) PROVE Finished'
  <2>1. UNCHANGED <<ppc, known>>
    <3>1. UNCHANGED <<ppc, known>> \/
          \E l \in {"idle", "state", "fail", "run", "plan", "queue", "throw", "insert"} :
            PassGoto(p, l)
      BY <1>4 DEF PassStep, PassDies, BeginPass, ReadState, FailRun, ReadRun, CompleteRun,
         InsertNode, QueueNode, ThrowPass, PassLeave, Leaves
    <3> QED BY <1>0, <3>1 DEF PassGoto
  <2> QED BY <1>1, <2>1
<1>5. ASSUME NEW i \in Instances, WorkerStep(i) PROVE UNCHANGED <<ppc, known>>
  BY <1>5 DEF WorkerStep, Claim, Throws, NotFound, SuspendRun, StoreMissing, InsertHandler,
     QueueHandler, StoreResult, Wake, StoreError, LastWake, Returns, passVars
<1>6. CASE StartInsert \/ StartQueue \/ StarterDies \/ Resume \/ UNCHANGED vars
  BY <1>1, <1>6 DEF StartInsert, StartQueue, StarterDies, Resume, vars, passVars
<1> QED BY <1>1, <1>2, <1>3, <1>4, <1>5, <1>6 DEF Next

LEMMA CompletedStep ==
  ASSUME Base, Past, Settled, [Next]_vars PROVE CompletedMeansDone'
<1> SUFFICES ASSUME runStatus' = "completed", refused' = 0, ~Branching' PROVE Finished'
  BY DEF CompletedMeansDone
<1>0. refused = 0 /\ ~Branching /\ \A p \in Passes : Snapshot(p)
  BY GrowsStep, PastParts DEF Grows, Branching
<1>1. runStatus = "completed" \/ \E p \in Passes : CompleteRun(p)
  <2>1. ASSUME NEW i \in Instances, WorkerStep(i) PROVE runStatus' \in {runStatus, "suspended"}
    BY <2>1 DEF WorkerStep, Claim, Throws, NotFound, SuspendRun, StoreMissing,
       InsertHandler,
       QueueHandler, StoreResult, Wake, StoreError, LastWake, Returns
  <2>2. ASSUME NEW p \in Passes, PassStep(p) \/ PassDies(p), ~CompleteRun(p)
        PROVE  runStatus' \in {runStatus, "failed"}
    BY <2>2 DEF PassStep, PassDies, BeginPass, ReadState, FailRun, ReadRun, PlanTransitions,
       InsertNode, QueueNode, ThrowPass
  <2>3. CASE StartInsert \/ StartQueue \/ StarterDies \/ Resume \/ UNCHANGED vars
    BY <2>3 DEF StartInsert, StartQueue, StarterDies, Resume, vars
  <2> QED BY <2>1, <2>2, <2>3 DEF Next
<1>2. CASE runStatus = "completed"
  BY <1>0, <1>2, FinishedStays DEF Settled, CompletedMeansDone
<1>3. ASSUME NEW p \in Passes, CompleteRun(p) PROVE Finished'
  <2>1. UpToDate(p) /\ ppc[p] = "complete"
    BY <1>0, <1>3, PlainIsUpToDate DEF CompleteRun
  <2>2. Finished
    BY <1>0, <2>1 DEF Settled, Completes
  <2> QED BY <1>0, <2>2, FinishedStays
<1> QED BY <1>1, <1>2, <1>3

LEMMA SettledAlways == Spec => []Settled
<1>1. Init => Settled
  BY DEF Init, Settled, Completes, CompletedMeansDone
<1>2. Base /\ Past /\ Settled /\ [Next]_vars => Settled'
  BY CompletesStep, CompletedStep DEF Settled
<1>3. Base /\ Past /\ [Next]_vars => Past'
  BY PastStep
<1> QED BY <1>1, <1>2, <1>3, PastInit, BaseAlways, PTL DEF Spec

\* A graph that does not branch is completed only when everything it asks for has
\* been executed, and nothing is fired after that.
THEOREM CompletedIsFinished == Spec => []CompletedMeansDone
<1>1. Settled => CompletedMeansDone
  BY DEF Settled
<1> QED BY <1>1, SettledAlways, PTL

\* Of one that does, this holds if the pass that completes the run knows what the
\* finished nodes chose: between planning and writing, no other actor can have
\* found anything left to fire.
THEOREM CompletesKnowing == Spec => CompletesWhenDone
<1>1. Settled => \A p \in Passes : CompleteRun(p) /\ refused = 0 /\ UpToDate(p) => Finished
  BY DEF Settled, Completes, CompleteRun
<1>2. Settled /\ [Next]_vars =>
        [\A p \in Passes : CompleteRun(p) /\ refused = 0 /\ UpToDate(p) => Finished]_vars
  BY <1>1
<1> QED BY <1>2, SettledAlways, PTL DEF Spec, CompletesWhenDone
================================================================================
