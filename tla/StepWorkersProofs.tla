---------------------------- MODULE StepWorkersProofs ----------------------------
(***************************************************************************)
(* What every module built on StepWorkers needs of the workers: their      *)
(* types, and that a worker with a job knows which job and which step.     *)
(***************************************************************************)
EXTENDS StepWorkers, TLAPS

\* A worker with a job knows its job and its step.
Placed == \A w \in Workers : pc[w] # "idle" => at[w] \in Steps /\ mine[w] \in Jobs

\* A job that is delivered or can still be names a step.
NamesStep(r) == r.state \in {"ready", "active"} \/ r.owner # None => r.step \in Steps
JobsNameSteps == \A j \in Jobs : NamesStep(job[j])

WorkerBase == WorkerTypeOK /\ Placed /\ JobsNameSteps

\* The step has a row.
Minted(s) == s \in Steps /\ status[s] # "absent"

\* The queue and the workers know only steps that have a row.
HasRow(r) == r.state \in {"ready", "active"} \/ r.owner # None => Minted(r.step)
RowsKnown == /\ \A w \in Workers : pc[w] # "idle" => Minted(at[w])
             /\ \A j \in Jobs : HasRow(job[j])

\* A row says succeeded, or is about to, only if its step's effects are done.
RowsEarned == /\ \A s \in Steps : status[s] = "succeeded" => effects[s] > 0
              /\ \A w \in Workers : pc[w] = "result" => effects[at[w]] > 0

\* No row is lost, nor is what a step has done; and no row is new.
NothingLost == \A s \in Steps : (Minted(s) => Minted(s)') /\ (effects[s] > 0 => effects'[s] > 0)
NothingMinted == \A s \in Steps : Minted(s)' => Minted(s)
--------------------------------------------------------------------------------
\* The jobs of the queue are well formed.
LEMMA JobTypes ==
  /\ FreeJob \in Job /\ DoneJob \in Job
  /\ \A s \in Steps : StepJob(s) \in Job /\ StepJob(s).state = "ready" /\ StepJob(s).step = s
BY RetriesAssumption DEF FreeJob, DoneJob, StepJob, JobRecord, Job

\* A job that is enqueued takes the place of a free one.
LEMMA Enqueued ==
  ASSUME NEW s, EnqueueStep(s)
  PROVE  \E j \in Jobs : job[j] = FreeJob /\ job' = [job EXCEPT ![j] = StepJob(s)]
<1> DEFINE i == CHOOSE j \in Jobs : job[j] = FreeJob
<1>1. i \in Jobs /\ job[i] = FreeJob
  BY DEF EnqueueStep
<1> QED BY <1>1 DEF EnqueueStep

\* Replacing one job by a well-formed one.
LEMMA JobUpdate ==
  ASSUME job \in [Jobs -> Job], JobsNameSteps, NEW j \in Jobs,
         NEW r \in Job, NamesStep(r), job' = [job EXCEPT ![j] = r]
  PROVE  job' \in [Jobs -> Job] /\ JobsNameSteps'
BY DEF JobsNameSteps

\* What the verdict of a worker does to the queue.
LEMMA VerdictTypes ==
  ASSUME job \in [Jobs -> Job], JobsNameSteps,
         NEW w \in Workers, mine[w] \in Jobs, Ack(w) \/ Nack(w)
  PROVE  job' \in [Jobs -> Job] /\ JobsNameSteps'
<1>2. CASE job' = job
  BY <1>2 DEF JobsNameSteps
<1>3. CASE job' = [job EXCEPT ![mine[w]] = DoneJob]
  BY JobUpdate, <1>3, JobTypes DEF NamesStep, DoneJob, JobRecord
<1>4. CASE Owns(w) /\ job[mine[w]].left > 1 /\ job' = [job EXCEPT ![mine[w]] = Again(@)]
  <2>1. job[mine[w]] \in Job /\ job[mine[w]].step \in Steps
    BY <1>4, NoneAssumption DEF Owns, JobsNameSteps, NamesStep
  <2>2. Again(job[mine[w]]) \in Job /\ NamesStep(Again(job[mine[w]]))
    BY <1>4, <2>1 DEF Job, NamesStep, Again, JobRecord
  <2> QED BY JobUpdate, <1>4, <2>2
<1> QED BY <1>2, <1>3, <1>4 DEF Ack, Nack

\* Whatever a worker or the queue does keeps the types, and workers with a job
\* know it.
LEMMA WorkersStep ==
  ASSUME WorkerBase, WorkerNext
  PROVE  WorkerBase'
<1> USE NoneAssumption, AttemptsAssumption, JobTypes
        DEF WorkerBase, WorkerTypeOK, Placed, WorkerPC, StepStatus, RunStatus
<1>2. ASSUME NEW w \in Workers, NEW j \in Jobs, Deliver(w, j)
      PROVE  WorkerBase'
  <2> DEFINE r == JobRecord("active", job[j].step, job[j].left, w)
  <2>1. job[j] \in Job /\ job[j].step \in Steps
    BY <1>2 DEF Deliver, JobsNameSteps, NamesStep
  <2>2. job' = [job EXCEPT ![j] = r]
    BY <1>2 DEF Deliver
  <2>3. r \in Job /\ NamesStep(r)
    BY <2>1 DEF Job, NamesStep, JobRecord
  <2>4. job' \in [Jobs -> Job] /\ JobsNameSteps'
    BY <2>2, <2>3, JobUpdate
  <2> QED BY <1>2, <2>1, <2>4 DEF Deliver, Goto, rows, queues, history, faults
<1>3. ASSUME NEW w \in Workers, LoadOwned(w)
      PROVE  WorkerBase'
  BY <1>3, VerdictTypes DEF LoadOwned, Goto, Leave, SetStatus, faults, history, queues,
     resumeWorkflow, rows, workerState
<1>4. ASSUME NEW w \in Workers, LoadClaimable(w)
      PROVE  WorkerBase'
  BY <1>4 DEF LoadClaimable, JobsNameSteps, Goto, SetStatus, faults, history, queues,
     rows, workerState
<1>5. ASSUME NEW w \in Workers, ClaimWon(w)
      PROVE  WorkerBase'
  BY <1>5 DEF ClaimWon, JobsNameSteps, Goto, SetStatus, faults, history, queues, rows,
     workerState
<1>6. ASSUME NEW w \in Workers, ClaimLost(w)
      PROVE  WorkerBase'
  BY <1>6, VerdictTypes DEF ClaimLost, Goto, Leave, SetStatus, faults, history, queues,
     resumeWorkflow, rows, workerState
<1>7. ASSUME NEW w \in Workers, MarkRunning(w)
      PROVE  WorkerBase'
  <2>1. at[w] \in Steps
    BY <1>7 DEF MarkRunning
  <2>2. /\ pc' = [pc EXCEPT ![w] = "exec"]
        /\ status' \in [Steps -> StepStatus] /\ started' \in [Steps -> Nat]
        /\ UNCHANGED <<runStatus, attempt, queues, mine, at, under, effects, faults>>
    BY <1>7, <2>1 DEF MarkRunning, EnterFunction, Goto, SetStatus
  <2> QED BY SMTT(30), <1>7, <2>2 DEF MarkRunning, JobsNameSteps, queues, faults
<1>8. ASSUME NEW w \in Workers, NewAttempt(w)
      PROVE  WorkerBase'
  <2>1. at[w] \in Steps /\ NextAttempt(at[w]) \in Nat
    BY <1>8 DEF NewAttempt, NextAttempt
  <2>2. /\ attempt' \in [Steps -> Nat] /\ under' \in [Workers -> Nat]
        /\ started' \in [Steps -> Nat] /\ status' \in [Steps -> StepStatus]
        /\ pc' = [pc EXCEPT ![w] = "exec"]
    BY <1>8, <2>1 DEF NewAttempt, EnterFunction, Goto, SetStatus
  <2> QED BY <1>8, <2>1, <2>2 DEF NewAttempt, JobsNameSteps, faults, queues
<1>9. ASSUME NEW w \in Workers, RpcReturns(w)
      PROVE  WorkerBase'
  <2>1. effects' \in [Steps -> Nat]
    BY <1>9 DEF RpcReturns
  <2> QED BY <1>9, <2>1 DEF RpcReturns, JobsNameSteps, Goto, faults, queues, rows
<1>10. ASSUME NEW w \in Workers, RpcThrows(w)
      PROVE  WorkerBase'
  BY <1>10 DEF RpcThrows, JobsNameSteps, Goto, SetStatus, faults, history, queues, rows,
     workerState
<1>11. ASSUME NEW w \in Workers, RpcNotFound(w)
      PROVE  WorkerBase'
  BY <1>11 DEF RpcNotFound, JobsNameSteps, Goto, SetStatus, faults, history, queues,
     rows, workerState
<1>12. ASSUME NEW w \in Workers, WriteResult(w)
      PROVE  WorkerBase'
  BY <1>12 DEF WriteResult, JobsNameSteps, Goto, SetStatus, faults, history, queues,
     rows, workerState
<1>13. ASSUME NEW w \in Workers, Resume(w)
      PROVE  WorkerBase'
  <2>1. wakes' \in [1..OrchAttempts -> Nat]
    BY <1>13 DEF Resume, resumeWorkflow
  <2> QED BY <1>13, <2>1 DEF Resume, JobsNameSteps, Goto, faults, history, rows
<1>14. ASSUME NEW w \in Workers, ResumeThrows(w)
      PROVE  WorkerBase'
  <2>1. refused' \in [Steps -> Nat]
    BY <1>14 DEF ResumeThrows
  <2> QED BY <1>14, <2>1 DEF ResumeThrows, JobsNameSteps, Goto, history, queues, rows
<1>15. ASSUME NEW w \in Workers, WriteError(w)
      PROVE  WorkerBase'
  BY <1>15 DEF WriteError, JobsNameSteps, Goto, SetStatus, faults, history, queues
<1>16. ASSUME NEW w \in Workers, LastResume(w)
      PROVE  WorkerBase'
  <2>1. wakes' \in [1..OrchAttempts -> Nat]
    BY <1>16 DEF LastResume, resumeWorkflow
  <2> QED BY <1>16, <2>1 DEF LastResume, JobsNameSteps, Goto, rows, history, faults
<1>17. ASSUME NEW w \in Workers, WriteMissing(w)
      PROVE  WorkerBase'
  BY <1>17 DEF WriteMissing, JobsNameSteps, Goto, SetStatus, faults, history, queues,
     rows, workerState
<1>18. ASSUME NEW w \in Workers, SuspendRun(w)
      PROVE  WorkerBase'
  BY <1>18 DEF SuspendRun, JobsNameSteps, Goto, faults, history, queues
<1>19. ASSUME NEW w \in Workers, Crash(w)
      PROVE  WorkerBase'
  <2>1. crashes' \in Nat /\ unheard' \in Nat
    BY <1>19 DEF Crash
  <2> QED BY <1>19, <2>1 DEF Crash, Leave, Goto, JobsNameSteps, rows, queues, history
<1>20. ASSUME NEW j \in Jobs, Redeliver(j)
      PROVE  WorkerBase'
  <2> DEFINE r == JobRecord("ready", job[j].step, job[j].left, None)
  <2>1. job[j] \in Job /\ job[j].step \in Steps
    BY <1>20 DEF Redeliver, JobsNameSteps, NamesStep
  <2>2. job' = [job EXCEPT ![j] = r]
    BY <1>20 DEF Redeliver
  <2>3. r \in Job /\ NamesStep(r)
    BY <2>1 DEF Job, NamesStep, JobRecord
  <2>4. job' \in [Jobs -> Job] /\ JobsNameSteps'
    BY <2>2, <2>3, JobUpdate
  <2> QED BY <1>20, <2>4 DEF Redeliver, rows, workerState, history
<1>21. ASSUME NEW w \in Workers, JobCompletes(w) \/ JobFails(w)
      PROVE  WorkerBase'
  <2>1. job' \in [Jobs -> Job] /\ JobsNameSteps'
    BY <1>21, VerdictTypes DEF JobCompletes, JobFails
  <2>2. Leave(w) /\ UNCHANGED <<rows, wakes, history, faults>>
    BY <1>21 DEF JobCompletes, JobFails
  <2> QED BY <2>1, <2>2 DEF Goto, Leave, faults, history, rows
<1> QED
  BY <1>2, <1>3, <1>4, <1>5, <1>6, <1>7, <1>8, <1>9, <1>10, <1>11, <1>12, <1>13, <1>14,
     <1>15, <1>16, <1>17, <1>18, <1>19, <1>20, <1>21 DEF WorkerNext, Handle

\* The verdict of a worker brings no new step into the queue.
LEMMA VerdictKnown ==
  ASSUME WorkerTypeOK, RowsKnown, NothingLost,
         NEW w \in Workers, mine[w] \in Jobs, Ack(w) \/ Nack(w)
  PROVE  \A j \in Jobs : HasRow(job[j])'
<1>1. SUFFICES ASSUME NEW j \in Jobs PROVE HasRow(job[j])'
  OBVIOUS
<1>2. HasRow(job[j]) /\ \A s : Minted(s) => Minted(s)'
  BY DEF RowsKnown, NothingLost, Minted
<1>3. CASE job'[j] = job[j]
  BY <1>2, <1>3 DEF HasRow
<1>4. CASE job'[j] = DoneJob
  BY <1>4 DEF HasRow, DoneJob, JobRecord
<1>5. CASE Owns(w) /\ j = mine[w] /\ job'[j] = Again(job[j])
  <2>1. Minted(job[j].step)
    BY <1>2, <1>5, NoneAssumption DEF HasRow, Owns
  <2> QED BY <1>2, <1>5, <2>1 DEF HasRow, Again, JobRecord
<1> QED BY <1>3, <1>4, <1>5 DEF Ack, Nack, WorkerTypeOK

\* Writing the row of a step that has one.
LEMMA RowWrite ==
  ASSUME WorkerTypeOK, NEW s \in Steps, Minted(s), NEW v, v # "absent", SetStatus(s, v)
  PROVE  /\ \A t : Minted(t)' <=> Minted(t)
         /\ status'[s] = v /\ \A t \in Steps \ {s} : status'[t] = status[t]
BY DEF WorkerTypeOK, Minted, SetStatus

\* Rows and jobs as they were, and no worker with a step it did not have.
LEMMA KnownStays ==
  ASSUME RowsKnown, \A t : Minted(t)' <=> Minted(t), job' = job,
         \A w \in Workers : pc'[w] # "idle" => pc[w] # "idle" /\ at'[w] = at[w]
  PROVE  RowsKnown'
<1>1. \A w \in Workers : pc'[w] # "idle" => Minted(at'[w])
  BY DEF RowsKnown
<1>2. \A w \in Workers : (pc[w] # "idle" => Minted(at[w]))'
  <2>1. ASSUME NEW w \in Workers, pc'[w] # "idle", NEW s, s = at[w] PROVE status'[at'[w]] # "absent" /\ at'[w] \in Steps
    BY <2>1, <1>1 DEF Minted
  <2> QED BY <2>1 DEF Minted
<1>3. \A j \in Jobs : HasRow(job[j])'
  <2>1. ASSUME NEW j \in Jobs, NEW r, r = job[j] PROVE HasRow(r)'
    BY <2>1 DEF RowsKnown, HasRow
  <2> QED BY DEF RowsKnown, HasRow, Minted
<1> QED BY <1>2, <1>3 DEF RowsKnown

\* Whatever a worker or the queue does loses nothing and mints no row, leaves
\* no job or worker with a step that has none, and earns what it records.
LEMMA WorkersKeep ==
  ASSUME WorkerBase, RowsKnown, RowsEarned, WorkerNext
  PROVE  RowsKnown' /\ RowsEarned' /\ NothingLost /\ NothingMinted
<1> USE DEF WorkerBase, rows, queues, history, faults
<1>1. ASSUME NEW w \in Workers, pc[w] # "idle" PROVE at[w] \in Steps /\ mine[w] \in Jobs /\ Minted(at[w])
  BY <1>1 DEF Placed, RowsKnown
<1>2. ASSUME NEW w \in Workers, LoadOwned(w)
      PROVE  RowsKnown' /\ RowsEarned' /\ NothingLost /\ NothingMinted
  <2>1. \A t : Minted(t)' <=> Minted(t)
    BY <1>2 DEF LoadOwned, Minted
  <2>2. NothingLost /\ NothingMinted
    BY <1>2, <2>1 DEF LoadOwned, NothingLost, NothingMinted
  <2>3. \A j \in Jobs : HasRow(job[j])'
    BY <1>1, <1>2, <2>2, VerdictKnown DEF LoadOwned
  <2>4. \A v \in Workers : (pc[v] # "idle" => Minted(at[v]))'
    BY <1>2 DEF LoadOwned, Leave, Goto, WorkerTypeOK, RowsKnown, Minted
  <2>5. RowsEarned'
    BY <1>2 DEF LoadOwned, Leave, Goto, WorkerTypeOK, RowsEarned
  <2> QED BY <2>2, <2>3, <2>4, <2>5 DEF RowsKnown
<1>3. ASSUME NEW w \in Workers, LoadClaimable(w)
      PROVE  RowsKnown' /\ RowsEarned' /\ NothingLost /\ NothingMinted
  <2>1. \A t : Minted(t)' <=> Minted(t)
    BY <1>3 DEF LoadClaimable, Minted
  <2>2. RowsKnown'
    BY <1>3, <2>1, KnownStays DEF LoadClaimable, Leave, Goto, WorkerTypeOK
  <2> QED BY <1>3, <2>1, <2>2
          DEF LoadClaimable, Leave, Goto, WorkerTypeOK, RowsEarned, NothingLost,
          NothingMinted
<1>4. ASSUME NEW w \in Workers, ClaimWon(w)
      PROVE  RowsKnown' /\ RowsEarned' /\ NothingLost /\ NothingMinted
  <2>1. PICK s \in Steps : s = at[w] /\ Minted(s) /\ SetStatus(s, "running")
    BY <1>1, <1>4 DEF ClaimWon
  <2>2. /\ \A t : Minted(t)' <=> Minted(t)
        /\ status'[s] = "running" /\ \A t \in Steps \ {s} : status'[t] = status[t]
    BY <2>1, RowWrite
  <2>3. RowsKnown'
    BY <1>4, <2>2, KnownStays DEF ClaimWon, Goto, WorkerTypeOK
  <2> QED BY <1>4, <2>1, <2>2, <2>3
          DEF ClaimWon, Goto, WorkerTypeOK, RowsEarned, NothingLost, NothingMinted
<1>5. ASSUME NEW w \in Workers, ClaimLost(w)
      PROVE  RowsKnown' /\ RowsEarned' /\ NothingLost /\ NothingMinted
  <2>1. \A t : Minted(t)' <=> Minted(t)
    BY <1>5 DEF ClaimLost, Minted
  <2>2. NothingLost /\ NothingMinted
    BY <1>5, <2>1 DEF ClaimLost, NothingLost, NothingMinted
  <2>3. \A j \in Jobs : HasRow(job[j])'
    BY <1>1, <1>5, <2>2, VerdictKnown DEF ClaimLost
  <2>4. \A v \in Workers : (pc[v] # "idle" => Minted(at[v]))'
    BY <1>5 DEF ClaimLost, Leave, Goto, WorkerTypeOK, RowsKnown, Minted
  <2>5. RowsEarned'
    BY <1>5 DEF ClaimLost, Leave, Goto, WorkerTypeOK, RowsEarned
  <2> QED BY <2>2, <2>3, <2>4, <2>5 DEF RowsKnown
<1>6. ASSUME NEW w \in Workers, MarkRunning(w)
      PROVE  RowsKnown' /\ RowsEarned' /\ NothingLost /\ NothingMinted
  <2>1. PICK s \in Steps : s = at[w] /\ Minted(s) /\ SetStatus(s, "running")
    BY <1>1, <1>6 DEF MarkRunning
  <2>2. /\ \A t : Minted(t)' <=> Minted(t)
        /\ status'[s] = "running" /\ \A t \in Steps \ {s} : status'[t] = status[t]
    BY <2>1, RowWrite
  <2>3. RowsKnown'
    BY <1>6, <2>2, KnownStays DEF MarkRunning, EnterFunction, Goto, WorkerTypeOK
  <2> QED BY <1>6, <2>1, <2>2, <2>3
          DEF MarkRunning, EnterFunction, Goto, WorkerTypeOK, RowsEarned, NothingLost,
          NothingMinted
<1>7. ASSUME NEW w \in Workers, NewAttempt(w)
      PROVE  RowsKnown' /\ RowsEarned' /\ NothingLost /\ NothingMinted
  <2>1. PICK s \in Steps : s = at[w] /\ Minted(s) /\ SetStatus(s, "running")
    BY <1>1, <1>7 DEF NewAttempt
  <2>2. /\ \A t : Minted(t)' <=> Minted(t)
        /\ status'[s] = "running" /\ \A t \in Steps \ {s} : status'[t] = status[t]
    BY <2>1, RowWrite
  <2>3. RowsKnown'
    BY <1>7, <2>2, KnownStays DEF NewAttempt, EnterFunction, Goto, WorkerTypeOK
  <2> QED BY <1>7, <2>1, <2>2, <2>3
          DEF NewAttempt, EnterFunction, Goto, WorkerTypeOK, RowsEarned, NothingLost,
          NothingMinted
<1>8. ASSUME NEW w \in Workers, RpcReturns(w)
      PROVE  RowsKnown' /\ RowsEarned' /\ NothingLost /\ NothingMinted
  <2>1. \A t : Minted(t)' <=> Minted(t)
    BY <1>8 DEF RpcReturns, Minted
  <2>2. RowsKnown'
    BY <1>8, <2>1, KnownStays DEF RpcReturns, Goto, WorkerTypeOK
  <2>3. \A t \in Steps : effects'[t] >= effects[t] /\ effects'[at[w]] > 0
    BY <1>1, <1>8 DEF RpcReturns, WorkerTypeOK
  <2> QED BY <1>1, <1>8, <2>1, <2>2, <2>3
          DEF RpcReturns, Goto, WorkerTypeOK, RowsEarned, NothingLost, NothingMinted
<1>9. ASSUME NEW w \in Workers, RpcThrows(w)
      PROVE  RowsKnown' /\ RowsEarned' /\ NothingLost /\ NothingMinted
  <2>1. \A t : Minted(t)' <=> Minted(t)
    BY <1>9 DEF RpcThrows, Minted
  <2>2. RowsKnown'
    BY <1>9, <2>1, KnownStays DEF RpcThrows, Leave, Goto, WorkerTypeOK
  <2> QED BY <1>9, <2>1, <2>2
          DEF RpcThrows, Leave, Goto, WorkerTypeOK, RowsEarned, NothingLost, NothingMinted
<1>10. ASSUME NEW w \in Workers, RpcNotFound(w)
      PROVE  RowsKnown' /\ RowsEarned' /\ NothingLost /\ NothingMinted
  <2>1. \A t : Minted(t)' <=> Minted(t)
    BY <1>10 DEF RpcNotFound, Minted
  <2>2. RowsKnown'
    BY <1>10, <2>1, KnownStays DEF RpcNotFound, Leave, Goto, WorkerTypeOK
  <2> QED BY <1>10, <2>1, <2>2
          DEF RpcNotFound, Leave, Goto, WorkerTypeOK, RowsEarned, NothingLost, NothingMinted
<1>11. ASSUME NEW w \in Workers, WriteResult(w)
      PROVE  RowsKnown' /\ RowsEarned' /\ NothingLost /\ NothingMinted
  <2>1. PICK s \in Steps : s = at[w] /\ Minted(s) /\ SetStatus(s, "succeeded")
    BY <1>1, <1>11 DEF WriteResult
  <2>2. /\ \A t : Minted(t)' <=> Minted(t)
        /\ status'[s] = "succeeded" /\ \A t \in Steps \ {s} : status'[t] = status[t]
    BY <2>1, RowWrite
  <2>3. RowsKnown'
    BY <1>11, <2>2, KnownStays DEF WriteResult, Goto, WorkerTypeOK
  <2> QED BY <1>11, <2>1, <2>2, <2>3
          DEF WriteResult, Goto, WorkerTypeOK, RowsEarned, NothingLost, NothingMinted
<1>12. ASSUME NEW w \in Workers, Resume(w)
      PROVE  RowsKnown' /\ RowsEarned' /\ NothingLost /\ NothingMinted
  <2>1. \A t : Minted(t)' <=> Minted(t)
    BY <1>12 DEF Resume, Minted
  <2>2. RowsKnown'
    BY <1>12, <2>1, KnownStays DEF Resume, Goto, WorkerTypeOK
  <2> QED BY <1>12, <2>1, <2>2
          DEF Resume, Goto, WorkerTypeOK, RowsEarned, NothingLost, NothingMinted
<1>13. ASSUME NEW w \in Workers, ResumeThrows(w)
      PROVE  RowsKnown' /\ RowsEarned' /\ NothingLost /\ NothingMinted
  <2>1. \A t : Minted(t)' <=> Minted(t)
    BY <1>13 DEF ResumeThrows, Minted
  <2>2. RowsKnown'
    BY <1>13, <2>1, KnownStays DEF ResumeThrows, Leave, Goto, WorkerTypeOK
  <2> QED BY <1>13, <2>1, <2>2
          DEF ResumeThrows, Leave, Goto, WorkerTypeOK, RowsEarned, NothingLost,
          NothingMinted
<1>14. ASSUME NEW w \in Workers, WriteError(w)
      PROVE  RowsKnown' /\ RowsEarned' /\ NothingLost /\ NothingMinted
  <2>1. PICK s \in Steps : s = at[w] /\ Minted(s) /\ SetStatus(s, "failed")
    BY <1>1, <1>14 DEF WriteError
  <2>2. /\ \A t : Minted(t)' <=> Minted(t)
        /\ status'[s] = "failed" /\ \A t \in Steps \ {s} : status'[t] = status[t]
    BY <2>1, RowWrite
  <2>3. RowsKnown'
    BY <1>14, <2>2, KnownStays DEF WriteError, Goto, WorkerTypeOK
  <2> QED BY <1>14, <2>1, <2>2, <2>3
          DEF WriteError, Goto, WorkerTypeOK, RowsEarned, NothingLost, NothingMinted
<1>15. ASSUME NEW w \in Workers, LastResume(w)
      PROVE  RowsKnown' /\ RowsEarned' /\ NothingLost /\ NothingMinted
  <2>1. \A t : Minted(t)' <=> Minted(t)
    BY <1>15 DEF LastResume, Minted
  <2>2. RowsKnown'
    BY <1>15, <2>1, KnownStays DEF LastResume, Goto, WorkerTypeOK
  <2> QED BY <1>15, <2>1, <2>2
          DEF LastResume, Goto, WorkerTypeOK, RowsEarned, NothingLost, NothingMinted
<1>16. ASSUME NEW w \in Workers, WriteMissing(w)
      PROVE  RowsKnown' /\ RowsEarned' /\ NothingLost /\ NothingMinted
  <2>1. PICK s \in Steps : s = at[w] /\ Minted(s) /\ SetStatus(s, "failed")
    BY <1>1, <1>16 DEF WriteMissing
  <2>2. /\ \A t : Minted(t)' <=> Minted(t)
        /\ status'[s] = "failed" /\ \A t \in Steps \ {s} : status'[t] = status[t]
    BY <2>1, RowWrite
  <2>3. RowsKnown'
    BY <1>16, <2>2, KnownStays DEF WriteMissing, Goto, WorkerTypeOK
  <2> QED BY <1>16, <2>1, <2>2, <2>3
          DEF WriteMissing, Goto, WorkerTypeOK, RowsEarned, NothingLost, NothingMinted
<1>17. ASSUME NEW w \in Workers, SuspendRun(w)
      PROVE  RowsKnown' /\ RowsEarned' /\ NothingLost /\ NothingMinted
  <2>1. \A t : Minted(t)' <=> Minted(t)
    BY <1>17 DEF SuspendRun, Minted
  <2>2. RowsKnown'
    BY <1>17, <2>1, KnownStays DEF SuspendRun, Goto, WorkerTypeOK
  <2> QED BY <1>17, <2>1, <2>2
          DEF SuspendRun, Goto, WorkerTypeOK, RowsEarned, NothingLost, NothingMinted
<1>18. ASSUME NEW w \in Workers, Crash(w)
      PROVE  RowsKnown' /\ RowsEarned' /\ NothingLost /\ NothingMinted
  <2>1. \A t : Minted(t)' <=> Minted(t)
    BY <1>18 DEF Crash, Minted
  <2>2. RowsKnown'
    BY <1>18, <2>1, KnownStays DEF Crash, Leave, Goto, WorkerTypeOK
  <2> QED BY <1>18, <2>1, <2>2
          DEF Crash, Leave, Goto, WorkerTypeOK, RowsEarned, NothingLost, NothingMinted
<1>19. ASSUME NEW w \in Workers, NEW j \in Jobs, Deliver(w, j)
      PROVE  RowsKnown' /\ RowsEarned' /\ NothingLost /\ NothingMinted
  <2>1. PICK s \in Steps : s = job[j].step /\ Minted(s)
    BY <1>19 DEF Deliver, RowsKnown, HasRow, Minted
  <2>2. \A t : Minted(t)' <=> Minted(t)
    BY <1>19 DEF Deliver, Minted
  <2>3. \A i \in Jobs : HasRow(job[i])'
    BY <1>19, <2>1, <2>2 DEF Deliver, RowsKnown, HasRow, JobRecord, WorkerTypeOK
  <2>4. \A v \in Workers : pc'[v] # "idle" => \/ v = w /\ at'[v] = s
                                              \/ pc[v] # "idle" /\ at'[v] = at[v]
    BY <1>19, <2>1 DEF Deliver, Goto, WorkerTypeOK
  <2>5. \A v \in Workers : (pc[v] # "idle" => Minted(at[v]))'
    BY <1>19, <2>1, <2>4 DEF Deliver, RowsKnown, Minted
  <2> QED BY <1>19, <2>2, <2>3, <2>5
          DEF Deliver, Goto, WorkerTypeOK, RowsKnown, RowsEarned, NothingLost, NothingMinted
<1>20. ASSUME NEW j \in Jobs, Redeliver(j)
      PROVE  RowsKnown' /\ RowsEarned' /\ NothingLost /\ NothingMinted
  <2>1. Minted(job[j].step)
    BY <1>20 DEF Redeliver, RowsKnown, HasRow
  <2>2. \A i \in Jobs : HasRow(job[i])'
    BY <1>20, <2>1 DEF Redeliver, RowsKnown, HasRow, JobRecord, WorkerTypeOK, Minted
  <2> QED BY <1>20, <2>2
          DEF Redeliver, workerState, RowsKnown, RowsEarned, NothingLost, NothingMinted,
          Minted
<1>21. ASSUME NEW w \in Workers, JobCompletes(w) \/ JobFails(w)
      PROVE  RowsKnown' /\ RowsEarned' /\ NothingLost /\ NothingMinted
  <2>0. /\ pc[w] # "idle" /\ Leave(w) /\ (Ack(w) \/ Nack(w))
        /\ UNCHANGED <<status, effects>>
    BY <1>21 DEF JobCompletes, JobFails
  <2>1. \A t : Minted(t)' <=> Minted(t)
    BY <2>0 DEF Minted
  <2>2. NothingLost /\ NothingMinted
    BY <2>0, <2>1 DEF NothingLost, NothingMinted
  <2>3. \A j \in Jobs : HasRow(job[j])'
    BY <1>1, <2>0, <2>2, VerdictKnown
  <2>4. \A v \in Workers : (pc[v] # "idle" => Minted(at[v]))'
    BY <2>0 DEF Leave, Goto, WorkerTypeOK, RowsKnown, Minted
  <2>5. RowsEarned'
    BY <2>0 DEF Leave, Goto, WorkerTypeOK, RowsEarned
  <2> QED BY <2>2, <2>3, <2>4, <2>5 DEF RowsKnown
<1> QED
  BY <1>2, <1>3, <1>4, <1>5, <1>6, <1>7, <1>8, <1>9, <1>10, <1>11, <1>12,
     <1>13, <1>14, <1>15, <1>16, <1>17, <1>18, <1>19, <1>20, <1>21 DEF WorkerNext, Handle
================================================================================
